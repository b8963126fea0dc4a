--------------------------- MODULE MetricsInterval ---------------------------
(***************************************************************************)
(* When the metrics collection polls the state of a session: its passes    *)
(* are driven by a tokio interval of one second and counted by elapsed,    *)
(* and a pass can begin late, for want of a worker thread, and take long.  *)
(* The one peer connection of the session has a sender that sends at every *)
(* instant.                                                                *)
(***************************************************************************)
EXTENDS Naturals

CONSTANTS
    Period,     \* the instants in the second of the interval
    Pollings,   \* the values of polling_state_s
    MaxTime     \* bound: the instants of a behaviour

ASSUME IntervalAssumption ==
    /\ Period \in Nat \ {0} /\ Pollings \subseteq Nat \ {0}
    /\ MaxTime \in Nat

VARIABLES
    now,
    due,        \* when the interval's next tick is due
    in_pass,    \* between a tick and the wait for the next
    to_visit,   \* the iterator is still to visit the session
    created,    \* when the session was added, or MaxTime + 1 before that
    polling,    \* polling_state_s of the session
    elapsed,
    state,      \* video_send of the peer connection
    polls,      \* history: how often the state was polled
    late        \* history: some pass had not ended when the next tick was due

clockVars == <<now, due>>
sessionVars == <<state, polls>>
vars == <<clockVars, created, polling, in_pass, to_visit, elapsed, sessionVars, late>>

Registered == created <= now

\* The first tick of an interval is due at once; main has spawned the task.
Init ==
    /\ now = 0 /\ due = 0 /\ created = MaxTime + 1
    /\ in_pass = FALSE /\ to_visit = FALSE
    /\ polling \in Pollings /\ elapsed = 1
    /\ state = [sending |-> FALSE, bytes |-> 0]
    /\ polls = 0 /\ late = FALSE

\* Time passes in a pass, with its awaits and its spinning, and outside, where the
\* task waits for the timer and then for a worker thread.
Time ==
    /\ now < MaxTime
    /\ now' = now + 1
    /\ UNCHANGED <<due, created, polling, in_pass, to_visit, elapsed, sessionVars, late>>

\* The iterator of a pass that is on may find the new session, or be past it.
AddSession ==
    /\ ~Registered
    /\ created' = now
    /\ to_visit' \in {FALSE, in_pass}
    /\ UNCHANGED <<clockVars, polling, in_pass, elapsed, sessionVars, late>>

\* interval.tick(): ticks that were missed follow one another without a pause
\* (MissedTickBehavior::Burst, the default).
NextDue_Delay == now + Period
NextDue == due + Period

IntervalTick_NotAwaited ==
    /\ ~in_pass
    /\ due' = NextDue
    /\ in_pass' = TRUE /\ to_visit' = Registered
    /\ UNCHANGED <<now, created, polling, elapsed, sessionVars, late>>
IntervalTick ==
    /\ ~in_pass
    /\ due <= now
    /\ due' = NextDue
    /\ in_pass' = TRUE /\ to_visit' = Registered
    /\ UNCHANGED <<now, created, polling, elapsed, sessionVars, late>>

\* export_stats, at some instant of the pass; now + 1 bytes have been sent.
ExportStats ==
    /\ in_pass /\ to_visit
    /\ to_visit' = FALSE
    /\ \/ /\ elapsed % polling = 0
          /\ state' = [sending |-> now + 1 > state.bytes, bytes |-> now + 1]
          /\ polls' = polls + 1
       \/ elapsed % polling # 0 /\ UNCHANGED sessionVars
    /\ UNCHANGED <<clockVars, created, polling, in_pass, elapsed, late>>

EndPass ==
    /\ in_pass /\ ~to_visit
    /\ elapsed' = IF Registered THEN elapsed + 1 ELSE 1
    /\ in_pass' = FALSE
    /\ late' = (late \/ due <= now)
    /\ UNCHANGED <<clockVars, created, polling, to_visit, sessionVars>>

Next == Time \/ AddSession \/ IntervalTick \/ ExportStats \/ EndPass

Spec == Init /\ [][Next]_vars

-----------------------------------------------------------------------------
\* polling_state_s are seconds although elapsed counts passes: whenever the
\* collection has caught up, the state of a session has been polled at least once
\* in so many seconds since it was added, also when passes have begun late or taken
\* too long (start_metrics_collection).
PollsKeepPace ==
    ~in_pass /\ now < due /\ Registered =>
        now - created < (polls + 1) * polling * Period

\* A peer connection that sends all the time is shown as sending after every poll,
\* while every pass, however late a worker thread took it up, has ended before the
\* next tick was due: no two passes find the same bytes (start_metrics_collection).
SteadySenderSeen == polls > 0 /\ ~late => state.sending

=============================================================================
