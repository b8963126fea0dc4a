---------------------------- MODULE SessionTimes ----------------------------
(***************************************************************************)
(* The times of one session.  start and stop note the wall clock, and      *)
(* get_stats derives the elapsed seconds from what they noted.  The wall   *)
(* clock can be set while the server runs, forwards and backwards.         *)
(***************************************************************************)
EXTENDS Integers

CONSTANTS
    Second,     \* the ticks of the clock in a second
    MaxClock,   \* bound: the last time that the clock shows, and the longest run
    None

ASSUME TimesAssumption ==
    Second \in Nat \ {0} /\ MaxClock \in Nat /\ None \notin Int

VARIABLES
    clock,      \* SystemTime::now()
    state, start_time, stop_time,       \* of the session
    answer,     \* the last answer to get_stats
    ran,        \* history: the ticks that passed while the session was started
    clock_set,  \* history: somebody set the clock while it was started
    ran_then    \* history: <<ran, clock_set>> when answer was given

sessionVars == <<state, start_time, stop_time>>
answerVars == <<answer, ran_then>>
vars == <<clock, sessionVars, answerVars, ran, clock_set>>

Init ==
    /\ clock \in 0 .. MaxClock
    /\ state = "Created" /\ start_time = None /\ stop_time = None
    /\ answer = None
    /\ ran = 0 /\ clock_set = FALSE /\ ran_then = <<0, FALSE>>

\* Time passes.
Tick ==
    /\ clock < MaxClock /\ ran < MaxClock
    /\ clock' = clock + 1
    /\ ran' = IF state = "Started" THEN ran + 1 ELSE ran
    /\ UNCHANGED <<sessionVars, answerVars, clock_set>>

SetClock ==
    /\ clock' \in 0 .. MaxClock
    /\ clock_set' = (clock_set \/ state = "Started")
    /\ UNCHANGED <<sessionVars, answerVars, ran>>

StartSession ==
    /\ state = "Created"
    /\ state' = "Started" /\ start_time' = clock
    /\ UNCHANGED <<clock, stop_time, answerVars, ran, clock_set>>

StopSession_Repeated ==
    /\ state # "Created"
    /\ state' = "Stopped" /\ stop_time' = clock
    /\ UNCHANGED <<clock, start_time, answerVars, ran, clock_set>>
StopSession ==
    /\ state = "Started"
    /\ state' = "Stopped" /\ stop_time' = clock
    /\ UNCHANGED <<clock, start_time, answerVars, ran, clock_set>>

-----------------------------------------------------------------------------
\* duration_since fails when the second time is before the first; as_secs drops
\* the rest of a second.
Elapsed_Wrapping(a, b) ==
    IF a = None \/ b = None THEN None ELSE ((b - a) % (16 * Second)) \div Second
Elapsed(a, b) ==
    IF a = None \/ b = None \/ b < a THEN None ELSE (b - a) \div Second

ElapsedTime_Now ==
    IF state = "Created" THEN None ELSE Elapsed(start_time, clock)
ElapsedTime ==
    CASE state = "Created" -> None
      [] state = "Started" -> Elapsed(start_time, clock)
      [] state = "Stopped" -> Elapsed(start_time, stop_time)

\* SessionStats::from: a time that is not known is shown as 0.
SessionStats ==
    [state |-> state, start_time |-> start_time, stop_time |-> stop_time,
     elapsed_time |-> IF ElapsedTime = None THEN 0 ELSE ElapsedTime]

GetStats ==
    /\ answer' = SessionStats
    /\ ran_then' = <<ran, clock_set>>
    /\ UNCHANGED <<clock, sessionVars, ran, clock_set>>

Next == Tick \/ SetClock \/ StartSession \/ StopSession \/ GetStats

Spec == Init /\ [][Next]_vars

-----------------------------------------------------------------------------
Times == 0 .. MaxClock
Answers == [state : {"Created", "Started", "Stopped"},
            start_time : Times \cup {None}, stop_time : Times \cup {None},
            elapsed_time : 0 .. (MaxClock \div Second)]

\* The type invariant; that no elapsed time is longer than the clock can show is
\* what a difference that wraps around would break (elapsed).
TypeOK ==
    /\ clock \in Times
    /\ state \in {"Created", "Started", "Stopped"}
    /\ start_time \in Times \cup {None} /\ stop_time \in Times \cup {None}
    /\ answer \in Answers \cup {None}
    /\ ran \in Times /\ clock_set \in BOOLEAN
    /\ ran_then \in Times \X BOOLEAN

\* get_stats shows the whole seconds that the session has been started, and after
\* the stop those that it was, unless the clock was set in between; clocks set
\* before the start or after the stop do no harm (elapsed_time).
ElapsedIsRunTime ==
    answer # None /\ ~ran_then[2] => answer.elapsed_time = ran_then[1] \div Second

\* A stopped session's stats are final: every later answer shows the same times,
\* whatever happens to the clock.
StoppedIsFinal ==
    [][answer # None /\ answer.state = "Stopped" => answer' = answer]_answer

=============================================================================
