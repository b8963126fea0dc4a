------------------------ MODULE MetricsIntervalProofs ------------------------
(***************************************************************************)
(* Proofs about the polls of the metrics collection, for any period, any   *)
(* polling_state_s and any time that passes are waited for and take.       *)
(***************************************************************************)
EXTENDS MetricsInterval, TLAPS

Flags == in_pass \in BOOLEAN /\ to_visit \in BOOLEAN

Numbers ==
    /\ now \in Nat /\ due \in Nat /\ created \in Nat
    /\ polling \in Nat \ {0} /\ elapsed \in Nat \ {0} /\ polls \in Nat
    /\ state.bytes \in Nat

PassOK ==
    /\ now <= MaxTime /\ due <= now + Period
    /\ in_pass => Period <= due
    /\ to_visit => in_pass /\ Registered
    /\ ~Registered => created = MaxTime + 1 /\ elapsed = 1 /\ polls = 0
    /\ polls = 0 => state.bytes = 0

\* The value of elapsed that the session was visited with last, or passed over.
Visited == IF in_pass /\ ~to_visit THEN elapsed ELSE elapsed - 1

\* How many ticks there have been at most from the adding of the session to due.
Ticks == IF in_pass THEN elapsed + 1 ELSE elapsed

\* The session is polled at every multiple of polling that elapsed takes.
PolledInTime ==
    /\ polls * polling <= Visited /\ Visited < (polls + 1) * polling
    /\ due <= created + Ticks * Period

\* But for the first one, where it was added to a shard that the pass had left
\* already; then it was not there at the tick of that pass.
FirstPassMissed ==
    /\ polling = 1 /\ polls + 1 = Visited
    /\ due <= created + (Ticks - 1) * Period

PaceOK == Registered => PolledInTime \/ FirstPassMissed

\* While every pass has ended before the next tick was due, what the sender had sent
\* at the last poll is what it had sent when the tick of this pass was due at most.
SteadyOK ==
    ~late =>
        /\ ~in_pass => state.bytes <= due
        /\ to_visit => state.bytes + Period <= due
        /\ state.bytes <= now + 1
        /\ polls > 0 => state.sending

Inv == Flags /\ Numbers /\ PassOK /\ PaceOK /\ SteadyOK

-----------------------------------------------------------------------------
LEMMA Distribute ==
    ASSUME NEW a \in Nat, NEW b \in Nat
    PROVE  a * b \in Nat /\ (a + 1) * b = a * b + b
OBVIOUS

LEMMA TimesMonotone ==
    ASSUME NEW a \in Nat, NEW b \in Nat, NEW c \in Nat, a <= b
    PROVE  a * c <= b * c
<1>1. PICK d \in Nat : b = a + d
  <2>1. b - a \in Nat /\ b = a + (b - a)
    OBVIOUS
  <2> QED
    BY <2>1
<1>2. b * c = a * c + d * c /\ d * c \in Nat /\ a * c \in Nat
  BY <1>1
<1> QED
  BY <1>2

\* The multiple of k that follows n * k.
LEMMA NextMultiple ==
    ASSUME NEW k \in Nat \ {0}, NEW n \in Nat, NEW e \in Nat,
           n * k <= e - 1, e - 1 < (n + 1) * k
    PROVE  e % k = 0 <=> e = (n + 1) * k
<1>1. /\ n * k \in Nat /\ (n + 1) * k = n * k + k
      /\ (n + 2) * k = (n + 1) * k + k
  BY Distribute
<1>2. ASSUME e % k = 0
      PROVE  e = (n + 1) * k
  <2> DEFINE q == e \div k
  <2>1. q \in Nat /\ e = k * q
    BY <1>2
  <2>2. k * q = q * k
    BY <2>1
  <2> HIDE DEF q
  <2>3. CASE q <= n
    BY <1>1, <2>1, <2>2, <2>3, TimesMonotone
  <2>4. CASE q >= n + 2
    <3>1. (n + 2) * k <= q * k
      BY <2>1, <2>4, TimesMonotone
    <3> QED
      BY <1>1, <2>1, <2>2, <3>1
  <2>5. CASE q = n + 1
    BY <2>1, <2>2, <2>5
  <2> QED
    BY <2>1, <2>3, <2>4, <2>5
<1>3. ASSUME e = (n + 1) * k
      PROVE  e % k = 0
  <2> DEFINE q == e \div k
             r == e % k
  <2>1. q \in Nat /\ r \in Nat /\ r < k /\ e = k * q + r
    OBVIOUS
  <2>2. k * q = q * k /\ q * k \in Nat
    BY <2>1
  <2> HIDE DEF q, r
  <2>3. CASE q <= n
    <3>1. q * k <= n * k
      BY <2>1, <2>3, TimesMonotone
    <3> QED
      BY <1>1, <1>3, <2>1, <2>2, <3>1
  <2>4. CASE q >= n + 2
    <3>1. (n + 2) * k <= q * k
      BY <2>1, <2>4, TimesMonotone
    <3> QED
      BY <1>1, <1>3, <2>1, <2>2, <3>1
  <2>5. CASE q = n + 1
    BY <1>3, <2>1, <2>2, <2>5 DEF r
  <2> QED
    BY <2>1, <2>3, <2>4, <2>5
<1> QED
  BY <1>2, <1>3

-----------------------------------------------------------------------------
LEMMA InvInit == Init => Inv
<1> SUFFICES ASSUME Init
             PROVE  Inv
  OBVIOUS
<1>1. Flags /\ Numbers
  <2>1. Flags
    BY DEF Init, Flags
  <2>2. state.bytes = 0 /\ polling \in Nat \ {0} /\ MaxTime + 1 \in Nat
    BY IntervalAssumption DEF Init
  <2> QED
    BY <2>1, <2>2 DEF Init, Numbers
<1>2. ~Registered
  BY IntervalAssumption DEF Init, Registered
<1>3. PassOK
  BY <1>2, IntervalAssumption DEF Init, PassOK
<1>4. PaceOK /\ SteadyOK
  BY <1>2 DEF Init, PaceOK, SteadyOK
<1> QED
  BY <1>1, <1>3, <1>4 DEF Inv

LEMMA TimeKeeps == Inv /\ Time => Inv'
<1> SUFFICES ASSUME Inv, Time
             PROVE  Inv'
  OBVIOUS
<1> USE DEF Inv, Time, clockVars, sessionVars
<1>1. Flags' /\ Numbers'
  <2>1. Flags'
    BY DEF Flags
  <2>2. Numbers'
    BY DEF Numbers
  <2> QED
    BY <2>1, <2>2
<1>2. Registered' <=> Registered
  BY IntervalAssumption DEF Registered, PassOK, Numbers
<1>3. PassOK'
  BY <1>2, IntervalAssumption DEF PassOK, Numbers
<1>4. PaceOK'
  BY <1>2 DEF PaceOK, PolledInTime, FirstPassMissed, Visited, Ticks
<1>5. SteadyOK'
  BY DEF SteadyOK, Numbers
<1> QED
  BY <1>1, <1>3, <1>4, <1>5

\* The session may be added before or behind the iterator of a pass that is on.
LEMMA AddSessionKeeps == Inv /\ AddSession => Inv'
<1> SUFFICES ASSUME Inv, AddSession
             PROVE  Inv'
  OBVIOUS
<1> USE DEF Inv, AddSession, clockVars, sessionVars
<1>1. Flags' /\ Numbers'
  <2>1. Flags'
    BY DEF Flags
  <2>2. Numbers'
    BY DEF Numbers
  <2> QED
    BY <2>1, <2>2
<1>2. Registered' /\ ~Registered
  BY DEF Registered, Numbers
<1>3. PassOK'
  <2>1. to_visit' => in_pass'
    OBVIOUS
  <2> QED
    BY <1>2, <2>1 DEF PassOK
<1>4. PaceOK'
  <2>1. /\ elapsed' = 1 /\ polls' = 0 /\ polling' = polling /\ in_pass' = in_pass
        /\ due' <= created' + Period
    BY <1>2 DEF PassOK
  <2>2. 1 * Period = Period /\ 2 * Period = Period + Period /\ Period \in Nat
    BY IntervalAssumption
  <2>3. 0 * polling = 0 /\ (0 + 1) * polling = polling
    BY DEF Numbers
  <2>4. CASE in_pass /\ ~to_visit' /\ polling = 1
    <3>1. FirstPassMissed'
      BY <2>1, <2>2, <2>4 DEF FirstPassMissed, Visited, Ticks
    <3> QED
      BY <3>1 DEF PaceOK
  <2>5. CASE ~(in_pass /\ ~to_visit' /\ polling = 1)
    <3>1. Visited' \in {0, 1} /\ (Visited' = 1 => polling # 1)
      BY <2>1, <2>5 DEF Visited, Numbers
    <3>2. Ticks' \in {1, 2}
      BY <2>1 DEF Ticks, Numbers
    <3>3. due' <= created' + Ticks' * Period
      <4>1. Ticks' * Period \in {Period, Period + Period}
        BY <2>2, <3>2
      <4>2. due' \in Nat /\ created' \in Nat
        BY <1>1 DEF Numbers
      <4> QED
        BY <2>1, <2>2, <4>1, <4>2
    <3>4. PolledInTime'
      BY <2>1, <2>3, <3>1, <3>3 DEF PolledInTime, Numbers
    <3> QED
      BY <3>4 DEF PaceOK
  <2> QED
    BY <2>4, <2>5
<1>5. SteadyOK'
  <2>1. to_visit' => in_pass
    OBVIOUS
  <2>2. /\ state.bytes = 0 /\ polls = 0 /\ due \in Nat /\ now \in Nat
        /\ in_pass => Period <= due
    BY <1>2 DEF PassOK, Numbers
  <2> QED
    BY <2>1, <2>2, IntervalAssumption DEF SteadyOK
<1> QED
  BY <1>1, <1>3, <1>4, <1>5

LEMMA IntervalTickKeeps == Inv /\ IntervalTick => Inv'
<1> SUFFICES ASSUME Inv, IntervalTick
             PROVE  Inv'
  OBVIOUS
<1> USE DEF Inv, IntervalTick, NextDue, clockVars, sessionVars
<1>1. Flags' /\ Numbers'
  <2>1. Flags'
    BY DEF Flags, Registered
  <2>2. Numbers'
    BY IntervalAssumption DEF Numbers
  <2> QED
    BY <2>1, <2>2
<1>2. Registered' <=> Registered
  BY DEF Registered
<1>3. PassOK'
  BY <1>2, IntervalAssumption DEF PassOK, Numbers
<1>4. PaceOK'
  <2> SUFFICES ASSUME Registered
               PROVE  PolledInTime' \/ FirstPassMissed'
    BY <1>2 DEF PaceOK
  <2>1. Visited' = Visited /\ Ticks = elapsed /\ Ticks' = elapsed + 1
    BY DEF Visited, Ticks
  <2>2. /\ elapsed \in Nat /\ elapsed - 1 \in Nat /\ due \in Nat /\ created \in Nat
        /\ Period \in Nat
    BY IntervalAssumption DEF Numbers
  <2>3. /\ (elapsed + 1) * Period = elapsed * Period + Period
        /\ elapsed * Period = (elapsed - 1) * Period + Period
        /\ (elapsed - 1) * Period \in Nat /\ (elapsed + 1) - 1 = elapsed
    BY <2>2, Distribute
  <2>4. CASE PolledInTime
    BY <2>1, <2>2, <2>3, <2>4 DEF PolledInTime
  <2>5. CASE FirstPassMissed
    BY <2>1, <2>2, <2>3, <2>5 DEF FirstPassMissed
  <2> QED
    BY <2>4, <2>5 DEF PaceOK
<1>5. SteadyOK'
  <2>1. state.bytes \in Nat /\ due \in Nat /\ now \in Nat /\ Period \in Nat
    BY IntervalAssumption DEF Numbers
  <2> QED
    BY <2>1 DEF SteadyOK
<1> QED
  BY <1>1, <1>3, <1>4, <1>5

LEMMA ExportStatsKeeps == Inv /\ ExportStats => Inv'
<1> SUFFICES ASSUME Inv, ExportStats
             PROVE  Inv'
  OBVIOUS
<1> USE DEF Inv, ExportStats, clockVars, sessionVars
<1>0. state'.bytes \in {state.bytes, now + 1} /\ state.bytes \in Nat /\ now \in Nat
  BY DEF Numbers
<1>1. Flags' /\ Numbers'
  <2>1. Flags'
    BY DEF Flags
  <2>2. Numbers'
    BY <1>0 DEF Numbers
  <2> QED
    BY <2>1, <2>2
<1>2. Registered' /\ Registered
  BY DEF Registered, PassOK
<1>3. PassOK'
  BY <1>2 DEF PassOK, Numbers
<1>4. PaceOK'
  <2>1. /\ Visited = elapsed - 1 /\ Visited' = elapsed /\ Ticks' = Ticks
        /\ created' = created /\ due' = due /\ polling' = polling
    BY DEF Visited, Ticks
  <2>2. polling \in Nat \ {0} /\ polls \in Nat /\ elapsed \in Nat \ {0}
    BY DEF Numbers
  <2>3. CASE PolledInTime
    <3>1. elapsed % polling = 0 <=> elapsed = (polls + 1) * polling
      BY <2>1, <2>2, <2>3, NextMultiple DEF PolledInTime
    <3>2. polls * polling \in Nat /\ (polls + 1) * polling = polls * polling + polling
      BY <2>2, Distribute
    <3>3. ((polls + 1) + 1) * polling = (polls + 1) * polling + polling
      BY <2>2, Distribute
    <3>4. CASE elapsed % polling = 0
      <4>1. polls' = polls + 1
        BY <3>4
      <4> QED
        BY <1>2, <2>1, <2>2, <2>3, <3>1, <3>3, <3>4, <4>1 DEF PaceOK, PolledInTime
    <3>5. CASE elapsed % polling # 0
      <4>1. polls' = polls
        BY <3>5
      <4> QED
        BY <1>2, <2>1, <2>2, <2>3, <3>1, <3>2, <3>5, <4>1 DEF PaceOK, PolledInTime
    <3> QED
      BY <3>4, <3>5
  <2>4. CASE FirstPassMissed
    <3>1. elapsed % polling = 0
      BY <2>2, <2>4 DEF FirstPassMissed
    <3> QED
      BY <1>2, <2>1, <2>2, <2>4, <3>1 DEF PaceOK, FirstPassMissed
  <2> QED
    BY <1>2, <2>3, <2>4 DEF PaceOK
<1>5. SteadyOK'
  <2> SUFFICES ASSUME ~late
               PROVE  SteadyOK'
    BY DEF SteadyOK
  <2>1. state.bytes <= now
    <3>1. due <= now + Period /\ due \in Nat /\ now \in Nat /\ Period \in Nat
      BY IntervalAssumption DEF PassOK, Numbers
    <3>2. state.bytes + Period <= due
      BY DEF SteadyOK
    <3> QED
      BY <1>0, <3>1, <3>2
  <2>2. state'.bytes <= now + 1
    BY <1>0, <2>1
  <2>3. CASE elapsed % polling = 0
    <3>1. now + 1 > state.bytes
      BY <1>0, <2>1
    <3>2. state' = [sending |-> TRUE, bytes |-> now + 1]
      BY <2>3, <3>1
    <3> QED
      BY <2>1, <2>2, <3>2 DEF SteadyOK
  <2>4. CASE elapsed % polling # 0
    BY <2>2, <2>4 DEF SteadyOK
  <2> QED
    BY <2>3, <2>4
<1> QED
  BY <1>1, <1>3, <1>4, <1>5

LEMMA EndPassKeeps == Inv /\ EndPass => Inv'
<1> SUFFICES ASSUME Inv, EndPass
             PROVE  Inv'
  OBVIOUS
<1> USE DEF Inv, EndPass, clockVars, sessionVars
<1>0. state.bytes \in Nat /\ now \in Nat /\ due \in Nat
  BY DEF Numbers
<1>1. Flags' /\ Numbers'
  <2>1. Flags'
    BY DEF Flags
  <2>2. Numbers'
    BY DEF Numbers
  <2> QED
    BY <2>1, <2>2
<1>2. Registered' <=> Registered
  BY DEF Registered
<1>3. PassOK'
  BY <1>2 DEF PassOK
<1>4. PaceOK'
  <2>1. Registered => Visited' = Visited /\ Ticks' = Ticks
    BY DEF Visited, Ticks, Numbers
  <2> QED
    BY <1>2, <2>1 DEF PaceOK, PolledInTime, FirstPassMissed
<1>5. SteadyOK'
  <2> SUFFICES ASSUME ~late'
               PROVE  SteadyOK'
    BY DEF SteadyOK
  <2>1. ~late /\ now < due
    <3>1. ~late /\ ~(due <= now)
      OBVIOUS
    <3> QED
      BY <1>0, <3>1
  <2> QED
    BY <1>0, <2>1 DEF SteadyOK, Flags
<1> QED
  BY <1>1, <1>3, <1>4, <1>5

LEMMA InvNext == Inv /\ [Next]_vars => Inv'
<1>1. Inv /\ UNCHANGED vars => Inv'
  BY DEF vars, clockVars, sessionVars, Inv, Flags, Numbers, PassOK, PaceOK, SteadyOK,
         PolledInTime, FirstPassMissed, Visited, Ticks, Registered
<1> QED
  BY <1>1, TimeKeeps, AddSessionKeeps, IntervalTickKeeps, ExportStatsKeeps, EndPassKeeps DEF Next

\* The bound of PollsKeepPace: one tick and as many polls as there have been are
\* due by then.
LEMMA InvKeepsPace == Inv => PollsKeepPace
<1> SUFFICES ASSUME Inv, ~in_pass, now < due, Registered
             PROVE  now - created < (polls + 1) * polling * Period
  BY DEF PollsKeepPace
<1> DEFINE k == (polls + 1) * polling
<1>1. /\ now \in Nat /\ due \in Nat /\ created \in Nat /\ elapsed \in Nat \ {0}
      /\ polls \in Nat /\ polling \in Nat /\ Period \in Nat /\ k \in Nat
  BY IntervalAssumption DEF Inv, Numbers
<1>2. now - created < due - created /\ now - created \in Nat
  BY <1>1 DEF Registered
<1>3. CASE PolledInTime
  <2>1. elapsed <= k /\ due <= created + elapsed * Period
    BY <1>1, <1>3 DEF PolledInTime, Visited, Ticks
  <2> HIDE DEF k
  <2>2. elapsed * Period <= k * Period /\ elapsed * Period \in Nat /\ k * Period \in Nat
    BY <1>1, <2>1, TimesMonotone, Distribute
  <2> QED
    BY <1>1, <1>2, <2>1, <2>2 DEF k
<1>4. CASE FirstPassMissed
  <2>1. elapsed - 1 = k /\ due <= created + (elapsed - 1) * Period
    BY <1>1, <1>4 DEF FirstPassMissed, Visited, Ticks
  <2> HIDE DEF k
  <2>2. k * Period \in Nat
    BY <1>1, Distribute
  <2> QED
    BY <1>1, <1>2, <2>1, <2>2 DEF k
<1> QED
  BY <1>3, <1>4 DEF Inv, PaceOK

-----------------------------------------------------------------------------
\* Whenever the collection has caught up, the session has been polled at least
\* once in polling_state_s seconds since it was added, however long passes take.
THEOREM PaceKept == Spec => []PollsKeepPace
BY InvInit, InvNext, InvKeepsPace, PTL DEF Spec

\* While every pass has ended before the next tick was due, each poll after the first
\* finds more bytes than the one before, so that a steady sender is shown as sending,
\* however long ticks wait for a worker thread.
THEOREM SteadySeen == Spec => []SteadySenderSeen
<1>1. Inv => SteadySenderSeen
  BY DEF Inv, SteadyOK, SteadySenderSeen
<1> QED
  BY <1>1, InvInit, InvNext, PTL DEF Spec

=============================================================================
