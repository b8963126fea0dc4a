------------------------- MODULE SessionTimesProofs -------------------------
(***************************************************************************)
(* Proofs about SessionTimes, for any clock and any length of a second.    *)
(***************************************************************************)
EXTENDS SessionTimes, TLAPS

\* The type invariant but for the answer, which elapsed computes.
TimesOK ==
    /\ clock \in Times
    /\ state \in {"Created", "Started", "Stopped"}
    /\ start_time \in Times \cup {None} /\ stop_time \in Times \cup {None}
    /\ ran \in Times /\ clock_set \in BOOLEAN

\* The times that each state has, and how far apart they are.
RunOK ==
    /\ state = "Created" => start_time = None /\ ran = 0 /\ ~clock_set
    /\ state # "Stopped" => stop_time = None
    /\ state # "Created" => start_time # None
    /\ state = "Stopped" => stop_time # None
    /\ state = "Started" /\ ~clock_set => clock - start_time = ran
    /\ state = "Stopped" /\ ~clock_set => stop_time - start_time = ran

\* The answer once the session has stopped is what it would still answer.
AnswerOK ==
    /\ answer # None /\ ~ran_then[2] => answer.elapsed_time = ran_then[1] \div Second
    /\ answer # None /\ answer.state = "Stopped" => answer = SessionStats

Inv == TimesOK /\ RunOK /\ AnswerOK

USE TimesAssumption

\* What get_stats shows of the elapsed time.
LEMMA ShownTime ==
    ASSUME TimesOK, RunOK, ~clock_set
    PROVE  SessionStats.elapsed_time = ran \div Second
<1>0. None \notin Times
  BY DEF Times
<1>1. CASE state = "Created"
  <2>1. ElapsedTime = None
    BY <1>1 DEF ElapsedTime
  <2>2. 0 \div Second = 0
    OBVIOUS
  <2> QED
    BY <1>1, <2>1, <2>2 DEF SessionStats, RunOK
<1>2. CASE state = "Started"
  <2>1. start_time \in Times /\ clock \in Times /\ clock - start_time = ran /\ ran >= 0
    BY <1>2 DEF TimesOK, RunOK, Times
  <2>2. ElapsedTime = Elapsed(start_time, clock)
    BY <1>2 DEF ElapsedTime
  <2>3. ElapsedTime = ran \div Second
    BY <1>0, <2>1, <2>2 DEF Elapsed, Times
  <2>4. ElapsedTime # None
    BY <2>1, <2>3 DEF Times
  <2> QED
    BY <2>3, <2>4 DEF SessionStats
<1>3. CASE state = "Stopped"
  <2>1. /\ start_time \in Times /\ stop_time \in Times
        /\ stop_time - start_time = ran /\ ran >= 0
    BY <1>3 DEF TimesOK, RunOK, Times
  <2>2. ElapsedTime = Elapsed(start_time, stop_time)
    BY <1>3 DEF ElapsedTime
  <2>3. ElapsedTime = ran \div Second
    BY <1>0, <2>1, <2>2 DEF Elapsed, Times
  <2>4. ElapsedTime # None
    BY <2>1, <2>3 DEF Times
  <2> QED
    BY <2>3, <2>4 DEF SessionStats
<1> QED
  BY <1>1, <1>2, <1>3 DEF TimesOK

LEMMA InvInit == Init => Inv
<1> SUFFICES ASSUME Init
             PROVE  Inv
  OBVIOUS
<1>1. TimesOK
  <2>1. clock \in Times /\ ran \in Times
    BY DEF Init, Times
  <2>2. start_time \in Times \cup {None} /\ stop_time \in Times \cup {None}
    BY DEF Init
  <2>3. state \in {"Created", "Started", "Stopped"} /\ clock_set \in BOOLEAN
    BY DEF Init
  <2> QED
    BY <2>1, <2>2, <2>3 DEF TimesOK
<1>2. RunOK
  BY DEF Init, RunOK
<1>3. AnswerOK
  BY DEF Init, AnswerOK
<1> QED
  BY <1>1, <1>2, <1>3 DEF Inv

\* Only GetStats changes the answer, and no step changes what a stopped session
\* would answer.
LEMMA InvNext == Inv /\ [Next]_vars => Inv'
<1> SUFFICES ASSUME Inv, [Next]_vars
             PROVE  Inv'
  OBVIOUS
<1> USE DEF Inv
<1>0. None \notin Times
  BY DEF Times
<1>1. CASE Tick
  <2>1. TimesOK'
    BY <1>1 DEF Tick, TimesOK, Times, sessionVars
  <2>2. RunOK'
    BY <1>0, <1>1 DEF Tick, TimesOK, RunOK, Times, sessionVars
  <2>3. AnswerOK'
    <3>1. answer # None /\ answer.state = "Stopped" => state = "Stopped"
      BY DEF AnswerOK, SessionStats
    <3>2. state = "Stopped" => SessionStats' = SessionStats
      BY <1>1 DEF Tick, SessionStats, ElapsedTime, sessionVars
    <3> QED
      BY <1>1, <3>1, <3>2 DEF Tick, AnswerOK, answerVars
  <2> QED
    BY <2>1, <2>2, <2>3
<1>2. CASE SetClock
  <2>1. TimesOK'
    BY <1>2 DEF SetClock, TimesOK, Times, sessionVars
  <2>2. RunOK'
    BY <1>0, <1>2 DEF SetClock, TimesOK, RunOK, Times, sessionVars
  <2>3. AnswerOK'
    <3>1. answer # None /\ answer.state = "Stopped" => state = "Stopped"
      BY DEF AnswerOK, SessionStats
    <3>2. state = "Stopped" => SessionStats' = SessionStats
      BY <1>2 DEF SetClock, SessionStats, ElapsedTime, sessionVars
    <3> QED
      BY <1>2, <3>1, <3>2 DEF SetClock, AnswerOK, answerVars
  <2> QED
    BY <2>1, <2>2, <2>3
<1>3. CASE StartSession
  <2>1. TimesOK' /\ RunOK'
    BY <1>0, <1>3 DEF StartSession, TimesOK, RunOK, Times
  <2>2. ~(answer # None /\ answer.state = "Stopped")
    BY <1>3 DEF StartSession, AnswerOK, SessionStats
  <2> QED
    BY <1>3, <2>1, <2>2 DEF StartSession, AnswerOK, answerVars
<1>4. CASE StopSession
  <2>1. TimesOK' /\ RunOK'
    BY <1>0, <1>4 DEF StopSession, TimesOK, RunOK, Times
  <2>2. ~(answer # None /\ answer.state = "Stopped")
    BY <1>4 DEF StopSession, AnswerOK, SessionStats
  <2> QED
    BY <1>4, <2>1, <2>2 DEF StopSession, AnswerOK, answerVars
<1>5. CASE GetStats
  <2>1. TimesOK' /\ RunOK'
    BY <1>5 DEF GetStats, TimesOK, RunOK, Times, sessionVars
  <2>2. SessionStats' = SessionStats
    BY <1>5 DEF GetStats, SessionStats, ElapsedTime, sessionVars
  <2>3. AnswerOK'
    BY <1>5, <2>2, ShownTime DEF GetStats, AnswerOK
  <2> QED
    BY <2>1, <2>3
<1>6. CASE UNCHANGED vars
  <2>1. SessionStats' = SessionStats
    BY <1>6 DEF vars, SessionStats, ElapsedTime, sessionVars
  <2> QED
    BY <1>6, <2>1 DEF vars, TimesOK, RunOK, AnswerOK, Times, sessionVars, answerVars
<1> QED
  BY <1>1, <1>2, <1>3, <1>4, <1>5, <1>6 DEF Next

LEMMA InvAlways == Spec => []Inv
BY InvInit, InvNext, PTL DEF Spec

\* get_stats shows the whole seconds that a session has been started, unless the
\* clock was set in between (elapsed, elapsed_time).
THEOREM ElapsedRight == Spec => []ElapsedIsRunTime
<1>1. Inv => ElapsedIsRunTime
  BY DEF Inv, AnswerOK, ElapsedIsRunTime
<1> QED
  BY <1>1, InvAlways, PTL

\* Whatever the clock does, the stats of a stopped session do not change any more.
THEOREM StatsFinal == Spec => StoppedIsFinal
<1>1. Inv /\ [Next]_vars =>
          [answer # None /\ answer.state = "Stopped" => answer' = answer]_answer
  <2> SUFFICES ASSUME Inv, [Next]_vars, answer # None, answer.state = "Stopped"
               PROVE  answer' = answer
    OBVIOUS
  <2>1. answer = SessionStats
    BY DEF Inv, AnswerOK
  <2> QED
    BY <2>1 DEF Next, Tick, SetClock, StartSession, StopSession, GetStats, vars,
                answerVars
<1> QED
  BY <1>1, InvAlways, PTL DEF Spec, StoppedIsFinal

-----------------------------------------------------------------------------
(***************************************************************************)
(* Types: what elapsed computes lies between 0 and the time that the clock *)
(* can show.                                                               *)
(***************************************************************************)
LEMMA WholeSeconds ==
    ASSUME NEW a \in Nat, NEW b \in Nat, a <= b
    PROVE  a \div Second \in 0 .. (b \div Second)
<1> DEFINE q == a \div Second
           r == b \div Second
<1>1. /\ q \in Nat /\ r \in Nat
      /\ Second * q <= a /\ b < Second * (r + 1)
  OBVIOUS
<1>2. ASSUME q > r PROVE FALSE
  <2> HIDE DEF q, r
  <2>1. PICK d \in Nat : q = r + 1 + d
    <3>1. q - (r + 1) \in Nat /\ q = r + 1 + (q - (r + 1))
      BY <1>1, <1>2
    <3> QED
      BY <3>1
  <2>2. Second * q = Second * (r + 1) + Second * d /\ Second * d \in Nat
    BY <1>1, <2>1
  <2> QED
    BY <1>1, <2>2
<1> QED
  BY <1>1, <1>2

LEMMA AnswerTyped ==
    ASSUME TimesOK
    PROVE  SessionStats \in Answers
<1> DEFINE Shown == 0 .. (MaxClock \div Second)
<1>1. \A a, b \in Times \cup {None} : Elapsed(a, b) \in Shown \cup {None}
  <2> SUFFICES ASSUME NEW a \in Times, NEW b \in Times, b >= a
               PROVE  (b - a) \div Second \in Shown
    BY DEF Elapsed, Times
  <2>1. b - a \in Nat /\ b - a <= MaxClock
    BY DEF Times
  <2> QED
    BY <2>1, WholeSeconds
<1>2. clock \in Times \cup {None}
  BY DEF TimesOK
<1>3. ElapsedTime \in Shown \cup {None}
  BY <1>1, <1>2 DEF ElapsedTime, TimesOK
<1>4. 0 \in Shown
  <2>1. 0 \div Second = 0
    OBVIOUS
  <2> QED
    BY <2>1, WholeSeconds
<1> QED
  BY <1>3, <1>4 DEF SessionStats, Answers, TimesOK

LEMMA TypeNext == TypeOK /\ [Next]_vars => TypeOK'
<1> SUFFICES ASSUME TypeOK, [Next]_vars
             PROVE  TypeOK'
  OBVIOUS
<1>1. TimesOK
  BY DEF TypeOK, TimesOK
<1>2. CASE GetStats
  <2>1. <<ran, clock_set>> \in Times \X BOOLEAN
    BY DEF TypeOK
  <2> QED
    BY <1>1, <1>2, <2>1, AnswerTyped DEF GetStats, TypeOK, sessionVars
<1>3. CASE Tick
  BY <1>3 DEF Tick, TypeOK, Times, sessionVars, answerVars
<1>4. CASE SetClock
  BY <1>4 DEF SetClock, TypeOK, Times, sessionVars, answerVars
<1>5. CASE StartSession \/ StopSession
  BY <1>5 DEF StartSession, StopSession, TypeOK, answerVars
<1>6. CASE UNCHANGED vars
  BY <1>6 DEF TypeOK, vars, sessionVars, answerVars
<1> QED
  BY <1>2, <1>3, <1>4, <1>5, <1>6 DEF Next

\* No clock that is set, no order of calls and no failed duration_since makes an
\* elapsed time negative, wrap around or longer than the clock can show (elapsed).
THEOREM TimesTyped == Spec => []TypeOK
<1>1. Init => TypeOK
  <2> SUFFICES ASSUME Init
               PROVE  TypeOK
    OBVIOUS
  <2>1. 0 \in Times /\ FALSE \in BOOLEAN
    BY DEF Times
  <2> QED
    BY <2>1 DEF Init, TypeOK, Times
<1> QED
  BY <1>1, TypeNext, PTL DEF Spec

=============================================================================
