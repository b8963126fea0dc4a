------------------------- MODULE StatsExportProofs -------------------------
(***************************************************************************)
(* The gauges are those of the last pass whatever streams there are.  The  *)
(* proof needs to know how the gauges of what was looked at already relate *)
(* to the report while a pass is under way, and that a stream which joins  *)
(* while one is has transferred nothing.                                   *)
(***************************************************************************)
EXTENDS StatsExport, TLAPS

\* A stream that is not there yet has transferred nothing.
NoTrackNoBytes ==
    \A x \in Streams \ tracks :
        bytes[x] = 0 /\ report[x] = 0 /\ polled[x] = 0 /\ gauges[x] = 0 /\ before[x] = 0

\* The gauges of what the pass has exported already.
Exported == \A x \in Streams : x \notin pending \cup lost => gauges[x] = report[x]

\* Every variable keeps its type, for any streams.
THEOREM StatsTypeCorrect == Spec => []TypeOK
<1>1. Init => TypeOK
  <2> SUFFICES ASSUME Init PROVE TypeOK
    OBVIOUS
  <2>1. Zero \in Counters /\ 0 \in 0 .. MaxBytes
    BY StatsExportAssumption DEF Zero, Counters
  <2>2. [moving |-> FALSE, bytes |-> 0] \in [moving : BOOLEAN, bytes : 0 .. MaxBytes]
    BY <2>1
  <2>3. state \in [Fields -> [moving : BOOLEAN, bytes : 0 .. MaxBytes]]
    BY <2>2 DEF Init
  <2> QED BY <2>1, <2>3 DEF Init, TypeOK
<1>2. TypeOK /\ [Next]_vars => TypeOK'
  <2> SUFFICES ASSUME TypeOK, [Next]_vars PROVE TypeOK'
    OBVIOUS
  <2> USE StatsExportAssumption DEF TypeOK, Counters
  <2>1. ASSUME NEW x \in Streams, AddTrack(x) PROVE TypeOK'
    BY <2>1 DEF AddTrack, statsVars
  <2>2. ASSUME NEW x \in Streams, Transfer(x) PROVE TypeOK'
    BY <2>2 DEF Transfer, statsVars
  <2>3. ASSUME NEW f \in Fields, NEW x \in StreamsOf(f), ExportStats(f, x) PROVE TypeOK'
    <3>1. x \in Streams /\ x \in tracks
      BY <2>3 DEF ExportStats, StreamsOf, Streams
    <3>2. IsMoving(f, report[x]) \in BOOLEAN /\ report[x] \in 0 .. MaxBytes
      BY <3>1 DEF IsMoving
    <3>3. [moving |-> IsMoving(f, report[x]), bytes |-> report[x]]
              \in [moving : BOOLEAN, bytes : 0 .. MaxBytes]
      BY <3>2
    <3>4. state' \in [Fields -> [moving : BOOLEAN, bytes : 0 .. MaxBytes]]
      BY <2>3, <3>3 DEF ExportStats, SetState
    <3> QED BY <2>3, <3>1, <3>4 DEF ExportStats, WriteStats, statsVars
  <2>4. CASE GetStats
    BY <2>4 DEF GetStats
  <2>5. CASE UNCHANGED vars
    BY <2>5 DEF vars, statsVars
  <2> QED BY <2>1, <2>2, <2>3, <2>4, <2>5 DEF Next
<1> QED BY <1>1, <1>2, PTL DEF Spec

LEMMA Untransferred == Spec => []NoTrackNoBytes
<1>1. Init => NoTrackNoBytes
  BY DEF Init, NoTrackNoBytes, Zero
<1>2. TypeOK /\ NoTrackNoBytes /\ [Next]_vars => NoTrackNoBytes'
  <2> SUFFICES ASSUME TypeOK, NoTrackNoBytes, [Next]_vars PROVE NoTrackNoBytes'
    OBVIOUS
  <2> USE DEF TypeOK, Counters, NoTrackNoBytes
  <2>1. ASSUME NEW x \in Streams, AddTrack(x) PROVE NoTrackNoBytes'
    BY <2>1 DEF AddTrack, statsVars
  <2>2. ASSUME NEW x \in Streams, Transfer(x) PROVE NoTrackNoBytes'
    BY <2>2 DEF Transfer, statsVars
  <2>3. ASSUME NEW f \in Fields, NEW x \in StreamsOf(f), ExportStats(f, x)
        PROVE NoTrackNoBytes'
    BY <2>3 DEF ExportStats, WriteStats, statsVars
  <2>4. CASE GetStats
    BY <2>4 DEF GetStats
  <2>5. CASE UNCHANGED vars
    BY <2>5 DEF vars, statsVars
  <2> QED BY <2>1, <2>2, <2>3, <2>4, <2>5 DEF Next
<1> QED BY <1>1, <1>2, StatsTypeCorrect, PTL DEF Spec

\* Whatever streams there are, statsd has the counters of the last pass for all
\* whose datagram was not lost, also after passes that do not poll the state.
THEOREM GaugesFollow == Spec => []GaugesCurrent
<1>1. Init => Exported
  BY DEF Init, Exported, Zero
<1>2. TypeOK /\ NoTrackNoBytes /\ Exported /\ [Next]_vars => Exported'
  <2> SUFFICES ASSUME TypeOK, NoTrackNoBytes, Exported, [Next]_vars PROVE Exported'
    OBVIOUS
  <2> USE DEF TypeOK, Counters, Exported
  <2>1. ASSUME NEW x \in Streams, AddTrack(x) \/ Transfer(x) PROVE Exported'
    BY <2>1 DEF AddTrack, Transfer, statsVars
  <2>2. ASSUME NEW f \in Fields, NEW x \in StreamsOf(f), ExportStats(f, x) PROVE Exported'
    BY <2>2 DEF ExportStats, WriteStats, statsVars
  <2>3. CASE GetStats
    BY <2>3 DEF GetStats, NoTrackNoBytes
  <2>4. CASE UNCHANGED vars
    BY <2>4 DEF vars, statsVars
  <2> QED BY <2>1, <2>2, <2>3, <2>4 DEF Next
<1>3. Exported => GaugesCurrent
  BY DEF Exported, GaugesCurrent
<1> QED BY <1>1, <1>2, <1>3, StatsTypeCorrect, Untransferred, PTL DEF Spec

=============================================================================
