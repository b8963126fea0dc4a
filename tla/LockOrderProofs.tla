--------------------------- MODULE LockOrderProofs ---------------------------
(***************************************************************************)
(* The spinning tasks of LoadTestServer wait for one another in a circle   *)
(* only around a print circle.  Nothing in the code orders the locks; the  *)
(* argument is about who can stand in the way of whom.  A handler that     *)
(* suspends keeps only read guards, and waits for nothing.  A handler that *)
(* keeps a write guard on a session counts its peer connections, and only  *)
(* the collector could stand in its way, which would have to hold that     *)
(* session itself.  So the collector waits for tasks that wait for nobody, *)
(* or for an add_track that waits to print; that one waits for the         *)
(* add_track that prints, which waits for tasks that wait for nobody or    *)
(* for the collector.  Any other handler that holds a guard waits for one  *)
(* of these, and for a task that holds none nobody waits.  At the end of   *)
(* every other chain of waiting tasks there is one that executes or is at  *)
(* an await, as no task keeps a guard elsewhere.                           *)
(***************************************************************************)
EXTENDS LoadTestServerProofs

\* A task that waits for nobody.
Calm(t) == \A u \in Tasks : ~WaitsFor(t, u)

\* What the guard of a request says of the place the request is at.
LEMMA GuardsOfRequest ==
    ASSUME Inv, NEW t \in Requests, NEW h \in hold, h.task = t
    PROVE  /\ h.mode = "write" /\ h.lock # StdoutLock =>
                /\ at[t] \in {"len", "tally"}
                /\ h = Guard(t, SessionRefMut(t))
                /\ h.lock[1] = "sessions"
           /\ h.lock[1] # "sessions" =>
                \/ UsesPeer(t) /\ h.lock[1] \in SessionIds /\ h.mode = "read"
                \/ at[t] = "print" /\ h.lock = StdoutLock
<1>1. RequestGuardsOK(t) /\ RequestDataOK(t) /\ h \in GuardsOf(t)
      /\ call[t] \in Calls \cup {NoCall}
  BY DEF Inv, LockDiscipline, TypeOK, RequestTypeOK, GuardsOf
<1>2. CASE at[t] = "print"
  BY <1>1, <1>2 DEF RequestGuardsOK, Guard, Get, GetMut, StdoutRef
<1>3. CASE at[t] # "print"
  <2>1. h \in RequestGuards(t)
    BY <1>1, <1>3 DEF RequestGuardsOK
  <2>2. CASE at[t] \in {"len", "tally"}
    BY <2>1, <2>2 DEF RequestGuards, ServesPeer, UsesPeer, Guard, SessionRefMut, GetMut, SessionLock
  <2>3. CASE ServesPeer(t)
    BY <2>1, <2>3 DEF RequestGuards, ServesPeer, UsesPeer, Guard, SessionRef, Get, SessionLock
  <2>4. CASE UsesPeer(t)
    <3>1. call[t].session \in SessionIds
      BY <1>1, <2>4, CallTypes, OpTypes DEF RequestDataOK
    <3>2. h \in {Guard(t, SessionRef(t)), Guard(t, PeerRef(t))}
      BY <2>1, <2>4 DEF RequestGuards, ServesPeer, UsesPeer
    <3> QED BY <2>4, <3>1, <3>2 DEF Guard, SessionRef, PeerRef, SessionLock, PeerLock, Get
  <2> QED BY <2>1, <2>2, <2>3, <2>4 DEF RequestGuards
<1> QED BY <1>2, <1>3

\* What a guard of the collector on peer connections says.
LEMMA GuardsOfMetrics ==
    ASSUME Inv, NEW h \in hold, h.task = Metrics,
           h.mode = "write" \/ h.lock[1] # "sessions"
    PROVE  /\ cursor.session \in SessionIds
           /\ InShard(SessionShard[cursor.session]) \in hold
           /\ \E n \in PeerShards \ cursor.peer_shards :
                h = InPeerShard(cursor.session, n)
           /\ at[Metrics] \in {"peer_shards", "peers", "await", "resume"}
<1> DEFINE s == cursor.session
<1>1. MetricsGuardsOK /\ cursor \in Cursors /\ h \in GuardsOf(Metrics)
      /\ at[Metrics] \in MetricsPlaces
  BY DEF Inv, LockDiscipline, TypeOK, GuardsOf
<1>2. \A n : InShard(n).mode = "read" /\ InShard(n).lock[1] = "sessions"
  BY DEF InShard, Guard, Get
<1>3. at[Metrics] \in {"peer_shards", "peers", "await", "resume"}
  BY <1>1, <1>2 DEF MetricsGuardsOK, MetricsPlaces
<1>4. s \in SessionIds
  BY <1>1, <1>3 DEF MetricsGuardsOK, Cursors
<1>5. \E n \in PeerShards \ cursor.peer_shards :
        GuardsOf(Metrics) = {InShard(SessionShard[s]), InPeerShard(s, n)}
  BY <1>1, <1>2, <1>3 DEF MetricsGuardsOK
<1> QED BY <1>1, <1>2, <1>3, <1>4, <1>5 DEF GuardsOf

\* A handler that keeps a write guard on its session waits for nobody.
LEMMA CountingIsCalm ==
    ASSUME Inv, NEW t \in Requests, at[t] \in {"len", "tally"}
    PROVE  Calm(t)
<1> DEFINE s == call[t].session
<1> SUFFICES ASSUME NEW u \in Tasks, WaitsFor(t, u) PROVE FALSE
  BY DEF Calm
<1>1. /\ RequestGuardsOK(t) /\ RequestDataOK(t) /\ Exclusion
      /\ call[t] \in Calls \cup {NoCall} /\ t # Metrics
  BY ServerAssumption DEF Inv, LockDiscipline, TypeOK, RequestTypeOK, ServerAssumption
<1>2. s \in SessionIds /\ s \notin {"sessions", "stdout"}
  BY <1>1, CallTypes, OpTypes, ServerAssumption DEF RequestDataOK, ServerAssumption
<1>3. Guard(t, SessionRefMut(t)) \in hold
  BY <1>1 DEF RequestGuardsOK, RequestGuards, ServesPeer, UsesPeer, GuardsOf
<1>4. Wants(t) \subseteq {ScanRef(t)} /\ (Wants(t) # {} => scan[t].locks # {})
  BY <1>1 DEF Wants, RequestWants
<1>5. PICK h \in hold : h.task = u /\ Conflict(h, ScanRef(t)) /\ scan[t].locks # {}
  BY <1>4 DEF WaitsFor
<1>6. First(scan[t].locks) \in {s} \X PeerShards
  BY <1>1, <1>5, FirstIn DEF RequestDataOK, PeerLocks
<1>7. h.mode = "write" /\ h.lock[1] = s
  BY <1>5, <1>6 DEF Conflict, ScanRef, Get
<1>8. u = Metrics
  BY <1>2, <1>5, <1>7, GuardsOfRequest DEF Tasks, StdoutLock
<1>9. cursor.session = s /\ InShard(SessionShard[s]) \in hold
  <2>1. PICK n \in PeerShards : h = InPeerShard(cursor.session, n)
    BY <1>5, <1>7, <1>8, GuardsOfMetrics
  <2>2. h.lock[1] = cursor.session
    BY <2>1 DEF InPeerShard, Guard, GetMut
  <2> QED BY <1>5, <1>7, <1>8, <2>2, GuardsOfMetrics
<1>10. InShard(SessionShard[s]).lock = Guard(t, SessionRefMut(t)).lock
  BY DEF InShard, Guard, Get, GetMut, SessionRefMut, SessionLock
<1>11. InShard(SessionShard[s]).mode = "read" /\ Guard(t, SessionRefMut(t)).mode = "write"
  BY DEF InShard, Guard, Get, GetMut, SessionRefMut
<1> QED BY <1>1, <1>3, <1>9, <1>10, <1>11 DEF Exclusion

\* A suspended handler waits for nobody.
LEMMA AwaitingIsCalm ==
    ASSUME NEW t \in Requests, at[t] \in {"await", "resume"}
    PROVE  Calm(t)
<1>1. t # Metrics
  BY ServerAssumption DEF ServerAssumption
<1>2. Wants(t) = {}
  BY <1>1 DEF Wants, RequestWants
<1> QED BY <1>2 DEF Calm, WaitsFor

\* The collector waits only for tasks that wait for nobody, or to print.
LEMMA MetricsWaits ==
    ASSUME Inv, NEW u \in Tasks, WaitsFor(Metrics, u)
    PROVE  u \in Requests /\ (Calm(u) \/ at[u] = "past")
<1>1. PICK r \in MetricsWants, h \in hold : h.task = u /\ Conflict(h, r)
  BY DEF WaitsFor, Wants
<1>2. cursor \in Cursors /\ at[Metrics] \in MetricsPlaces
  BY DEF Inv, TypeOK
<1>3. CASE at[Metrics] \in {"shards", "count"} /\ cursor.shards # {}
  <2>1. r = MetricsRef
    BY <1>1, <1>3 DEF MetricsWants
  <2>2. h.mode = "write" /\ h.lock # StdoutLock
    BY <1>1, <2>1 DEF Conflict, MetricsRef, Get, StdoutLock
  <2>3. u \in Requests
    BY <1>1, <1>3, <2>2, GuardsOfMetrics DEF Tasks
  <2> QED BY <1>1, <2>2, <2>3, GuardsOfRequest, CountingIsCalm
<1>4. CASE at[Metrics] = "peer_shards" /\ cursor.peer_shards # {}
  <2>1. r = MetricsPeerRefMut
    BY <1>1, <1>4 DEF MetricsWants
  <2>2. cursor.session \in SessionIds /\ cursor.session \notin {"sessions", "stdout"}
    BY <1>2, <1>4, ServerAssumption
    DEF Inv, LockDiscipline, MetricsGuardsOK, Cursors, ServerAssumption
  <2>3. h.lock = <<cursor.session, First(cursor.peer_shards)>>
    BY <1>1, <2>1 DEF Conflict, MetricsPeerRefMut, GetMut
  <2>4. h.lock[1] # "sessions" /\ h.lock # StdoutLock
    BY <2>2, <2>3 DEF StdoutLock
  <2>5. u # Metrics
    <3> SUFFICES ASSUME u = Metrics PROVE FALSE
      OBVIOUS
    <3>1. PICK n \in PeerShards \ cursor.peer_shards : h = InPeerShard(cursor.session, n)
      BY <1>1, <2>4, GuardsOfMetrics
    <3>2. h.lock = <<cursor.session, n>>
      BY <3>1 DEF InPeerShard, Guard, GetMut
    <3> QED BY <1>4, <2>3, <3>1, <3>2, FirstIn
  <2> QED BY <1>1, <2>4, <2>5, GuardsOfRequest, AwaitingIsCalm DEF Tasks, UsesPeer
<1> QED BY <1>1, <1>3, <1>4 DEF MetricsWants

\* Who waits to print at handlers.rs:292 waits for an add_track that prints.
LEMMA PastWaits ==
    ASSUME Inv, NEW t \in Requests, at[t] = "past", NEW u \in Tasks, WaitsFor(t, u)
    PROVE  u \in Requests /\ at[u] = "print"
<1>1. t # Metrics
  BY ServerAssumption DEF ServerAssumption
<1>2. PICK h \in hold : h.task = u /\ Conflict(h, StdoutRef)
  BY <1>1 DEF WaitsFor, Wants, RequestWants
<1>3. h.lock = StdoutLock /\ h.lock[1] = "stdout" /\ "stdout" \notin SessionIds
  BY <1>2, ServerAssumption DEF Conflict, StdoutRef, GetMut, StdoutLock, ServerAssumption
<1>4. u # Metrics
  <2> SUFFICES ASSUME u = Metrics PROVE FALSE
    OBVIOUS
  <2>1. cursor.session \in SessionIds /\ \E n : h = InPeerShard(cursor.session, n)
    BY <1>2, <1>3, GuardsOfMetrics
  <2> QED BY <1>3, <2>1 DEF InPeerShard, Guard, GetMut
<1> QED BY <1>2, <1>3, <1>4, GuardsOfRequest DEF Tasks

\* What a request that waits for a shard to read waits for.
LEMMA ReaderWaits ==
    ASSUME Inv, NEW u \in Tasks, NEW h \in hold, h.task = u,
           h.mode = "write", h.lock # StdoutLock
    PROVE  u = Metrics \/ Calm(u)
BY GuardsOfRequest, CountingIsCalm DEF Tasks

\* An add_track that prints waits for the collector or for tasks that wait for nobody.
LEMMA PrintWaits ==
    ASSUME Inv, NEW t \in Requests, at[t] = "print", NEW u \in Tasks, WaitsFor(t, u)
    PROVE  u = Metrics \/ Calm(u)
<1>1. t # Metrics /\ RequestGuardsOK(t) /\ scan[t] \in Scans
  BY ServerAssumption DEF ServerAssumption, Inv, LockDiscipline, TypeOK, RequestTypeOK
<1>2. PICK r \in RequestWants(t), h \in hold : h.task = u /\ Conflict(h, r)
  BY <1>1 DEF WaitsFor, Wants
<1>3. \/ r = ScanRef(t) /\ scan[t].locks # {}
      \/ r = PrintRef(t)
  BY <1>2 DEF RequestWants
<1>4. r.mode = "read" /\ r.lock # StdoutLock
  <2>1. CASE r = ScanRef(t) /\ scan[t].locks # {}
    <3>1. First(scan[t].locks) \in SessionIds \X PeerShards
      BY <1>1, <2>1, FirstIn DEF Scans
    <3> QED BY <2>1, <3>1, ServerAssumption DEF ScanRef, Get, StdoutLock, ServerAssumption
  <2>2. CASE r = PrintRef(t)
    BY <2>2 DEF PrintRef, Get, StdoutLock
  <2> QED BY <1>3, <2>1, <2>2
<1> QED BY <1>2, <1>4, ReaderWaits DEF Conflict

\* Any other handler that holds a guard waits for the collector, for tasks that wait
\* for nobody or for one that waits to print.
LEMMA HolderWaits ==
    ASSUME Inv, NEW t \in Requests, NEW u \in Tasks, WaitsFor(t, u), GuardsOf(t) # {},
           at[t] \notin {"past", "print"}
    PROVE  u = Metrics \/ Calm(u) \/ (u \in Requests /\ at[u] = "past")
<1>1. t # Metrics /\ RequestGuardsOK(t) /\ RequestDataOK(t)
      /\ call[t] \in Calls \cup {NoCall}
  BY ServerAssumption DEF ServerAssumption, Inv, LockDiscipline, TypeOK, RequestTypeOK
<1>2. PICK r \in RequestWants(t), h \in hold : h.task = u /\ Conflict(h, r)
  BY <1>1 DEF WaitsFor, Wants
<1>3. at[t] \notin {"len", "tally", "await", "resume"}
  BY CountingIsCalm, AwaitingIsCalm DEF Calm
<1>4. ServesPeer(t)
  BY <1>1, <1>3 DEF RequestGuardsOK, RequestGuards, UsesPeer
<1>5. call[t].op \in PeerOps /\ call[t].session \in SessionIds \ {"sessions", "stdout"}
  BY <1>1, <1>4, CallTypes, OpTypes, ServerAssumption DEF RequestDataOK, ServerAssumption
<1>6. r \in {SessionRefAgain(t), PeerRef(t), PeerRefMut(t), PeerInsert(t)}
  BY <1>2, <1>4, <1>5 DEF RequestWants, ServesPeer
<1>7. CASE r = SessionRefAgain(t)
  <2>1. h.mode = "write" /\ h.lock # StdoutLock
    BY <1>2, <1>7 DEF Conflict, SessionRefAgain, SessionLock, Get, StdoutLock
  <2> QED BY <1>2, <2>1, ReaderWaits
<1>8. CASE r \in {PeerRef(t), PeerRefMut(t), PeerInsert(t)}
  <2>1. h.lock = PeerLock(call[t].session, call[t].peer)
    BY <1>2, <1>8 DEF Conflict, PeerRef, PeerRefMut, PeerInsert, Get, GetMut
  <2>2. h.lock[1] # "sessions" /\ h.lock # StdoutLock
    BY <1>5, <2>1 DEF PeerLock, StdoutLock
  <2> QED BY <1>2, <2>2, GuardsOfRequest, AwaitingIsCalm DEF Tasks, UsesPeer
<1> QED BY <1>6, <1>7, <1>8

LEMMA OnlyCircle ==
    ASSUME Inv, NEW C \in (SUBSET Tasks) \ {{}}, \A t \in C : \E u \in C : WaitsFor(t, u)
    PROVE  Metrics \in C /\ \E t, u \in C : PrintCircle(t, u)
<1>1. \A u \in C : ~Calm(u)
  BY DEF Calm
<1>2. ASSUME NEW u \in C, u \in Requests, at[u] = "print"
      PROVE  Metrics \in C /\ WaitsFor(u, Metrics)
  <2>1. PICK v \in C : WaitsFor(u, v)
    OBVIOUS
  <2> QED BY <1>1, <1>2, <2>1, PrintWaits
<1>3. ASSUME NEW t \in C, t \in Requests, at[t] = "past"
      PROVE  /\ Metrics \in C
             /\ \E u \in C : at[u] = "print" /\ WaitsFor(t, u) /\ WaitsFor(u, Metrics)
  <2>1. PICK u \in C : WaitsFor(t, u)
    OBVIOUS
  <2>2. u \in Requests /\ at[u] = "print"
    BY <1>3, <2>1, PastWaits
  <2> QED BY <1>2, <2>1, <2>2
<1>4. Metrics \in C
  <2>1. PICK t \in C, u \in C : WaitsFor(t, u)
    OBVIOUS
  <2>2. CASE u = Metrics
    BY <2>2
  <2>3. CASE u \in Requests
    <3>1. GuardsOf(u) # {}
      BY <2>1 DEF WaitsFor, GuardsOf
    <3>2. PICK v \in C : WaitsFor(u, v)
      OBVIOUS
    <3> QED BY <1>1, <1>2, <1>3, <2>3, <3>1, <3>2, HolderWaits
  <2> QED BY <2>2, <2>3 DEF Tasks
<1>5. PICK t \in C : WaitsFor(Metrics, t)
  BY <1>4
<1>6. t \in Requests /\ at[t] = "past"
  BY <1>1, <1>5, MetricsWaits
<1> QED BY <1>3, <1>4, <1>5, <1>6 DEF PrintCircle

\* The handlers, add_track's print of all data and the collector's iterators wait
\* for one another in a circle only around a print circle (handlers.rs:289 and 292
\* with session.rs:143), whatever ids hash to the same shard and however many calls
\* are served.
THEOREM LocksAcyclic == Spec => []OnlyPrintsDeadlock
<1>1. Inv => OnlyPrintsDeadlock
  BY OnlyCircle DEF OnlyPrintsDeadlock
<1> QED BY <1>1, InvHolds, PTL

-----------------------------------------------------------------------------
(***************************************************************************)
(* A task off its worker keeps guards only at an await: it takes one only  *)
(* on a worker, and leaves the worker when it returns, at an await or when *)
(* its pass is over.                                                       *)
(***************************************************************************)
HoldsOnWorker(t) ==
    GuardsOf(t) # {} => t \in running \/ at[t] \in {"await", "resume"}

GuardsOnWorker == \A t \in Tasks : HoldsOnWorker(t)

\* A step of task t that leaves the guards and places of the others.
Alone(t) ==
    /\ hold' \subseteq hold \cup [task : {t}, lock : Locks, mode : {"read", "write"}]
    /\ \A u \in Tasks \ {t} : at'[u] = at[u]
    /\ running \ {t} \subseteq running'

LEMMA AloneOnWorker ==
    ASSUME GuardsOnWorker, NEW t \in Tasks, Alone(t), HoldsOnWorker(t)'
    PROVE  GuardsOnWorker'
<1> SUFFICES ASSUME NEW u \in Tasks \ {t}
             PROVE  HoldsOnWorker(u)'
  BY DEF GuardsOnWorker
<1>1. GuardsOf(u)' \subseteq GuardsOf(u)
  BY DEF Alone, GuardsOf
<1> QED
  BY <1>1 DEF GuardsOnWorker, HoldsOnWorker, Alone

\* What the steps of a task do with its guards.
LEMMA FinishOnWorker ==
    ASSUME Inv, NEW t \in Requests, NEW reply, Finish(t, reply)
    PROVE  Alone(t) /\ HoldsOnWorker(t)'
BY DEF Finish, Alone, HoldsOnWorker, GuardsOf, Inv, TypeOK, Tasks

LEMMA TakesAlone ==
    ASSUME NEW t, NEW r \in [lock : Locks, mode : {"read", "write"}]
    PROVE  Guard(t, r) \in [task : {t}, lock : Locks, mode : {"read", "write"}]
BY DEF Guard

\* A step on a worker after which the task keeps the worker or awaits libwebrtc.
LEMMA WorkingOnWorker ==
    ASSUME Inv, NEW t \in Tasks, t \in running, NEW place,
           at' = [at EXCEPT ![t] = place],
           running' = running \/ (running' = running \ {t} /\ place \in {"await", "resume"}),
           \/ hold' \subseteq hold
           \/ \E r \in [lock : Locks, mode : {"read", "write"}] : hold' \subseteq hold \cup {Guard(t, r)}
    PROVE  Alone(t) /\ HoldsOnWorker(t)'
<1>1. hold' \subseteq hold \cup [task : {t}, lock : Locks, mode : {"read", "write"}]
  BY TakesAlone
<1>2. \A u \in Tasks \ {t} : at'[u] = at[u]
  BY DEF Inv, TypeOK
<1>3. t \in running' \/ at'[t] \in {"await", "resume"}
  BY DEF Inv, TypeOK
<1> QED
  BY <1>1, <1>2, <1>3 DEF Alone, HoldsOnWorker

\* A step after which the collector holds nothing.
LEMMA LeavingOnWorker ==
    ASSUME Inv, NEW t \in Tasks, NEW place, at' = [at EXCEPT ![t] = place],
           running \ {t} \subseteq running', hold' = hold \ GuardsOf(t)
    PROVE  Alone(t) /\ HoldsOnWorker(t)'
BY DEF Alone, HoldsOnWorker, GuardsOf, Inv, TypeOK

LEMMA HandleOnWorker ==
    ASSUME Inv, NEW t \in Requests, Handle(t)
    PROVE  Alone(t) /\ HoldsOnWorker(t)'
<1> DEFINE Goal == Alone(t) /\ HoldsOnWorker(t)'
           Works(place) == /\ at' = [at EXCEPT ![t] = place]
                           /\ \/ running' = running
                              \/ running' = running \ {t} /\ place \in {"await", "resume"}
<1>1. t \in Tasks /\ t \in running
  BY DEF Tasks, Handle, NewSession, InsertSession, StartSession, StopSession, GetStats,
         StatsLen, StatsTally, StatsReply, LookupSession, CreatePeerConnection,
         AddPeerConnection, Observer, GetTransceivers, CallWebRTC, ResumeRequest,
         LockStdout, PrintShard, PrintLen, PrintEnd, FindTrackPeer, PrintPast, Executes
<1>2. \A reply : Finish(t, reply) => Goal
  BY FinishOnWorker
<1>3. ASSUME NEW place, Works(place), hold' \subseteq hold
      PROVE  Goal
  BY <1>1, <1>3, WorkingOnWorker
<1>4. ASSUME NEW place, Works(place), NEW r \in [lock : Locks, mode : {"read", "write"}],
             hold' \subseteq hold \cup {Guard(t, r)}
      PROVE  Goal
  BY <1>1, <1>4, WorkingOnWorker
<1>5. UNCHANGED at => at' = [at EXCEPT ![t] = at[t]]
  BY DEF Inv, TypeOK
<1> SUFFICES Goal
  OBVIOUS
<1> HIDE DEF Goal
<1>6. CASE NewSession(t) \/ InsertSession(t) \/ StartSession(t) \/ StopSession(t)
  BY <1>2, <1>3, <1>6 DEF NewSession, InsertSession, StartSession, StopSession
<1>7. CASE GetStats(t)
  <2>1. SessionRefMut(t) \in [lock : Locks, mode : {"read", "write"}]
    BY <1>7, Executing, RefTypes, OpTypes DEF GetStats, SessionOps, AllOps
  <2> QED
    BY <1>2, <1>4, <1>7, <2>1 DEF GetStats
<1>8. CASE StatsLen(t) \/ StatsTally(t)
  BY <1>3, <1>5, <1>8 DEF StatsLen, StatsTally
<1>9. CASE StatsReply(t) \/ AddPeerConnection(t) \/ Observer(t) \/ GetTransceivers(t)
           \/ ResumeRequest(t)
  BY <1>2, <1>9 DEF StatsReply, AddPeerConnection, Observer, GetTransceivers, ResumeRequest
<1>10. CASE LookupSession(t)
  <2>1. SessionRef(t) \in [lock : Locks, mode : {"read", "write"}]
    BY <1>10, Executing, RefTypes, OpTypes DEF LookupSession, PeerOps, AllOps
  <2> QED
    BY <1>2, <1>4, <1>10, <2>1 DEF LookupSession, KeepSessionRef
<1>11. CASE CreatePeerConnection(t)
  BY <1>2, <1>3, <1>11 DEF CreatePeerConnection
<1>12. CASE CallWebRTC(t)
  <2>1. PeerRef(t) \in [lock : Locks, mode : {"read", "write"}]
    BY <1>12, Executing, RefTypes, OpTypes DEF CallWebRTC, PeerOps, AllOps
  <2> QED
    BY <1>2, <1>4, <1>12, <2>1 DEF CallWebRTC, AwaitWebRTC
<1>13. CASE PrintShard(t)
  <2>1. PrintRef(t) \in [lock : Locks, mode : {"read", "write"}]
    BY <1>13, FirstIn DEF PrintShard, PrintRef, Get, Locks, SessionLocks, Inv, TypeOK, RequestTypeOK, Scans
  <2>2. hold' \subseteq hold \cup {Guard(t, PrintRef(t))} /\ running' = running /\ at' = at
    BY <1>13 DEF PrintShard
  <2> QED
    BY <1>4, <1>5, <2>1, <2>2
<1>14. CASE PrintLen(t) \/ PrintEnd(t)
  BY <1>3, <1>5, <1>14 DEF PrintLen, PrintEnd
<1>15. CASE LockStdout(t)
  <2>1. StdoutRef \in [lock : Locks, mode : {"read", "write"}]
    BY DEF StdoutRef, GetMut, Locks
  <2> QED
    BY <1>4, <1>15, <2>1 DEF LockStdout
<1>16. CASE FindTrackPeer(t)
  <2>1. PeerRef(t) \in [lock : Locks, mode : {"read", "write"}]
    BY <1>16, Executing, RefTypes, OpTypes DEF FindTrackPeer, PeerOps, WebRTCOps, AllOps
  <2> QED
    BY <1>2, <1>4, <1>16, <2>1 DEF FindTrackPeer
<1>17. CASE PrintPast(t)
  BY <1>2, <1>3, <1>17 DEF PrintPast, AwaitWebRTC
<1> QED
  BY <1>6, <1>7, <1>8, <1>9, <1>10, <1>11, <1>12, <1>13, <1>14, <1>15, <1>16, <1>17 DEF Handle

LEMMA CollectOnWorker ==
    ASSUME Inv, Collect
    PROVE  Alone(Metrics) /\ HoldsOnWorker(Metrics)'
<1> DEFINE Goal == Alone(Metrics) /\ HoldsOnWorker(Metrics)'
           Works(place) == /\ at' = [at EXCEPT ![Metrics] = place]
                           /\ \/ running' = running
                              \/ running' = running \ {Metrics} /\ place \in {"await", "resume"}
<1>1. Metrics \in Tasks /\ Metrics \in running
  BY DEF Tasks, Collect, MetricsShard, MetricsSession, MetricsPeerShard, MetricsPeer,
         ExportStats, MetricsLen, MetricsAt
<1>2. ASSUME NEW place, Works(place), hold' \subseteq hold
      PROVE  Goal
  BY <1>1, <1>2, WorkingOnWorker
<1>3. ASSUME NEW place, Works(place), NEW r \in [lock : Locks, mode : {"read", "write"}],
             hold' \subseteq hold \cup {Guard(Metrics, r)}
      PROVE  Goal
  BY <1>1, <1>3, WorkingOnWorker
<1>4. ASSUME NEW place, at' = [at EXCEPT ![Metrics] = place],
             running \ {Metrics} \subseteq running', hold' = hold \ GuardsOf(Metrics)
      PROVE  Goal
  BY <1>1, <1>4, LeavingOnWorker
<1>5. UNCHANGED at => at' = [at EXCEPT ![Metrics] = at[Metrics]]
  BY DEF Inv, TypeOK
<1> SUFFICES Goal
  OBVIOUS
<1> HIDE DEF Goal
<1>6. CASE MetricsShard
  <2>1. CASE cursor.shards = {} /\ LeaveSessions /\ MetricsTo("count") /\ running' = running
    BY <1>4, <2>1 DEF LeaveSessions, MetricsTo
  <2>2. CASE /\ cursor.shards # {} /\ MetricsTo("sessions") /\ running' = running
             /\ hold' = (hold \ GuardsOf(Metrics)) \cup {Guard(Metrics, MetricsRef)}
    <3>1. MetricsRef \in [lock : Locks, mode : {"read", "write"}]
      BY <2>2, FirstIn DEF MetricsRef, Get, Locks, SessionLocks, Inv, TypeOK, Cursors
    <3> QED
      BY <1>3, <2>2, <3>1 DEF MetricsTo
  <2> QED
    BY <1>6, <2>1, <2>2 DEF MetricsShard
<1>7. CASE MetricsSession
  BY <1>2, <1>4, <1>7 DEF MetricsSession, LeaveSessions, MetricsTo, Suspend
<1>8. CASE MetricsPeerShard
  <2> DEFINE others == {h \in hold : h.task # Metrics \/ h.lock[1] = "sessions"}
  <2>1. CASE hold' = others /\ MetricsTo("sessions") /\ running' = running
    BY <1>2, <2>1 DEF MetricsTo
  <2>2. CASE /\ cursor.peer_shards # {} /\ MetricsTo("peers") /\ running' = running
             /\ hold' = others \cup {Guard(Metrics, MetricsPeerRefMut)}
    <3>1. cursor.session \in SessionIds /\ cursor \in Cursors
      BY <1>8, MetricsPlace DEF MetricsPeerShard, MetricsAt, MetricsGuardsOK, Cursors
    <3>2. MetricsPeerRefMut \in [lock : Locks, mode : {"read", "write"}]
      BY <2>2, <3>1, FirstIn DEF MetricsPeerRefMut, GetMut, Locks, Cursors
    <3>3. hold' \subseteq hold \cup {Guard(Metrics, MetricsPeerRefMut)}
      BY <2>2
    <3> QED
      BY <1>3, <2>2, <3>2, <3>3 DEF MetricsTo
  <2> QED
    BY <1>8, <2>1, <2>2 DEF MetricsPeerShard
<1>9. CASE MetricsPeer \/ ExportStats
  BY <1>2, <1>9 DEF MetricsPeer, ExportStats, MetricsTo, Suspend
<1>10. CASE MetricsLen
  <2>1. GuardsOf(Metrics) = {}
    BY <1>10, MetricsPlace DEF MetricsLen, MetricsAt, MetricsGuardsOK
  <2>2. hold' = hold \ GuardsOf(Metrics)
    BY <1>10, <2>1 DEF MetricsLen
  <2>3. CASE UNCHANGED <<at, running>>
    BY <1>4, <1>5, <2>2, <2>3
  <2>4. CASE Suspend("sleep")
    BY <1>4, <2>2, <2>4 DEF Suspend, MetricsTo
  <2> QED
    BY <1>10, <2>3, <2>4 DEF MetricsLen
<1> QED
  BY <1>6, <1>7, <1>8, <1>9, <1>10 DEF Collect

LEMMA GuardsOnWorkerNext == Inv /\ GuardsOnWorker /\ [Next]_vars => GuardsOnWorker'
<1> SUFFICES ASSUME Inv, GuardsOnWorker, [Next]_vars
             PROVE  GuardsOnWorker'
  OBVIOUS
<1>1. ASSUME NEW t \in Requests, Handle(t)
      PROVE  GuardsOnWorker'
  BY <1>1, HandleOnWorker, AloneOnWorker DEF Tasks
<1>2. CASE Collect
  BY <1>2, CollectOnWorker, AloneOnWorker DEF Tasks
<1>3. ASSUME NEW t \in Requests, Call(t)
      PROVE  GuardsOnWorker'
  <2>1. RequestGuardsOK(t) /\ at[t] = "idle" /\ hold' = hold /\ running' = running /\ t \in Tasks
    BY <1>3 DEF Call, Inv, LockDiscipline, Tasks
  <2>2. GuardsOf(t) = {}
    BY <2>1 DEF RequestGuardsOK, RequestGuards, ServesPeer, UsesPeer
  <2>3. \A u \in Tasks \ {t} : at'[u] = at[u]
    BY <1>3 DEF Call, Inv, TypeOK
  <2>4. Alone(t) /\ HoldsOnWorker(t)'
    BY <2>1, <2>2, <2>3 DEF Alone, HoldsOnWorker, GuardsOf
  <2> QED
    BY <2>1, <2>4, AloneOnWorker
<1>4. CASE MetricsTick
  <2>1. MetricsGuardsOK /\ at[Metrics] = "sleep" /\ hold' = hold /\ running' = running /\ Metrics \in Tasks
    BY <1>4 DEF MetricsTick, Inv, LockDiscipline, Tasks
  <2>2. GuardsOf(Metrics) = {}
    BY <2>1 DEF MetricsGuardsOK
  <2>3. \A u \in Tasks \ {Metrics} : at'[u] = at[u]
    BY <1>4 DEF MetricsTick, MetricsTo, Inv, TypeOK
  <2>4. Alone(Metrics) /\ HoldsOnWorker(Metrics)'
    BY <2>1, <2>2, <2>3 DEF Alone, HoldsOnWorker, GuardsOf
  <2> QED
    BY <2>1, <2>4, AloneOnWorker
<1>5. ASSUME NEW t \in Tasks, Run(t)
      PROVE  GuardsOnWorker'
  BY <1>5 DEF Run, GuardsOnWorker, HoldsOnWorker, GuardsOf
<1>6. ASSUME NEW t \in Tasks, Callback(t)
      PROVE  GuardsOnWorker'
  BY <1>6 DEF Callback, GuardsOnWorker, HoldsOnWorker, GuardsOf, Inv, TypeOK
<1>7. CASE UNCHANGED vars
  BY <1>7 DEF vars, GuardsOnWorker, HoldsOnWorker, GuardsOf
<1> QED
  BY <1>1, <1>2, <1>3, <1>4, <1>5, <1>6, <1>7 DEF Next

LEMMA SomeoneOutside ==
    ASSUME Inv, GuardsOnWorker, NEW C \in (SUBSET Tasks) \ {{}}, \A t \in C : Spins(t),
           ~(Metrics \in C /\ \E t, u \in C : PrintCircle(t, u))
    PROVE  \E t \in C, u \in Tasks \ C :
               WaitsFor(t, u) /\ (u \in running \/ at[u] \in {"await", "resume"})
<1>1. PICK t \in C : \A u \in C : ~WaitsFor(t, u)
  BY OnlyCircle
<1>2. PICK u \in Tasks : WaitsFor(t, u)
  BY DEF Spins
<1>3. GuardsOf(u) # {}
  BY <1>2 DEF WaitsFor, GuardsOf
<1> QED
  BY <1>1, <1>2, <1>3 DEF GuardsOnWorker, HoldsOnWorker

\* Whoever spins for a lock, in a handler or in the collector, waits in the end for a
\* task that can go on once libwebrtc answers and a worker thread is free, unless the
\* collector and two add_track stand in a print circle: besides that circle, what can
\* block the server is a lack of worker threads.
THEOREM NoneStuck == Spec => []SomeoneProceeds
<1>1. Init => GuardsOnWorker
  BY DEF Init, GuardsOnWorker, HoldsOnWorker, GuardsOf
<1>2. Inv /\ GuardsOnWorker => SomeoneProceeds
  BY SomeoneOutside DEF SomeoneProceeds
<1> QED
  BY <1>1, <1>2, GuardsOnWorkerNext, InvHolds, PTL DEF Spec

=============================================================================
