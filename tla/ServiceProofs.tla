---------------------------- MODULE ServiceProofs ----------------------------
(***************************************************************************)
(* What the calls of LoadTestServer promise, though it serves them in      *)
(* several steps: what a task works on stays as it is, because the task    *)
(* has a guard on the shard it is in, or on the shard of its session, that *)
(* every step changing it would conflict with; so the counts of get_stats  *)
(* are those of one moment; so each call takes effect at once, in the step *)
(* that answers it, which is what SessionService asks for.                 *)
(***************************************************************************)
EXTENDS LoadTestServerProofs

\* Some guard of task t keeps others from changing peer connection p of s.
PeerGuarded(t, s, p) ==
    \E h \in hold :
        /\ h.task = t
        /\ h.lock = PeerLock(s, p) \/ (h.lock = SessionLock(s) /\ h.mode = "write")

LEMMA UsedSessionGuarded ==
    ASSUME Inv, NEW t \in Tasks, NEW s \in UsedSessions(t)
    PROVE  s \in SessionIds /\ \E h \in hold : h.task = t /\ h.lock = SessionLock(s)
<1>1. CASE t = Metrics
  <2>1. MetricsGuardsOK /\ CursorOK /\ cursor \in Cursors /\ at[Metrics] \in MetricsPlaces
    BY DEF Inv, LockDiscipline, TypeOK
  <2>2. s \in cursor.sessions \/ (s = cursor.session /\ s # None)
    BY <1>1 DEF UsedSessions
  <2>3. s \in SessionIds
    BY <2>1, <2>2 DEF Cursors
  <2>4. \E n \in SessionShards : InShard(n) \in GuardsOf(Metrics) /\ SessionShard[s] = n
    BY <2>1, <2>2, <2>3 DEF MetricsGuardsOK, CursorOK, MetricsPlaces, Registered, SessionShards
  <2> QED BY <1>1, <2>3, <2>4 DEF InShard, Guard, Get, SessionLock, GuardsOf
<1>2. CASE t # Metrics
  <2>1. /\ t \in Requests /\ RequestGuardsOK(t) /\ RequestDataOK(t)
        /\ call[t] \in Calls \cup {NoCall}
    BY <1>2 DEF Tasks, Inv, LockDiscipline, TypeOK, RequestTypeOK
  <2>2. CASE at[t] \in {"len", "tally"} \/ ServesPeer(t) \/ UsesPeer(t)
    <3>1. s = call[t].session
      BY <1>2, <2>2 DEF UsedSessions
    <3>2. s \in SessionIds
      BY <2>1, <2>2, <3>1, CallTypes, OpTypes DEF RequestDataOK
    <3>3. GuardsOf(t) = RequestGuards(t)
      BY <2>1, <2>2 DEF RequestGuardsOK, ServesPeer, UsesPeer
    <3>4. Guard(t, SessionRef(t)) \in GuardsOf(t) \/ Guard(t, SessionRefMut(t)) \in GuardsOf(t)
      BY <2>2, <3>3 DEF RequestGuards, ServesPeer, UsesPeer
    <3>5. /\ Guard(t, SessionRef(t)).lock = SessionLock(s)
          /\ Guard(t, SessionRefMut(t)).lock = SessionLock(s)
      BY <3>1 DEF Guard, SessionRef, SessionRefMut, Get, GetMut
    <3> QED BY <3>2, <3>4, <3>5 DEF GuardsOf
  <2>3. CASE ~(at[t] \in {"len", "tally"} \/ ServesPeer(t) \/ UsesPeer(t))
    <3>1. PICK l \in scan[t].locks : s = l[1]
      BY <1>2, <2>3 DEF UsedSessions
    <3>2. at[t] = "print"
      BY <2>1, <2>3, <3>1 DEF RequestDataOK
    <3>3. PICK n \in SessionShards :
              /\ GuardsOf(t) = {Guard(t, StdoutRef), Guard(t, Get(<<"sessions", n>>))}
              /\ scan[t].locks \subseteq Registered(n) \X PeerShards
      BY <2>1, <3>1, <3>2 DEF RequestGuardsOK
    <3>4. s \in Registered(n)
      BY <3>1, <3>3
    <3>5. s \in SessionIds /\ Guard(t, Get(<<"sessions", n>>)).lock = SessionLock(s)
      BY <3>4 DEF Registered, Guard, Get, SessionLock
    <3> QED BY <3>3, <3>5 DEF GuardsOf
  <2> QED BY <2>2, <2>3
<1> QED BY <1>1, <1>2

LEMMA UsedPeerGuarded ==
    ASSUME Inv, NEW t \in Tasks, NEW u \in UsedPeers(t)
    PROVE  /\ u[1] \in SessionIds /\ u[2] \in PeerConnectionIds
           /\ u = <<u[1], u[2]>>
           /\ u[1] \in UsedSessions(t)
           /\ PeerGuarded(t, u[1], u[2])
<1>1. CASE t = Metrics
  <2>1. MetricsGuardsOK /\ CursorOK /\ cursor \in Cursors /\ at[Metrics] \in MetricsPlaces
    BY DEF Inv, LockDiscipline, TypeOK
  <2>2. /\ u[1] = cursor.session /\ u = <<u[1], u[2]>>
        /\ u[2] \in cursor.peers \/ (u[2] = cursor.peer /\ u[2] # None)
    BY <1>1 DEF UsedPeers
  <2>3. at[Metrics] \in {"peers", "await", "resume"}
    BY <2>1, <2>2 DEF CursorOK
  <2>4. PICK n \in PeerShards :
           /\ GuardsOf(Metrics) = {InShard(SessionShard[u[1]]), InPeerShard(u[1], n)}
           /\ u[2] \in PeersIn(<<u[1], n>>)
    BY <2>1, <2>2, <2>3 DEF MetricsGuardsOK, CursorOK
  <2>5. u[1] \in SessionIds /\ u[2] \in PeerConnectionIds /\ PeerShard[u[2]] = n
    BY <2>1, <2>2, <2>3, <2>4 DEF MetricsGuardsOK, Cursors, PeersIn
  <2>6. InPeerShard(u[1], n) \in hold
    BY <2>4 DEF GuardsOf
  <2>7. PeerGuarded(t, u[1], u[2])
    BY <1>1, <2>5, <2>6 DEF PeerGuarded, InPeerShard, Guard, GetMut, PeerLock
  <2>8. u[1] \in UsedSessions(t)
    BY <1>1, <2>1, <2>2, <2>3 DEF UsedSessions, MetricsGuardsOK
  <2> QED BY <2>2, <2>5, <2>7, <2>8
<1>2. CASE t # Metrics
  <2> DEFINE s == call[t].session
  <2>1. /\ t \in Requests /\ RequestGuardsOK(t) /\ RequestDataOK(t)
        /\ call[t] \in Calls \cup {NoCall}
    BY <1>2 DEF Tasks, Inv, LockDiscipline, TypeOK, RequestTypeOK
  <2>2. CASE at[t] \in {"len", "tally"}
    <3>1. u \in {s} \X PeerConnectionIds
      BY <1>2, <2>2 DEF UsedPeers, UsesPeer
    <3>2. s \in SessionIds /\ s \in UsedSessions(t)
      BY <1>2, <2>1, <2>2, CallTypes, OpTypes DEF RequestDataOK, UsedSessions
    <3>3. Guard(t, SessionRefMut(t)) \in hold
      BY <2>1, <2>2 DEF RequestGuardsOK, RequestGuards, ServesPeer, UsesPeer, GuardsOf
    <3>4. PeerGuarded(t, s, u[2])
      BY <3>3 DEF PeerGuarded, Guard, SessionRefMut, GetMut
    <3> QED BY <3>1, <3>2, <3>4
  <2>3. CASE UsesPeer(t)
    <3>1. u = <<s, call[t].peer>>
      BY <1>2, <2>3 DEF UsedPeers, UsesPeer
    <3>2. s \in SessionIds /\ call[t].peer \in PeerConnectionIds /\ s \in UsedSessions(t)
      BY <1>2, <2>1, <2>3, CallTypes, OpTypes DEF RequestDataOK, UsedSessions
    <3>3. Guard(t, PeerRef(t)) \in hold
      BY <2>1, <2>3 DEF RequestGuardsOK, RequestGuards, ServesPeer, UsesPeer, GuardsOf
    <3>4. PeerGuarded(t, s, call[t].peer)
      BY <3>3 DEF PeerGuarded, Guard, PeerRef, Get
    <3> QED BY <3>1, <3>2, <3>4
  <2> QED BY <1>2, <2>2, <2>3 DEF UsedPeers
<1> QED BY <1>1, <1>2

-----------------------------------------------------------------------------
\* A step that changes nothing but one session, whose shard nobody has.
LEMMA SessionChange ==
    ASSUME Inv, NEW s \in SessionIds, \A h \in hold : h.lock # SessionLock(s),
           \A x \in SessionIds \ {s} :
               sessions'[x] = sessions[x] /\ peer_connections'[x] = peer_connections[x]
    PROVE  UsedDataKept
<1>1. \A t \in Tasks : s \notin UsedSessions(t) /\ UsedSessions(t) \subseteq SessionIds
  BY UsedSessionGuarded
<1>2. \A t \in Tasks : \A u \in UsedPeers(t) : u[1] \in SessionIds \ {s}
  BY <1>1, UsedPeerGuarded
<1> QED BY <1>1, <1>2 DEF UsedDataKept

\* A step that changes nothing but one peer connection, which no task goes on
\* using.
LEMMA PeerChange ==
    ASSUME Inv, NEW s \in SessionIds, NEW p \in PeerConnectionIds,
           \A t \in Tasks : <<s, p>> \notin UsedPeers(t) \cap UsedPeers(t)',
           sessions' = sessions,
           \A x \in SessionIds, y \in PeerConnectionIds :
               <<x, y>> # <<s, p>> => peer_connections'[x][y] = peer_connections[x][y]
    PROVE  UsedDataKept
<1> SUFFICES ASSUME NEW t \in Tasks, NEW u \in UsedPeers(t) \cap UsedPeers(t)'
             PROVE  peer_connections'[u[1]][u[2]] = peer_connections[u[1]][u[2]]
  BY DEF UsedDataKept
<1>1. u[1] \in SessionIds /\ u[2] \in PeerConnectionIds /\ u = <<u[1], u[2]>>
  BY UsedPeerGuarded
<1> QED BY <1>1

\* Where a handler has a read guard on the session, and nobody has one on the
\* peer connection, the peer connection is not used.
LEMMA PeerUnused ==
    ASSUME Inv, NEW t \in Tasks, NEW s, NEW p, Guard(t, Get(SessionLock(s))) \in hold,
           \A h \in hold : h.lock # PeerLock(s, p)
    PROVE  \A v \in Tasks : <<s, p>> \notin UsedPeers(v)
<1> SUFFICES ASSUME NEW v \in Tasks, <<s, p>> \in UsedPeers(v) PROVE FALSE
  OBVIOUS
<1>1. PICK h \in hold : h.lock = SessionLock(s) /\ h.mode = "write"
  BY UsedPeerGuarded DEF PeerGuarded
<1>2. Guard(t, Get(SessionLock(s))).lock = SessionLock(s)
      /\ Guard(t, Get(SessionLock(s))).mode = "read"
  BY DEF Guard, Get
<1> QED BY <1>1, <1>2 DEF Inv, LockDiscipline, Exclusion

LEMMA CallSessionKeeps ==
    ASSUME Inv, NEW t \in Requests, StartSession(t) \/ StopSession(t) \/ InsertSession(t)
    PROVE  UsedDataKept
<1> DEFINE s == call[t].session
<1>1. s \in SessionIds
  BY Executing, OpTypes DEF StartSession, StopSession, InsertSession, SessionOps, AllOps
<1>2. \A h \in hold : h.lock # SessionLock(s)
  BY DEF StartSession, StopSession, InsertSession, Granted, Conflict, SessionRefMut, SessionInsert, GetMut
<1>3. \A x \in SessionIds \ {s} :
          sessions'[x] = sessions[x] /\ peer_connections'[x] = peer_connections[x]
  BY <1>1 DEF StartSession, StopSession, InsertSession, Inv, TypeOK, DataTypeOK
<1> QED BY <1>1, <1>2, <1>3, SessionChange

LEMMA AddPeerConnectionKeeps ==
    ASSUME Inv, NEW t \in Requests, AddPeerConnection(t)
    PROVE  UsedDataKept
<1> DEFINE s == call[t].session
           p == call[t].peer
<1>1. /\ s \in SessionIds /\ p \in PeerConnectionIds /\ t \in Tasks
      /\ RequestGuardsOK(t) /\ at[t] = "insert"
      /\ call[t].op = "create_peer_connection"
  BY Executing DEF AddPeerConnection, AllOps, PeerOps
<1>2. Guard(t, Get(SessionLock(s))) \in hold
  BY <1>1 DEF RequestGuardsOK, RequestGuards, ServesPeer, UsesPeer, GuardsOf, SessionRef
<1>3. \A h \in hold : h.lock # PeerLock(s, p)
  BY DEF AddPeerConnection, Granted, Conflict, PeerInsert, GetMut
<1>4. \A v \in Tasks : <<s, p>> \notin UsedPeers(v)
  BY <1>1, <1>2, <1>3, PeerUnused
<1>5. \A x \in SessionIds, y \in PeerConnectionIds :
          <<x, y>> # <<s, p>> => peer_connections'[x][y] = peer_connections[x][y]
  BY <1>1 DEF AddPeerConnection, InsertPeer, Inv, TypeOK, DataTypeOK
<1> QED BY <1>1, <1>4, <1>5, PeerChange DEF AddPeerConnection

LEMMA ObserverKeeps ==
    ASSUME Inv, NEW t \in Requests, Observer(t)
    PROVE  UsedDataKept
<1> DEFINE s == call[t].session
           p == call[t].peer
<1>1. /\ s \in SessionIds /\ p \in PeerConnectionIds /\ t \in Tasks
      /\ RequestGuardsOK(t) /\ at[t] = "peer"
  BY Executing DEF Observer, AllOps, PeerOps
<1>2. Guard(t, Get(SessionLock(s))) \in hold
  BY <1>1 DEF RequestGuardsOK, RequestGuards, ServesPeer, UsesPeer, GuardsOf, SessionRef
<1>3. \A h \in hold : h.lock # PeerLock(s, p)
  BY DEF Observer, Granted, Conflict, PeerRefMut, GetMut
<1>4. \A v \in Tasks : <<s, p>> \notin UsedPeers(v)
  BY <1>1, <1>2, <1>3, PeerUnused
<1>5. \A x \in SessionIds, y \in PeerConnectionIds :
          <<x, y>> # <<s, p>> => peer_connections'[x][y] = peer_connections[x][y]
  BY <1>1 DEF Observer, Inv, TypeOK, DataTypeOK
<1> QED BY <1>1, <1>4, <1>5, PeerChange DEF Observer

\* The collector has the only guard on the peer connection it writes the send
\* state of, and does not come back to it.
LEMMA ExportStatsKeeps ==
    ASSUME Inv, ExportStats
    PROVE  UsedDataKept
<1> DEFINE s == cursor.session
           p == cursor.peer
<1>1. /\ MetricsGuardsOK /\ cursor \in Cursors /\ at[Metrics] = "resume" /\ Exclusion
      /\ Metrics \in Tasks /\ Metrics \notin Requests
  BY MetricsPlace DEF ExportStats, MetricsAt, Inv, LockDiscipline
<1>2. PICK n \in PeerShards :
           /\ GuardsOf(Metrics) = {InShard(SessionShard[s]), InPeerShard(s, n)}
           /\ p \in PeersIn(<<s, n>>) \ cursor.peers
  BY <1>1 DEF MetricsGuardsOK
<1>3. s \in SessionIds /\ p \in PeerConnectionIds /\ PeerShard[p] = n
  BY <1>1, <1>2 DEF MetricsGuardsOK, Cursors, PeersIn
<1>4. ASSUME NEW t \in Tasks, <<s, p>> \in UsedPeers(t) \cap UsedPeers(t)' PROVE FALSE
  <2>1. CASE t = Metrics
    <3>1. cursor'.peers = cursor.peers /\ cursor'.peer = None /\ cursor'.session = s
      BY <1>1 DEF ExportStats, Cursors
    <3>2. p \in cursor'.peers
      BY <1>4, <2>1, <3>1 DEF UsedPeers
    <3> QED BY <1>2, <3>1, <3>2
  <2>2. CASE t # Metrics
    <3>1. PICK h \in hold :
              /\ h.task = t
              /\ h.lock = PeerLock(s, p) \/ (h.lock = SessionLock(s) /\ h.mode = "write")
      BY <1>4, UsedPeerGuarded DEF PeerGuarded
    <3>2. InShard(SessionShard[s]) \in hold /\ InPeerShard(s, n) \in hold
      BY <1>2 DEF GuardsOf
    <3>3. /\ InShard(SessionShard[s]).lock = SessionLock(s)
          /\ InShard(SessionShard[s]).mode = "read"
          /\ InPeerShard(s, n).lock = PeerLock(s, p) /\ InPeerShard(s, n).mode = "write"
          /\ InPeerShard(s, n).task = Metrics
      BY <1>3 DEF InShard, InPeerShard, Guard, Get, GetMut, SessionLock, PeerLock
    <3> QED BY <1>1, <2>2, <3>1, <3>2, <3>3 DEF Exclusion
  <2> QED BY <2>1, <2>2
<1>5. \A x \in SessionIds, y \in PeerConnectionIds :
          <<x, y>> # <<s, p>> => peer_connections'[x][y] = peer_connections[x][y]
  <2>1. CASE UNCHANGED peer_connections
    BY <2>1
  <2>2. CASE \E b \in BOOLEAN : peer_connections' =
                 [peer_connections EXCEPT ![s][p].sending = b]
    <3>1. PICK b \in BOOLEAN : peer_connections' =
                 [peer_connections EXCEPT ![s][p] = [@ EXCEPT !.sending = b]]
      BY <2>2
    <3> DEFINE c == [peer_connections[s][p] EXCEPT !.sending = b]
    <3>2. peer_connections' = [peer_connections EXCEPT ![s][p] = c]
      BY <3>1
    <3> HIDE DEF c
    <3> QED BY <1>3, <3>2 DEF Inv, TypeOK, DataTypeOK
  <2> QED BY <2>1, <2>2 DEF ExportStats
<1> QED BY <1>3, <1>4, <1>5, PeerChange DEF ExportStats

LEMMA NothingChanges ==
    ASSUME UNCHANGED <<sessions, peer_connections>>
    PROVE  UsedDataKept
BY DEF UsedDataKept

\* Most steps of the handlers leave the sessions and the peer connections.
LEMMA HandleKeeps ==
    ASSUME Inv, NEW t \in Requests, Handle(t)
    PROVE  UsedDataKept
<1>1. CASE StartSession(t) \/ StopSession(t) \/ InsertSession(t)
  BY <1>1, CallSessionKeeps
<1>2. CASE AddPeerConnection(t)
  BY <1>2, AddPeerConnectionKeeps
<1>3. CASE Observer(t)
  BY <1>3, ObserverKeeps
<1>4. CASE NewSession(t)
  BY <1>4, NothingChanges DEF NewSession
<1>5. CASE GetStats(t) \/ StatsLen(t) \/ StatsTally(t) \/ StatsReply(t)
  BY <1>5, NothingChanges DEF GetStats, StatsLen, StatsTally, StatsReply, dataVars
<1>6. CASE LookupSession(t) \/ CreatePeerConnection(t) \/ GetTransceivers(t)
  BY <1>6, NothingChanges DEF LookupSession, CreatePeerConnection, GetTransceivers, dataVars
<1>7. CASE CallWebRTC(t) \/ ResumeRequest(t)
  BY <1>7, NothingChanges DEF CallWebRTC, ResumeRequest, dataVars
<1>8. CASE \/ LockStdout(t) \/ PrintShard(t) \/ PrintLen(t) \/ PrintEnd(t)
           \/ FindTrackPeer(t) \/ PrintPast(t)
  BY <1>8, NothingChanges
  DEF LockStdout, PrintShard, PrintLen, PrintEnd, FindTrackPeer, PrintPast, dataVars
<1> QED BY <1>1, <1>2, <1>3, <1>4, <1>5, <1>6, <1>7, <1>8 DEF Handle

LEMMA CollectKeeps ==
    ASSUME Inv, Collect
    PROVE  UsedDataKept
<1>1. CASE ExportStats
  BY <1>1, ExportStatsKeeps
<1>2. CASE MetricsShard \/ MetricsSession \/ MetricsPeerShard \/ MetricsPeer \/ MetricsLen
  BY <1>2, NothingChanges
  DEF MetricsShard, MetricsSession, MetricsPeerShard, MetricsPeer, MetricsLen, dataVars
<1> QED BY <1>1, <1>2 DEF Collect

LEMMA NextKeeps == Inv /\ [Next]_vars => [UsedDataKept]_vars
<1> SUFFICES ASSUME Inv, Next PROVE UsedDataKept
  OBVIOUS
<1>1. CASE \E t \in Requests : Call(t)
  BY <1>1, NothingChanges DEF Call, dataVars
<1>2. CASE MetricsTick \/ \E t \in Tasks : Run(t) \/ Callback(t)
  BY <1>2, NothingChanges DEF MetricsTick, Run, Callback, dataVars
<1> QED BY <1>1, <1>2, HandleKeeps, CollectKeeps DEF Next

\* While a handler or the collector works on a session or a peer connection, at
\* an await too, no call replaces or changes it.
THEOREM DataStable == Spec => UsedDataStable
BY InvHolds, NextKeeps, PTL DEF Spec, UsedDataStable

-----------------------------------------------------------------------------
(***************************************************************************)
(* get_stats.  While a handler counts, its write guard on the session      *)
(* keeps the peer connections as they are, so what it has counted so far   *)
(* is the number of those in the shards that its loop has passed.          *)
(***************************************************************************)
PeersOf(s) == {p \in PeerConnectionIds : peer_connections[s][p] # None}
Sending(s) == {p \in PeersOf(s) : peer_connections[s][p].sending}
NotSending(s) == PeersOf(s) \ Sending(s)

\* Those of the peer connections P that are in no shard left in locks.
Passed(s, locks, P) == {p \in P : PeerLock(s, p) \notin locks}
NumPassed(t, P) == Cardinality(Passed(call[t].session, scan[t].locks, P))

Counted(t, peers, sending, not_sending) ==
    /\ scan[t].num_peer_connections = peers
    /\ scan[t].num_sending = sending
    /\ scan[t].num_not_sending = not_sending

CountsOK(t) ==
    LET s == call[t].session
    IN  /\ at[t] = "len" => Counted(t, NumPassed(t, PeersOf(s)), 0, 0)
        /\ at[t] = "tally" => Counted(t, Cardinality(PeersOf(s)),
                                      NumPassed(t, Sending(s)), NumPassed(t, NotSending(s)))
        /\ at[t] \notin {"len", "tally"} => Counted(t, 0, 0, 0)

AddsUp(reply) == reply.num_sending + reply.num_not_sending = reply.num_peer_connections

ServesOK(t) ==
    /\ at[t] = "idle" => call[t] = NoCall
    /\ CountsOK(t)
    /\ AddsUp(answer[t])

\* An id without a session has no peer connections.
OnlyRegistered ==
    \A s \in SessionIds : sessions[s] = None => peer_connections[s] = NoPeerConnections

ServiceInv == Inv /\ OnlyRegistered /\ \A t \in Requests : ServesOK(t)

Unmoved(t) == UNCHANGED <<at[t], call[t], scan[t], answer[t]>>

LEMMA SetsOfPeers ==
    ASSUME NEW s
    PROVE  /\ PeersOf(s) \subseteq PeerConnectionIds
           /\ Sending(s) \subseteq PeersOf(s)
           /\ NotSending(s) \subseteq PeersOf(s)
BY DEF PeersOf, Sending, NotSending

\* What the next shard adds to the count.
LEMMA PassedNext ==
    ASSUME NEW s, NEW locks, NEW l \in locks, NEW P \in SUBSET PeerConnectionIds,
           NEW B, B = {p \in P : PeerLock(s, p) = l}
    PROVE  /\ Cardinality(Passed(s, locks \ {l}, P)) =
                  Cardinality(Passed(s, locks, P)) + Cardinality(B)
           /\ Cardinality(Passed(s, locks, P)) \in Nat /\ Cardinality(B) \in Nat
<1>1. Passed(s, locks, P) \subseteq PeerConnectionIds /\ B \subseteq PeerConnectionIds
  BY DEF Passed
<1>2. IsFiniteSet(Passed(s, locks, P)) /\ IsFiniteSet(B)
  BY <1>1, DataAssumption, FS_Subset DEF DataAssumption
<1>3. Passed(s, locks, P) \cap B = {}
  BY DEF Passed
<1>4. Passed(s, locks \ {l}, P) = Passed(s, locks, P) \cup B
  <2>1. \A p \in P : PeerLock(s, p) \notin locks \ {l}
                      <=> PeerLock(s, p) \notin locks \/ PeerLock(s, p) = l
    OBVIOUS
  <2> QED
    BY <2>1 DEF Passed
<1>5. /\ Cardinality(Passed(s, locks, P)) \in Nat /\ Cardinality(B) \in Nat
      /\ Cardinality(Passed(s, locks, P) \cap B) = 0
  BY <1>2, <1>3, FS_CardinalityType, FS_EmptySet
<1>6. Cardinality(Passed(s, locks, P) \cup B) =
          Cardinality(Passed(s, locks, P)) + Cardinality(B)
              - Cardinality(Passed(s, locks, P) \cap B)
  BY <1>2, FS_Union
<1>7. Cardinality(Passed(s, locks, P) \cup B) =
          Cardinality(Passed(s, locks, P)) + Cardinality(B)
  BY <1>5, <1>6
<1> QED
  BY <1>4, <1>5, <1>7

LEMMA PeersInShard ==
    ASSUME NEW s, NEW l \in PeerLocks(s)
    PROVE  LET sending == {p \in PeersIn(l) : peer_connections[l[1]][p].sending}
           IN  /\ PeersIn(l) = {p \in PeersOf(s) : PeerLock(s, p) = l}
               /\ sending = {p \in Sending(s) : PeerLock(s, p) = l}
               /\ PeersIn(l) \ sending = {p \in NotSending(s) : PeerLock(s, p) = l}
<1>1. l[1] = s /\ \A p : PeerLock(s, p) = l <=> PeerShard[p] = l[2]
  BY DEF PeerLocks, PeerLock
<1>2. PeersIn(l) = {p \in PeersOf(s) : PeerLock(s, p) = l}
  BY <1>1 DEF PeersIn, PeersOf
<1> QED
  BY <1>1, <1>2 DEF Sending, NotSending

LEMMA PassedEnds ==
    ASSUME NEW s, NEW P \in SUBSET PeerConnectionIds
    PROVE  /\ Passed(s, {}, P) = P
           /\ Cardinality(Passed(s, PeerLocks(s), P)) = 0
<1>1. Passed(s, {}, P) = P
  BY DEF Passed
<1>2. \A p \in P : PeerLock(s, p) \in PeerLocks(s)
  BY DEF PeerLock, PeerLocks, PeerShards
<1>3. Passed(s, PeerLocks(s), P) = {}
  BY <1>2 DEF Passed
<1> QED
  BY <1>1, <1>3, FS_EmptySet

\* A request that takes no part in a step still counts what is there.
LEMMA ServesFrame ==
    ASSUME Inv, UsedDataKept, NEW t \in Requests, ServesOK(t), Unmoved(t)
    PROVE  ServesOK(t)'
<1> DEFINE s == call[t].session
<1>1. t \in Tasks /\ t # Metrics
  BY ServerAssumption DEF ServerAssumption, Tasks
<1>2. CASE at[t] \in {"len", "tally"}
  <2>1. \A p \in PeerConnectionIds : peer_connections'[s][p] = peer_connections[s][p]
    <3>1. UsedPeers(t) = {s} \X PeerConnectionIds /\ UsedPeers(t)' = {s} \X PeerConnectionIds
      <4>1. at'[t] = at[t] /\ call'[t] = call[t]
        BY DEF Unmoved
      <4>2. UsedPeers(t) = {s} \X PeerConnectionIds
        BY <1>1, <1>2 DEF UsedPeers, UsesPeer
      <4>3. UsedPeers(t)' = {s} \X PeerConnectionIds
        BY <1>1, <1>2, <4>1 DEF UsedPeers, UsesPeer
      <4> QED
        BY <4>2, <4>3
    <3>2. ASSUME NEW p \in PeerConnectionIds
          PROVE  peer_connections'[s][p] = peer_connections[s][p]
      <4>1. <<s, p>> \in UsedPeers(t) \cap UsedPeers(t)'
        BY <3>1
      <4> HIDE DEF s
      <4> QED
        BY <1>1, <4>1 DEF UsedDataKept
    <3> QED
      BY <3>2
  <2>2. call'[t] = call[t]
    BY DEF Unmoved
  <2>3. /\ PeersOf(call[t].session)' = PeersOf(s)
        /\ Sending(call[t].session)' = Sending(s)
        /\ NotSending(call[t].session)' = NotSending(s)
    BY <2>1, <2>2 DEF PeersOf, Sending, NotSending
  <2> QED
    BY <2>2, <2>3 DEF ServesOK, CountsOK, Counted, NumPassed, Passed, PeerLock, Unmoved, AddsUp
<1>3. CASE at[t] \notin {"len", "tally"}
  BY <1>3 DEF ServesOK, CountsOK, Counted, Unmoved, AddsUp
<1> QED
  BY <1>2, <1>3

\* A handler that returns answers its call and has nothing counted.
LEMMA Finished ==
    ASSUME Inv, NEW t \in Requests, NEW reply, AddsUp(reply), Finish(t, reply)
    PROVE  ServesOK(t)' /\ \A u \in Requests \ {t} : Unmoved(u)
<1>1. at'[t] = "idle" /\ call'[t] = NoCall /\ scan'[t] = NoScan /\ answer'[t] = reply
  BY DEF Finish, Inv, TypeOK, RequestTypeOK, Tasks
<1>2. ServesOK(t)'
  BY <1>1 DEF ServesOK, CountsOK, Counted, NoScan, AddsUp
<1>3. \A u \in Requests \ {t} : Unmoved(u)
  BY DEF Finish, Unmoved, Inv, TypeOK, RequestTypeOK, Tasks
<1> QED
  BY <1>2, <1>3

LEMMA ReplyAddsUp == \A status : AddsUp(Reply(status))
BY DEF AddsUp, Reply

\* A handler that goes on elsewhere than to count.
NothingCounted(t) ==
    /\ scan'[t].num_peer_connections = scan[t].num_peer_connections
    /\ scan'[t].num_sending = scan[t].num_sending
    /\ scan'[t].num_not_sending = scan[t].num_not_sending
    /\ \A u \in Requests \ {t} : scan'[u] = scan[u]

LEMMA Moved ==
    ASSUME Inv, NEW t \in Requests, ServesOK(t), at[t] \notin {"len", "tally"},
           NEW place, place \notin {"idle", "len", "tally"},
           at' = [at EXCEPT ![t] = place], UNCHANGED <<call, answer>>, NothingCounted(t)
    PROVE  ServesOK(t)' /\ \A u \in Requests \ {t} : Unmoved(u)
<1>1. at'[t] = place /\ \A u \in Requests \ {t} : at'[u] = at[u]
  BY DEF Inv, TypeOK, Tasks
<1> QED
  BY <1>1 DEF NothingCounted, ServesOK, CountsOK, Counted, Unmoved, AddsUp

LEMMA GetStatsServes ==
    ASSUME ServiceInv, NEW t \in Requests, GetStats(t)
    PROVE  ServesOK(t)' /\ \A u \in Requests \ {t} : Unmoved(u)
<1> DEFINE s == call[t].session
<1> USE DEF ServiceInv
<1>1. CASE Finish(t, Reply("error"))
  BY <1>1, Finished, ReplyAddsUp
<1>2. CASE /\ scan' = [scan EXCEPT ![t].locks = PeerLocks(s)]
           /\ at' = [at EXCEPT ![t] = "len"]
           /\ UNCHANGED <<call, answer>>
  <2>1. /\ at[t] = "begin" /\ at'[t] = "len" /\ call' = call /\ answer' = answer
        /\ scan'[t].locks = PeerLocks(s)
        /\ scan'[t].num_peer_connections = scan[t].num_peer_connections
        /\ scan'[t].num_sending = scan[t].num_sending
        /\ scan'[t].num_not_sending = scan[t].num_not_sending
        /\ peer_connections' = peer_connections
    BY <1>2 DEF GetStats, Executes, Inv, TypeOK, RequestTypeOK, Scans, Tasks, dataVars
  <2>2. NumPassed(t, PeersOf(s))' = 0
    <3>1. PeersOf(call[t].session)' = PeersOf(s) /\ PeersOf(s) \in SUBSET PeerConnectionIds
      BY <2>1 DEF PeersOf
    <3>2. Cardinality(Passed(s, PeerLocks(s), PeersOf(s))) = 0
      BY <3>1, PassedEnds
    <3> QED
      BY <2>1, <3>1, <3>2 DEF NumPassed, Passed, PeerLock
  <2>3. Counted(t, 0, 0, 0)
    BY <2>1 DEF ServesOK, CountsOK
  <2>4. ServesOK(t)'
    BY <2>1, <2>2, <2>3 DEF ServesOK, CountsOK, Counted, AddsUp
  <2>5. \A u \in Requests \ {t} : Unmoved(u)
    BY <1>2 DEF Unmoved, Inv, TypeOK, RequestTypeOK, Tasks
  <2> QED
    BY <2>4, <2>5
<1> QED
  BY <1>1, <1>2 DEF GetStats

\* The count of the peer connections is that of the session when it is complete,
\* and the loop that tallies their states then begins anew.
LEMMA StatsLenServes ==
    ASSUME ServiceInv, NEW t \in Requests, StatsLen(t)
    PROVE  ServesOK(t)' /\ \A u \in Requests \ {t} : Unmoved(u)
<1> DEFINE s == call[t].session
           peers == PeersOf(s)
           locks == scan[t].locks
<1> USE DEF ServiceInv
<1>1. /\ at[t] = "len" /\ call' = call /\ answer' = answer
      /\ peer_connections' = peer_connections /\ locks \subseteq PeerLocks(s)
      /\ scan[t] \in Scans /\ scan \in [Requests -> Scans] /\ t \in Tasks
      /\ at \in [Tasks -> RequestPlaces \cup MetricsPlaces]
  BY DEF StatsLen, Executes, Inv, TypeOK, RequestTypeOK, LockDiscipline,
         RequestDataOK, Tasks, dataVars
<1>2. Counted(t, NumPassed(t, peers), 0, 0) /\ AddsUp(answer[t])
  BY <1>1 DEF ServesOK, CountsOK
<1>3. /\ peers \in SUBSET PeerConnectionIds
      /\ Sending(s) \in SUBSET PeerConnectionIds /\ NotSending(s) \in SUBSET PeerConnectionIds
  BY SetsOfPeers
<1>4. /\ PeersOf(call[t].session)' = peers
      /\ Sending(call[t].session)' = Sending(s) /\ NotSending(call[t].session)' = NotSending(s)
  BY <1>1 DEF PeersOf, Sending, NotSending
<1>5. CASE /\ locks = {}
           /\ at' = [at EXCEPT ![t] = "tally"]
           /\ scan' = [scan EXCEPT ![t].locks = PeerLocks(s)]
  <2>1. /\ at'[t] = "tally" /\ scan'[t].locks = PeerLocks(s)
        /\ scan'[t].num_peer_connections = scan[t].num_peer_connections
        /\ scan'[t].num_sending = scan[t].num_sending
        /\ scan'[t].num_not_sending = scan[t].num_not_sending
    BY <1>1, <1>5 DEF Scans
  <2>2. NumPassed(t, peers) = Cardinality(peers)
    <3>1. Passed(s, locks, peers) = peers
      BY <1>3, <1>5, PassedEnds
    <3> QED
      BY <3>1 DEF NumPassed
  <2>3. Counted(t, Cardinality(PeersOf(call[t].session)), 0, 0)'
    BY <1>2, <1>4, <2>1, <2>2 DEF Counted
  <2> QED
    <3>1. /\ Cardinality(Passed(s, PeerLocks(s), Sending(s))) = 0
          /\ Cardinality(Passed(s, PeerLocks(s), NotSending(s))) = 0
      BY <1>3, PassedEnds
    <3>2. NumPassed(t, Sending(call[t].session))' = 0
      BY <1>1, <1>4, <2>1, <3>1 DEF NumPassed, Passed, PeerLock
    <3>3. NumPassed(t, NotSending(call[t].session))' = 0
      BY <1>1, <1>4, <2>1, <3>1 DEF NumPassed, Passed, PeerLock
    <3>4. CountsOK(t)'
      BY <1>4, <2>1, <2>3, <3>2, <3>3 DEF CountsOK, Counted
    <3>5. \A u \in Requests \ {t} : Unmoved(u)
      BY <1>1, <1>5 DEF Unmoved, Tasks
    <3> QED
      BY <1>1, <1>2, <2>1, <3>4, <3>5 DEF ServesOK, AddsUp
<1>6. CASE /\ locks # {}
           /\ LET l == First(locks)
              IN  scan' = [scan EXCEPT
                       ![t].locks = @ \ {l},
                       ![t].num_peer_connections = @ + Cardinality(PeersIn(l))]
           /\ UNCHANGED at
  <2> DEFINE l == First(locks)
  <2>1. l \in locks /\ l \in PeerLocks(s)
    BY <1>1, <1>6, FirstIn
  <2>2. /\ at'[t] = "len" /\ scan'[t].locks = locks \ {l}
        /\ scan'[t].num_peer_connections =
               scan[t].num_peer_connections + Cardinality(PeersIn(l))
        /\ scan'[t].num_sending = scan[t].num_sending
        /\ scan'[t].num_not_sending = scan[t].num_not_sending
    BY <1>1, <1>6 DEF Scans
  <2>3. \A u \in Requests \ {t} : Unmoved(u)
    BY <1>1, <1>6 DEF Unmoved
  <2> HIDE DEF l
  <2>4. PeersIn(l) = {p \in peers : PeerLock(s, p) = l}
    BY <2>1, PeersInShard
  <2>5. Cardinality(Passed(s, locks \ {l}, peers)) =
            Cardinality(Passed(s, locks, peers)) + Cardinality(PeersIn(l))
    BY <1>3, <2>1, <2>4, PassedNext
  <2>6. NumPassed(t, PeersOf(call[t].session))' = NumPassed(t, peers) + Cardinality(PeersIn(l))
    BY <1>1, <1>4, <2>2, <2>5 DEF NumPassed, Passed, PeerLock
  <2>7. Counted(t, NumPassed(t, PeersOf(call[t].session)), 0, 0)'
    BY <1>2, <2>2, <2>6 DEF Counted
  <2> QED
    BY <1>1, <1>2, <2>2, <2>7, <2>3 DEF ServesOK, CountsOK, AddsUp
<1> QED
  BY <1>5, <1>6 DEF StatsLen

LEMMA StatsTallyServes ==
    ASSUME ServiceInv, NEW t \in Requests, StatsTally(t)
    PROVE  ServesOK(t)' /\ \A u \in Requests \ {t} : Unmoved(u)
<1> DEFINE s == call[t].session
           locks == scan[t].locks
           l == First(locks)
           sending == {p \in PeersIn(l) : peer_connections[l[1]][p].sending}
           not_sending == PeersIn(l) \ sending
<1> USE DEF ServiceInv
<1>1. /\ at[t] = "tally" /\ at' = at /\ call' = call /\ answer' = answer
      /\ peer_connections' = peer_connections /\ locks \subseteq PeerLocks(s)
      /\ scan[t] \in Scans /\ scan \in [Requests -> Scans]
  BY DEF StatsTally, Executes, Inv, TypeOK, RequestTypeOK, LockDiscipline,
         RequestDataOK, dataVars
<1>2. /\ Counted(t, Cardinality(PeersOf(s)), NumPassed(t, Sending(s)), NumPassed(t, NotSending(s)))
      /\ AddsUp(answer[t])
  BY <1>1 DEF ServesOK, CountsOK
<1>3. l \in locks /\ l \in PeerLocks(s)
  BY <1>1, FirstIn DEF StatsTally
<1>4. /\ scan'[t].locks = locks \ {l}
      /\ scan'[t].num_peer_connections = scan[t].num_peer_connections
      /\ scan'[t].num_sending = scan[t].num_sending + Cardinality(sending)
      /\ scan'[t].num_not_sending = scan[t].num_not_sending + Cardinality(not_sending)
      /\ \A u \in Requests \ {t} : scan'[u] = scan[u]
  BY <1>1 DEF StatsTally, Scans
<1>5. /\ sending = {p \in Sending(s) : PeerLock(s, p) = l}
      /\ not_sending = {p \in NotSending(s) : PeerLock(s, p) = l}
  BY <1>3, PeersInShard
<1>6. /\ PeersOf(call[t].session)' = PeersOf(s)
      /\ Sending(call[t].session)' = Sending(s) /\ NotSending(call[t].session)' = NotSending(s)
      /\ Sending(s) \in SUBSET PeerConnectionIds /\ NotSending(s) \in SUBSET PeerConnectionIds
  BY <1>1, SetsOfPeers DEF PeersOf, Sending, NotSending
<1> HIDE DEF l, sending, not_sending
<1>7. /\ Cardinality(Passed(s, locks \ {l}, Sending(s))) =
             NumPassed(t, Sending(s)) + Cardinality(sending)
      /\ Cardinality(Passed(s, locks \ {l}, NotSending(s))) =
             NumPassed(t, NotSending(s)) + Cardinality(not_sending)
  BY <1>3, <1>5, <1>6, PassedNext DEF NumPassed
<1>8. /\ NumPassed(t, Sending(call[t].session))' = NumPassed(t, Sending(s)) + Cardinality(sending)
      /\ NumPassed(t, NotSending(call[t].session))' =
             NumPassed(t, NotSending(s)) + Cardinality(not_sending)
  BY <1>1, <1>4, <1>6, <1>7 DEF NumPassed, Passed, PeerLock
<1>9. CountsOK(t)'
  BY <1>1, <1>2, <1>4, <1>6, <1>8 DEF CountsOK, Counted
<1>10. \A u \in Requests \ {t} : Unmoved(u)
  BY <1>1, <1>4 DEF Unmoved
<1> QED
  BY <1>1, <1>2, <1>9, <1>10 DEF ServesOK, AddsUp

\* The peer connections that get_stats answers for: all of them, sending or not.
LEMMA StatsAreThose ==
    ASSUME ServiceInv, NEW t \in Requests, at[t] = "tally", scan[t].locks = {}
    PROVE  LET s == call[t].session
           IN  /\ Counted(t, Cardinality(PeersOf(s)), Cardinality(Sending(s)),
                             Cardinality(NotSending(s)))
               /\ Cardinality(Sending(s)) + Cardinality(NotSending(s)) = Cardinality(PeersOf(s))
<1> DEFINE s == call[t].session
<1>1. Counted(t, Cardinality(PeersOf(s)), NumPassed(t, Sending(s)), NumPassed(t, NotSending(s)))
  BY DEF ServiceInv, ServesOK, CountsOK
<1>2. NumPassed(t, Sending(s)) = Cardinality(Sending(s))
      /\ NumPassed(t, NotSending(s)) = Cardinality(NotSending(s))
  <2>1. Passed(s, scan[t].locks, Sending(s)) = Sending(s)
        /\ Passed(s, scan[t].locks, NotSending(s)) = NotSending(s)
    BY SetsOfPeers, PassedEnds
  <2> QED
    BY <2>1 DEF NumPassed
<1>3. IsFiniteSet(PeersOf(s)) /\ PeersOf(s) \cap Sending(s) = Sending(s)
  BY SetsOfPeers, DataAssumption, FS_Subset DEF DataAssumption
<1>4. /\ Cardinality(NotSending(s)) = Cardinality(PeersOf(s)) - Cardinality(Sending(s))
      /\ Cardinality(PeersOf(s)) \in Nat /\ Cardinality(Sending(s)) \in Nat
  BY <1>3, SetsOfPeers, FS_Difference, FS_Subset, FS_CardinalityType DEF NotSending
<1> QED
  BY <1>1, <1>2, <1>4

LEMMA StatsReplyServes ==
    ASSUME ServiceInv, NEW t \in Requests, StatsReply(t)
    PROVE  ServesOK(t)' /\ \A u \in Requests \ {t} : Unmoved(u)
<1> DEFINE reply == [status |-> "ok",
                     num_peer_connections |-> scan[t].num_peer_connections,
                     num_sending |-> scan[t].num_sending,
                     num_not_sending |-> scan[t].num_not_sending]
<1>1. AddsUp(reply)
  BY StatsAreThose DEF StatsReply, Executes, Counted, AddsUp
<1>2. Finish(t, reply)
  BY DEF StatsReply
<1> HIDE DEF reply
<1> QED
  BY <1>1, <1>2, Finished DEF ServiceInv

\* The handlers but for get_stats.
LEMMA OthersServe ==
    ASSUME ServiceInv, NEW t \in Requests, Handle(t),
           ~GetStats(t), ~StatsLen(t), ~StatsTally(t), ~StatsReply(t)
    PROVE  ServesOK(t)' /\ \A u \in Requests \ {t} : Unmoved(u)
<1> DEFINE Goal == ServesOK(t)' /\ \A u \in Requests \ {t} : Unmoved(u)
<1> USE DEF ServiceInv
<1>1. \A status : Finish(t, Reply(status)) => Goal
  BY Finished, ReplyAddsUp
<1>2. ASSUME at[t] \notin {"len", "tally"}, UNCHANGED <<call, answer>>,
             NEW place \in {"insert", "peer", "past", "await", "print", "begin"},
             at' = [at EXCEPT ![t] = place], NothingCounted(t)
      PROVE  Goal
  BY <1>2, Moved
<1>0. UNCHANGED scan => NothingCounted(t)
  BY DEF NothingCounted
<1> SUFFICES Goal
  OBVIOUS
<1> HIDE DEF Goal
<1>3. CASE NewSession(t)
  BY <1>0, <1>1, <1>2, <1>3 DEF NewSession, Executes
<1>4. CASE InsertSession(t)
  BY <1>1, <1>4 DEF InsertSession
<1>5. CASE StartSession(t) \/ StopSession(t)
  BY <1>1, <1>5 DEF StartSession, StopSession
<1>6. CASE LookupSession(t)
  BY <1>0, <1>1, <1>2, <1>6 DEF LookupSession, Executes
<1>7. CASE CreatePeerConnection(t)
  BY <1>0, <1>1, <1>2, <1>7 DEF CreatePeerConnection, Executes
<1>8. CASE AddPeerConnection(t) \/ Observer(t)
  BY <1>1, <1>8 DEF AddPeerConnection, Observer
<1>9. CASE GetTransceivers(t)
  BY <1>1, <1>9 DEF GetTransceivers
<1>10. CASE CallWebRTC(t)
  BY <1>0, <1>1, <1>2, <1>10 DEF CallWebRTC, AwaitWebRTC, Executes
<1>11. CASE ResumeRequest(t)
  BY <1>1, <1>11 DEF ResumeRequest
<1>12. CASE PrintShard(t) \/ PrintLen(t) \/ PrintEnd(t)
  <2>1. at[t] = "print" /\ UNCHANGED <<call, answer>>
        /\ \E place \in {"print", "begin"} : at' = [at EXCEPT ![t] = place]
    BY <1>12 DEF PrintShard, PrintLen, PrintEnd, Executes, Inv, TypeOK, Tasks
  <2>2. NothingCounted(t)
    BY <1>12 DEF PrintShard, PrintLen, PrintEnd, NothingCounted, Inv, TypeOK,
                 RequestTypeOK, Scans
  <2> QED
    BY <1>2, <2>1, <2>2
<1>13. CASE LockStdout(t)
  BY <1>0, <1>2, <1>13 DEF LockStdout, Executes
<1>14. CASE FindTrackPeer(t)
  BY <1>0, <1>1, <1>2, <1>14 DEF FindTrackPeer, Executes
<1>15. CASE PrintPast(t)
  BY <1>0, <1>1, <1>2, <1>15 DEF PrintPast, AwaitWebRTC, Executes
<1> QED
  BY <1>3, <1>4, <1>5, <1>6, <1>7, <1>8, <1>9, <1>10, <1>11, <1>12, <1>13, <1>14, <1>15
  DEF Handle, Goal

-----------------------------------------------------------------------------
\* Only a registered session has peer connections: a step changes those of one
\* session at most, which stays registered.
LEMMA RegisteredChange ==
    ASSUME OnlyRegistered, NEW s \in SessionIds, sessions'[s] # None,
           \A x \in SessionIds \ {s} :
               sessions'[x] = sessions[x] /\ peer_connections'[x] = peer_connections[x]
    PROVE  OnlyRegistered'
BY DEF OnlyRegistered

LEMMA DataUnchanged ==
    ASSUME OnlyRegistered, UNCHANGED <<sessions, peer_connections>>
    PROVE  OnlyRegistered'
BY DEF OnlyRegistered

LEMMA SessionStepRegistered ==
    ASSUME ServiceInv, NEW t \in Requests,
           InsertSession(t) \/ StartSession(t) \/ StopSession(t)
    PROVE  OnlyRegistered'
<1> DEFINE s == call[t].session
<1> USE DEF ServiceInv
<1>1. s \in SessionIds /\ call[t] \in Calls /\ RequestDataOK(t)
  BY Executing, OpTypes DEF StartSession, StopSession, InsertSession, SessionOps, AllOps
<1>2. CASE UNCHANGED <<sessions, peer_connections>>
  BY <1>2, DataUnchanged
<1>3. CASE InsertSession(t)
  <2>1. call[t].op = "create_session"
    BY <1>3 DEF InsertSession, Executes
  <2>2. Born(t) \in Births
    BY <1>1, <2>1, DataAssumption
    DEF Born, Births, Inv, TypeOK, RequestTypeOK, RequestDataOK, DataAssumption
  <2>3. NewSessionOf(Born(t), call[t]) \in Sessions
    BY <1>1, <2>1, <2>2, CallTypes DEF NewSessionOf, Sessions, SessionStates
  <2>4. sessions' = [sessions EXCEPT ![s] = NewSessionOf(Born(t), call[t])]
        /\ peer_connections' = [peer_connections EXCEPT ![s] = NoPeerConnections]
    BY <1>3 DEF InsertSession
  <2>5. sessions'[s] # None
    BY <1>1, <2>3, <2>4, NoneAssumption DEF Inv, TypeOK, DataTypeOK
  <2>6. \A x \in SessionIds \ {s} :
            sessions'[x] = sessions[x] /\ peer_connections'[x] = peer_connections[x]
    BY <1>1, <2>4 DEF Inv, TypeOK, DataTypeOK
  <2> QED
    BY <1>1, <2>5, <2>6, RegisteredChange
<1>4. CASE /\ sessions[s] # None
           /\ \E state \in SessionStates : sessions' = [sessions EXCEPT ![s].state = state]
           /\ peer_connections' = peer_connections
  <2>1. PICK state \in SessionStates : sessions' = [sessions EXCEPT ![s].state = state]
    BY <1>4
  <2> DEFINE new == [sessions[s] EXCEPT !.state = state]
  <2>2. sessions' = [sessions EXCEPT ![s] = new]
    BY <2>1
  <2>3. new \in Sessions
    BY <1>1, <1>4 DEF Inv, TypeOK, DataTypeOK, Sessions
  <2> HIDE DEF new
  <2>4. sessions'[s] # None
    BY <1>1, <2>2, <2>3, NoneAssumption DEF Inv, TypeOK, DataTypeOK
  <2>5. \A x \in SessionIds \ {s} : sessions'[x] = sessions[x]
    BY <1>1, <2>2 DEF Inv, TypeOK, DataTypeOK
  <2> QED
    BY <1>1, <1>4, <2>4, <2>5, RegisteredChange
<1> QED
  BY <1>2, <1>3, <1>4 DEF StartSession, StopSession, SessionStates

LEMMA PeerStepRegistered ==
    ASSUME ServiceInv, NEW s \in SessionIds, sessions[s] # None, sessions' = sessions,
           \A x \in SessionIds \ {s} : peer_connections'[x] = peer_connections[x]
    PROVE  OnlyRegistered'
BY RegisteredChange DEF ServiceInv

LEMMA PeersStayWithSessions == ServiceInv /\ [Next]_vars => OnlyRegistered'
<1> SUFFICES ASSUME ServiceInv, [Next]_vars
             PROVE  OnlyRegistered'
  OBVIOUS
<1> USE DEF ServiceInv
<1>1. CASE UNCHANGED <<sessions, peer_connections>>
  BY <1>1, DataUnchanged
<1>2. ASSUME NEW t \in Requests, InsertSession(t) \/ StartSession(t) \/ StopSession(t)
      PROVE  OnlyRegistered'
  BY <1>2, SessionStepRegistered
<1>3. ASSUME NEW t \in Requests, AddPeerConnection(t) \/ Observer(t)
      PROVE  OnlyRegistered'
  <2> DEFINE s == call[t].session
  <2>1. s \in SessionIds /\ sessions[s] # None
    BY <1>3, Executing DEF AddPeerConnection, Observer, Executes, AllOps, PeerOps,
                           RequestDataOK, ServesPeer
  <2>2. sessions' = sessions /\ \A x \in SessionIds \ {s} : peer_connections'[x] = peer_connections[x]
    BY <1>3, <2>1 DEF AddPeerConnection, InsertPeer, Observer, Inv, TypeOK, DataTypeOK
  <2> QED
    BY <2>1, <2>2, PeerStepRegistered
<1>4. CASE ExportStats
  <2> DEFINE s == cursor.session
  <2>1. MetricsGuardsOK /\ cursor \in Cursors /\ at[Metrics] = "resume"
    BY <1>4, MetricsPlace DEF ExportStats, MetricsAt
  <2>2. s \in SessionIds /\ sessions[s] # None
    BY <2>1 DEF MetricsGuardsOK, Registered, Cursors
  <2>3. sessions' = sessions /\ \A x \in SessionIds \ {s} : peer_connections'[x] = peer_connections[x]
    BY <1>4, <2>2 DEF ExportStats, Inv, TypeOK, DataTypeOK
  <2> QED
    BY <2>2, <2>3, PeerStepRegistered
<1>5. CASE \E t \in Requests : Handle(t)
  <2> SUFFICES ASSUME NEW t \in Requests, Handle(t)
               PROVE  OnlyRegistered'
    BY <1>5
  <2>1. CASE NewSession(t) \/ GetStats(t) \/ StatsLen(t) \/ StatsTally(t) \/ StatsReply(t)
    BY <1>1, <2>1 DEF NewSession, GetStats, StatsLen, StatsTally, StatsReply, dataVars
  <2>2. CASE LookupSession(t) \/ CreatePeerConnection(t) \/ GetTransceivers(t)
             \/ CallWebRTC(t) \/ ResumeRequest(t)
    BY <1>1, <2>2
    DEF LookupSession, CreatePeerConnection, GetTransceivers, CallWebRTC, ResumeRequest, dataVars
  <2>3. CASE \/ LockStdout(t) \/ PrintShard(t) \/ PrintLen(t) \/ PrintEnd(t)
             \/ FindTrackPeer(t) \/ PrintPast(t)
    BY <1>1, <2>3
    DEF LockStdout, PrintShard, PrintLen, PrintEnd, FindTrackPeer, PrintPast, dataVars
  <2> QED
    BY <1>2, <1>3, <2>1, <2>2, <2>3 DEF Handle
<1>6. CASE MetricsShard \/ MetricsSession \/ MetricsPeerShard \/ MetricsPeer \/ MetricsLen
  BY <1>1, <1>6
  DEF MetricsShard, MetricsSession, MetricsPeerShard, MetricsPeer, MetricsLen, dataVars
<1>7. CASE MetricsTick \/ (\E t \in Tasks : Run(t) \/ Callback(t)) \/ (\E t \in Requests : Call(t))
  BY <1>1, <1>7 DEF MetricsTick, Run, Callback, Call, dataVars
<1>8. CASE UNCHANGED vars
  BY <1>1, <1>8 DEF vars, dataVars
<1> QED
  BY <1>4, <1>5, <1>6, <1>7, <1>8 DEF Next, Collect

-----------------------------------------------------------------------------
LEMMA CallServes ==
    ASSUME ServiceInv, NEW t \in Requests, Call(t)
    PROVE  ServesOK(t)' /\ \A u \in Requests \ {t} : Unmoved(u)
<1> USE DEF ServiceInv
<1>1. PICK c \in Calls :
          /\ call' = [call EXCEPT ![t] = c]
          /\ at' = [at EXCEPT ![t] = Entry(c.op)]
          /\ scan' = [scan EXCEPT ![t].shards =
                          IF c.op = "add_track" THEN SessionShards ELSE {}]
          /\ answer' = [answer EXCEPT ![t] = Reply("none")]
          /\ at[t] = "idle"
  BY DEF Call
<1>2. Entry(c.op) \in {"new", "stdout", "begin"}
  BY DEF Entry
<1>3. /\ at'[t] \in {"new", "stdout", "begin"}
      /\ answer'[t] = Reply("none")
      /\ scan'[t].num_peer_connections = scan[t].num_peer_connections
      /\ scan'[t].num_sending = scan[t].num_sending
      /\ scan'[t].num_not_sending = scan[t].num_not_sending
  BY <1>1, <1>2 DEF Inv, TypeOK, RequestTypeOK, Scans, Tasks
<1>4. ServesOK(t)'
  BY <1>1, <1>3, ReplyAddsUp DEF ServesOK, CountsOK, Counted, AddsUp
<1>5. \A u \in Requests \ {t} : Unmoved(u)
  BY <1>1 DEF Unmoved, Inv, TypeOK, RequestTypeOK, Tasks
<1> QED
  BY <1>4, <1>5

LEMMA HandleServes ==
    ASSUME ServiceInv, NEW t \in Requests, Handle(t)
    PROVE  ServesOK(t)' /\ \A u \in Requests \ {t} : Unmoved(u)
BY GetStatsServes, StatsLenServes, StatsTallyServes, StatsReplyServes, OthersServe

\* The collector and the scheduler leave what the requests count and answer.
LEMMA CollectUnmoved ==
    ASSUME Inv, Collect \/ MetricsTick \/ UNCHANGED vars \/ \E t \in Tasks : Run(t)
    PROVE  \A u \in Requests : Unmoved(u)
<1>1. Metrics \notin Requests /\ \A u \in Requests : u \in Tasks
  BY ServerAssumption DEF ServerAssumption, Tasks
<1>2. UNCHANGED requestVars /\ \A u \in Requests : at'[u] = at[u]
  <2>1. CASE MetricsShard \/ MetricsSession \/ MetricsPeerShard
    BY <1>1, <2>1 DEF MetricsShard, MetricsSession, MetricsPeerShard, MetricsTo,
                      Suspend, Inv, TypeOK
  <2>2. CASE MetricsPeer \/ ExportStats \/ MetricsLen \/ MetricsTick
    BY <1>1, <2>2 DEF MetricsPeer, ExportStats, MetricsLen, MetricsTick, MetricsTo,
                      Suspend, Inv, TypeOK
  <2>3. CASE UNCHANGED vars \/ \E t \in Tasks : Run(t)
    BY <2>3 DEF vars, Run, requestVars
  <2> QED
    BY <2>1, <2>2, <2>3 DEF Collect
<1> QED
  BY <1>2 DEF requestVars, Unmoved

LEMMA CallbackServes ==
    ASSUME ServiceInv, NEW t \in Requests, Callback(t)
    PROVE  ServesOK(t)' /\ \A u \in Requests \ {t} : Unmoved(u)
<1>1. /\ at[t] = "await" /\ at' = [at EXCEPT ![t] = "resume"]
      /\ UNCHANGED <<call, scan, answer>>
  BY DEF Callback
<1>2. NothingCounted(t)
  BY <1>1 DEF NothingCounted
<1> QED
  BY <1>1, <1>2, Moved DEF ServiceInv

LEMMA CallbackOfMetrics ==
    ASSUME Inv, Callback(Metrics)
    PROVE  \A u \in Requests : Unmoved(u)
BY ServerAssumption DEF ServerAssumption, Callback, Unmoved, Inv, TypeOK, Tasks

LEMMA ServiceInvInductive == ServiceInv /\ [Next]_vars => ServiceInv'
<1> SUFFICES ASSUME ServiceInv, [Next]_vars
             PROVE  ServiceInv'
  OBVIOUS
<1>1. Inv' /\ OnlyRegistered'
  BY InvInductive, PeersStayWithSessions DEF ServiceInv
<1>2. ASSUME NEW u \in Requests, Unmoved(u)
      PROVE  ServesOK(u)'
  <2>1. CASE Next
    <3>1. CASE UsedDataKept
      BY <1>2, <3>1, ServesFrame DEF ServiceInv
    <3>2. CASE UNCHANGED vars
      BY <1>2, <3>2, NothingChanges, ServesFrame DEF ServiceInv, vars, dataVars
    <3> QED
      BY <2>1, <3>1, <3>2, NextKeeps DEF ServiceInv
  <2>2. CASE UNCHANGED vars
    BY <1>2, <2>2, NothingChanges, ServesFrame DEF ServiceInv, vars, dataVars
  <2> QED
    BY <2>1, <2>2
<1>3. \A u \in Requests : ServesOK(u)'
  <2>1. ASSUME NEW t \in Requests, Call(t) \/ Handle(t) \/ Callback(t)
        PROVE  \A u \in Requests : ServesOK(u)'
    BY <1>2, <2>1, CallServes, HandleServes, CallbackServes
  <2>2. CASE Collect \/ MetricsTick \/ UNCHANGED vars \/ \E t \in Tasks : Run(t)
    BY <1>2, <2>2, CollectUnmoved DEF ServiceInv
  <2>3. CASE Callback(Metrics)
    BY <1>2, <2>3, CallbackOfMetrics DEF ServiceInv
  <2> QED
    BY <2>1, <2>2, <2>3 DEF Next, Tasks
<1> QED
  BY <1>1, <1>3 DEF ServiceInv

LEMMA ServiceInvInit == Init => ServiceInv
<1> SUFFICES ASSUME Init
             PROVE  ServiceInv
  OBVIOUS
<1>1. Inv
  BY InitInv
<1>2. OnlyRegistered
  BY DEF Init, OnlyRegistered
<1>3. ASSUME NEW t \in Requests
      PROVE  ServesOK(t)
  <2>1. at[t] = "idle" /\ call[t] = NoCall /\ scan[t] = NoScan /\ answer[t] = Reply("none")
    BY ServerAssumption DEF Init, ServerAssumption, Tasks
  <2> QED
    BY <2>1, ReplyAddsUp DEF ServesOK, CountsOK, Counted, NoScan
<1> QED
  BY <1>1, <1>2, <1>3 DEF ServiceInv

LEMMA ServiceInvHolds == Spec => []ServiceInv
BY ServiceInvInit, ServiceInvInductive, PTL DEF Spec

\* The three numbers in an answer to get_stats belong to one moment: those that
\* send and those that do not add up to the number of peer connections.
THEOREM StatsConsistent == Spec => []StatsSnapshot
<1>1. ServiceInv => StatsSnapshot
  BY DEF ServiceInv, ServesOK, AddsUp, StatsSnapshot
<1> QED
  BY <1>1, ServiceInvHolds, PTL

-----------------------------------------------------------------------------
(***************************************************************************)
(* LoadTestServer implements SessionService: each call takes effect in the *)
(* step of its handler that answers it.                                    *)
(***************************************************************************)
LEMMA SharedDefinitions ==
    /\ Service!Calls = Calls /\ Service!NoCall = NoCall
    /\ \A status : Service!Reply(status) = Reply(status)
    /\ Service!WebRTCOps = WebRTCOps
    /\ Service!NoPeerConnections = NoPeerConnections
    /\ Service!NewPeerConnection = NewPeerConnection
    /\ \A birth, c : Service!NewSessionOf(birth, c) = NewSessionOf(birth, c)
<1>1. Service!WebRTCOps = WebRTCOps
  BY DEF Service!WebRTCOps, WebRTCOps
<1>2. Service!PeerOps = PeerOps /\ Service!SessionOps = SessionOps
  BY <1>1 DEF Service!PeerOps, PeerOps, Service!SessionOps, SessionOps
<1>3. Service!Calls = Calls
  BY <1>2 DEF Service!Calls, Calls
<1>4. Service!NoCall = NoCall /\ \A status : Service!Reply(status) = Reply(status)
  BY DEF Service!NoCall, NoCall, Service!Reply, Reply
<1>5. /\ Service!NoPeerConnections = NoPeerConnections
      /\ Service!NewPeerConnection = NewPeerConnection
      /\ \A birth, c : Service!NewSessionOf(birth, c) = NewSessionOf(birth, c)
  BY DEF Service!NoPeerConnections, NoPeerConnections, Service!NewPeerConnection,
         NewPeerConnection, Service!NewSessionOf, NewSessionOf
<1> QED
  BY <1>1, <1>3, <1>4, <1>5

LEMMA FinishAnswers ==
    ASSUME NEW t, NEW reply, Finish(t, reply)
    PROVE  Service!Answer(t, reply)
BY SharedDefinitions DEF Finish, Service!Answer

LEMMA FinishRefuses ==
    ASSUME NEW t, Finish(t, Reply("error")), UNCHANGED <<sessions, peer_connections>>
    PROVE  Service!Refuse(t)
BY FinishAnswers, SharedDefinitions DEF Service!Refuse

\* The steps that a client cannot see.
Hidden == UNCHANGED <<sessions, peer_connections, call, created, answer>>

LEMMA ServiceInitial == Init => Service!Init
BY SharedDefinitions DEF Init, Service!Init

LEMMA CallReceives ==
    ASSUME ServiceInv, NEW t \in Requests, Call(t)
    PROVE  Service!Receive(t)
<1>1. call[t] = NoCall
  BY DEF Call, ServiceInv, ServesOK
<1>2. \E c \in Calls :
          /\ c.op = "create_session" => created[t] < MaxCreates[t]
          /\ call' = [call EXCEPT ![t] = c]
          /\ created' = [created EXCEPT ![t] =
                             IF c.op = "create_session" THEN @ + 1 ELSE @]
  BY DEF Call
<1>3. answer' = [answer EXCEPT ![t] = Reply("none")] /\ UNCHANGED <<sessions, peer_connections>>
  BY DEF Call, dataVars
<1> QED
  BY <1>1, <1>2, <1>3, SharedDefinitions DEF Service!Receive

LEMMA NewSessionServes ==
    ASSUME NEW t \in Requests, NewSession(t)
    PROVE  Hidden \/ Service!CreateSession(t)
<1>1. call[t].op = "create_session" /\ UNCHANGED <<sessions, peer_connections>>
  BY DEF NewSession, Executes
<1>2. CASE Finish(t, Reply("error"))
  BY <1>1, <1>2, FinishRefuses DEF Service!CreateSession, Service!Serves
<1>3. CASE UNCHANGED <<call, created, answer>>
  BY <1>1, <1>3 DEF Hidden
<1> QED
  BY <1>2, <1>3 DEF NewSession

LEMMA InsertSessionServes ==
    ASSUME NEW t \in Requests, InsertSession(t)
    PROVE  Service!CreateSession(t)
<1>1. /\ call[t].op = "create_session"
      /\ sessions' = [sessions EXCEPT ![call[t].session] = NewSessionOf(<<t, created[t]>>, call[t])]
      /\ peer_connections' = [peer_connections EXCEPT ![call[t].session] = NoPeerConnections]
  BY DEF InsertSession, Executes, Born
<1>2. Service!Answer(t, Service!Reply("ok"))
  BY FinishAnswers, SharedDefinitions DEF InsertSession
<1> QED
  BY <1>1, <1>2, SharedDefinitions DEF Service!CreateSession, Service!Serves

LEMMA StartSessionServes ==
    ASSUME NEW t \in Requests, StartSession(t)
    PROVE  Service!StartSession(t)
<1> DEFINE s == call[t].session
<1>1. call[t].op = "start_session" /\ UNCHANGED peer_connections
  BY DEF StartSession, Executes
<1>2. CASE /\ sessions[s] # None /\ sessions[s].state = "Created"
           /\ sessions' = [sessions EXCEPT ![s].state = "Started"]
           /\ Finish(t, Reply("ok"))
  <2>1. Service!Answer(t, Service!Reply("ok"))
    BY <1>2, FinishAnswers, SharedDefinitions
  <2> QED
    BY <1>1, <1>2, <2>1
    DEF Service!StartSession, Service!Advance, Service!InState, Service!Serves
<1>3. CASE /\ ~(sessions[s] # None /\ sessions[s].state = "Created")
           /\ Finish(t, Reply("error")) /\ UNCHANGED sessions
  <2>1. Service!Refuse(t)
    BY <1>1, <1>3, FinishRefuses
  <2> QED
    BY <1>1, <1>3, <2>1
    DEF Service!StartSession, Service!Advance, Service!InState, Service!Serves
<1> QED
  BY <1>2, <1>3 DEF StartSession

LEMMA StopSessionServes ==
    ASSUME NEW t \in Requests, StopSession(t)
    PROVE  Service!StopSession(t)
<1> DEFINE s == call[t].session
<1>1. call[t].op = "stop_session" /\ UNCHANGED peer_connections
  BY DEF StopSession, Executes
<1>2. CASE /\ sessions[s] # None /\ sessions[s].state = "Started"
           /\ sessions' = [sessions EXCEPT ![s].state = "Stopped"]
           /\ Finish(t, Reply("ok"))
  <2>1. Service!Answer(t, Service!Reply("ok"))
    BY <1>2, FinishAnswers, SharedDefinitions
  <2> QED
    BY <1>1, <1>2, <2>1
    DEF Service!StopSession, Service!Advance, Service!InState, Service!Serves
<1>3. CASE /\ ~(sessions[s] # None /\ sessions[s].state = "Started")
           /\ Finish(t, Reply("error")) /\ UNCHANGED sessions
  <2>1. Service!Refuse(t)
    BY <1>1, <1>3, FinishRefuses
  <2> QED
    BY <1>1, <1>3, <2>1
    DEF Service!StopSession, Service!Advance, Service!InState, Service!Serves
<1> QED
  BY <1>2, <1>3 DEF StopSession

\* get_stats takes effect when it is answered, not when it counts.
LEMMA GetStatsAnswers ==
    ASSUME ServiceInv, NEW t \in Requests, GetStats(t) \/ StatsReply(t)
    PROVE  Hidden \/ Service!GetStats(t)
<1> DEFINE s == call[t].session
<1>1. call[t].op = "get_stats" /\ UNCHANGED <<sessions, peer_connections>>
  BY DEF GetStats, StatsReply, Executes, dataVars
<1>2. CASE GetStats(t)
  <2>1. CASE sessions[s] = None /\ Finish(t, Reply("error"))
    BY <1>1, <2>1, FinishRefuses DEF Service!GetStats, Service!Serves
  <2>2. CASE UNCHANGED <<call, created, answer>>
    BY <1>1, <2>2 DEF Hidden
  <2> QED
    BY <1>2, <2>1, <2>2 DEF GetStats
<1>3. CASE StatsReply(t)
  <2>1. at[t] = "tally" /\ scan[t].locks = {} /\ sessions[s] # None
    BY <1>3 DEF StatsReply, Executes, ServiceInv, Inv, LockDiscipline, RequestDataOK
  <2> DEFINE reply == [status |-> "ok",
                       num_peer_connections |-> Cardinality(PeersOf(s)),
                       num_sending |-> Cardinality(Sending(s)),
                       num_not_sending |-> Cardinality(NotSending(s))]
  <2>2. Finish(t, reply)
    BY <1>3, <2>1, StatsAreThose DEF StatsReply, Counted
  <2>3. Service!Answer(t, reply)
    BY <2>2, FinishAnswers
  <2>4. Service!Serves(t, {"get_stats"})
    BY <1>1 DEF Service!Serves
  <2> DEFINE peers == {p \in PeerConnectionIds : peer_connections[s][p] # None}
             sending == {p \in peers : peer_connections[s][p].sending}
             tallies == [status |-> "ok",
                         num_peer_connections |-> Service!Cardinality(peers),
                         num_sending |-> Service!Cardinality(sending),
                         num_not_sending |-> Service!Cardinality(peers \ sending)]
  <2>5. /\ peers = PeersOf(s) /\ sending = Sending(s)
        /\ peers \ sending = NotSending(s)
    BY DEF PeersOf, Sending, NotSending
  <2>6. \A S : Service!Cardinality(S) = Cardinality(S)
    BY DEF Service!Cardinality, Cardinality
  <2> HIDE DEF peers, sending
  <2>7. tallies = reply
    BY <2>5, <2>6
  <2>8. Service!Answer(t, tallies)
    BY <2>3, <2>7
  <2> HIDE DEF tallies
  <2> QED
    BY <1>1, <2>1, <2>4, <2>8 DEF Service!GetStats, peers, sending, tallies
<1> QED
  BY <1>2, <1>3

-----------------------------------------------------------------------------
\* A call on a session that does not exist is refused.
LEMMA LookupSessionServes ==
    ASSUME ServiceInv, NEW t \in Requests, LookupSession(t)
    PROVE  \/ Hidden \/ Service!CreatePeerConnection(t) \/ Service!Observer(t)
           \/ Service!UsePeerConnection(t)
<1> DEFINE s == call[t].session
           p == call[t].peer
<1>1. call[t].op \in PeerOps /\ UNCHANGED <<sessions, peer_connections>>
  BY DEF LookupSession, Executes, dataVars
<1>2. CASE sessions[s] = None /\ Finish(t, Reply("error"))
  <2>1. Service!Refuse(t)
    BY <1>1, <1>2, FinishRefuses
  <2>2. CASE call[t].op = "create_peer_connection"
    BY <2>1, <2>2 DEF Service!CreatePeerConnection, Service!Serves
  <2>3. CASE call[t].op = "observer"
    <3>1. s \in SessionIds /\ p \in PeerConnectionIds
      BY <2>3, Executing, CallTypes DEF LookupSession, PeerOps, AllOps, ServiceInv
    <3>2. peer_connections[s][p] = None
      BY <1>2, <3>1 DEF ServiceInv, OnlyRegistered, NoPeerConnections
    <3> QED
      BY <2>1, <2>3, <3>2 DEF Service!Observer, Service!Serves
  <2>4. CASE call[t].op \in WebRTCOps \cup {"get_transceivers"}
    BY <2>1, <2>4, SharedDefinitions DEF Service!UsePeerConnection, Service!Serves
  <2> QED
    BY <1>1, <2>2, <2>3, <2>4 DEF PeerOps
<1>3. CASE UNCHANGED <<call, created, answer>>
  BY <1>1, <1>3 DEF Hidden
<1> QED
  BY <1>2, <1>3 DEF LookupSession

\* create_peer_connection takes effect with the insert, or not at all.
LEMMA CreatePeerConnectionServes ==
    ASSUME NEW t \in Requests, CreatePeerConnection(t)
    PROVE  Hidden \/ Service!CreatePeerConnection(t)
<1>1. call[t].op = "create_peer_connection" /\ UNCHANGED <<sessions, peer_connections>>
  BY DEF CreatePeerConnection, Executes, dataVars
<1>2. CASE Finish(t, Reply("error"))
  BY <1>1, <1>2, FinishRefuses DEF Service!CreatePeerConnection, Service!Serves
<1>3. CASE UNCHANGED <<call, created, answer>>
  BY <1>1, <1>3 DEF Hidden
<1> QED
  BY <1>2, <1>3 DEF CreatePeerConnection

LEMMA AddPeerConnectionServes ==
    ASSUME ServiceInv, NEW t \in Requests, AddPeerConnection(t)
    PROVE  Service!CreatePeerConnection(t)
<1>1. /\ call[t].op = "create_peer_connection" /\ sessions' = sessions
      /\ peer_connections' = [peer_connections EXCEPT
                                  ![call[t].session][call[t].peer] = NewPeerConnection]
  BY DEF AddPeerConnection, InsertPeer, Executes
<1>2. sessions[call[t].session] # None
  BY DEF AddPeerConnection, Executes, ServesPeer, RequestDataOK, LockDiscipline, Inv, ServiceInv
<1>3. Service!Answer(t, Service!Reply("ok"))
  BY FinishAnswers, SharedDefinitions DEF AddPeerConnection
<1> QED
  BY <1>1, <1>2, <1>3, SharedDefinitions DEF Service!CreatePeerConnection, Service!Serves

LEMMA ObserverServes ==
    ASSUME NEW t \in Requests, Observer(t)
    PROVE  Service!Observer(t)
<1> DEFINE pc == peer_connections[call[t].session][call[t].peer]
<1>1. call[t].op = "observer" /\ sessions' = sessions
  BY DEF Observer, Executes
<1>2. CASE /\ pc # None /\ ~pc.observed
           /\ peer_connections' = [peer_connections EXCEPT
                                       ![call[t].session][call[t].peer].observed = TRUE]
           /\ Finish(t, Reply("ok"))
  <2>1. Service!Answer(t, Service!Reply("ok"))
    BY <1>2, FinishAnswers, SharedDefinitions
  <2> QED
    BY <1>1, <1>2, <2>1 DEF Service!Observer, Service!Serves
<1>3. CASE /\ ~(pc # None /\ ~pc.observed)
           /\ Finish(t, Reply("error")) /\ UNCHANGED peer_connections
  <2>1. Service!Refuse(t)
    BY <1>1, <1>3, FinishRefuses
  <2> QED
    BY <1>1, <1>3, <2>1 DEF Service!Observer, Service!Serves
<1> QED
  BY <1>2, <1>3 DEF Observer

\* The rpcs that use a peer connection are answered for one that is registered,
\* also when they were suspended in libwebrtc meanwhile.
LEMMA UsesServe ==
    ASSUME ServiceInv, NEW t \in Requests,
           \/ GetTransceivers(t) \/ CallWebRTC(t) \/ ResumeRequest(t)
           \/ FindTrackPeer(t) \/ PrintPast(t)
    PROVE  Hidden \/ Service!UsePeerConnection(t)
<1> DEFINE pc == peer_connections[call[t].session][call[t].peer]
<1>1. UNCHANGED <<sessions, peer_connections>>
  BY DEF GetTransceivers, CallWebRTC, ResumeRequest, FindTrackPeer, PrintPast, dataVars
<1>2. Service!Serves(t, Service!WebRTCOps \cup {"get_transceivers"})
  BY SharedDefinitions
  DEF GetTransceivers, CallWebRTC, ResumeRequest, FindTrackPeer, PrintPast, Executes,
      WebRTCOps, Service!Serves
<1>3. CASE Finish(t, Reply("error"))
  BY <1>1, <1>2, <1>3, FinishRefuses DEF Service!UsePeerConnection
<1>4. CASE pc # None /\ Finish(t, Reply("ok"))
  <2>1. Service!Answer(t, Service!Reply("ok"))
    BY <1>4, FinishAnswers, SharedDefinitions
  <2> QED
    BY <1>1, <1>2, <1>4, <2>1 DEF Service!UsePeerConnection
<1>5. CASE call[t].op \in WebRTCOps /\ Finish(t, Reply("cancelled"))
  <2>1. Service!Answer(t, Service!Reply("cancelled"))
    BY <1>5, FinishAnswers, SharedDefinitions
  <2> QED
    BY <1>1, <1>2, <1>5, <2>1, SharedDefinitions DEF Service!UsePeerConnection
<1>6. CASE UNCHANGED <<call, created, answer>>
  BY <1>1, <1>6 DEF Hidden
<1>7. CASE GetTransceivers(t)
  BY <1>3, <1>4, <1>7 DEF GetTransceivers
<1>8. CASE CallWebRTC(t)
  BY <1>3, <1>6, <1>8 DEF CallWebRTC, AwaitWebRTC
<1>9. CASE ResumeRequest(t)
  <2>1. pc # None /\ call[t].op \in WebRTCOps
    BY <1>9 DEF ResumeRequest, Executes, RequestDataOK, UsesPeer, LockDiscipline, Inv, ServiceInv
  <2> QED
    BY <1>3, <1>4, <1>5, <1>9, <2>1 DEF ResumeRequest
<1>10. CASE FindTrackPeer(t)
  BY <1>3, <1>6, <1>10 DEF FindTrackPeer
<1>11. CASE PrintPast(t)
  BY <1>3, <1>6, <1>11 DEF PrintPast, AwaitWebRTC
<1> QED
  BY <1>7, <1>8, <1>9, <1>10, <1>11

LEMMA CountsAreHidden ==
    ASSUME NEW t \in Requests,
           \/ StatsLen(t) \/ StatsTally(t)
           \/ LockStdout(t) \/ PrintShard(t) \/ PrintLen(t) \/ PrintEnd(t)
    PROVE  Hidden
BY DEF StatsLen, StatsTally, LockStdout, PrintShard, PrintLen, PrintEnd, Hidden, dataVars

\* The collector writes to a peer connection that is still registered.
LEMMA ExportStatsPolls ==
    ASSUME ServiceInv, ExportStats
    PROVE  \/ Hidden
           \/ \E s \in SessionIds, p \in PeerConnectionIds : Service!PollState(s, p)
<1> DEFINE s == cursor.session
           p == cursor.peer
<1>1. UNCHANGED <<sessions, call, created, answer>>
  BY DEF ExportStats, requestVars
<1>2. CASE UNCHANGED peer_connections
  BY <1>1, <1>2 DEF Hidden
<1>3. CASE \E b \in BOOLEAN :
               peer_connections' = [peer_connections EXCEPT ![s][p].sending = b]
  <2>1. MetricsGuardsOK /\ cursor \in Cursors /\ at[Metrics] = "resume"
    BY MetricsPlace DEF ServiceInv, ExportStats, MetricsAt
  <2>2. s \in SessionIds
    BY <2>1 DEF MetricsGuardsOK, Cursors
  <2>3. \E n : p \in PeersIn(<<s, n>>)
    BY <2>1 DEF MetricsGuardsOK
  <2>4. p \in PeerConnectionIds /\ peer_connections[s][p] # None
    BY <2>3 DEF PeersIn
  <2>5. Service!PollState(s, p)
    BY <1>1, <1>3, <2>4 DEF Service!PollState
  <2> QED
    BY <2>2, <2>4, <2>5
<1> QED
  BY <1>2, <1>3 DEF ExportStats

LEMMA SchedulingHidden ==
    ASSUME \/ MetricsShard \/ MetricsSession \/ MetricsPeerShard \/ MetricsPeer
           \/ MetricsLen \/ MetricsTick \/ UNCHANGED vars
           \/ \E t \in Tasks : Run(t) \/ Callback(t)
    PROVE  Hidden
BY DEF MetricsShard, MetricsSession, MetricsPeerShard, MetricsPeer, MetricsLen,
       MetricsTick, Run, Callback, Hidden, vars, dataVars, requestVars

LEMMA ServiceStep == ServiceInv /\ [Next]_vars => [Service!Next]_(Service!vars)
<1> SUFFICES ASSUME ServiceInv, [Next]_vars
             PROVE  [Service!Next]_(Service!vars)
  OBVIOUS
<1>1. ASSUME Hidden
      PROVE  UNCHANGED Service!vars
  BY <1>1 DEF Hidden, Service!vars
<1>2. ASSUME NEW t \in Requests, Call(t)
      PROVE  Service!Next
  BY <1>2, CallReceives DEF Service!Next
<1>3. ASSUME NEW t \in Requests, Handle(t)
      PROVE  Hidden \/ Service!Next
  <2>1. CASE NewSession(t) \/ InsertSession(t)
    BY <2>1, NewSessionServes, InsertSessionServes DEF Service!Next
  <2>2. CASE StartSession(t) \/ StopSession(t)
    BY <2>2, StartSessionServes, StopSessionServes DEF Service!Next
  <2>3. CASE GetStats(t) \/ StatsReply(t)
    BY <2>3, GetStatsAnswers DEF Service!Next
  <2>4. CASE LookupSession(t)
    BY <2>4, LookupSessionServes DEF Service!Next
  <2>5. CASE CreatePeerConnection(t) \/ AddPeerConnection(t)
    BY <2>5, CreatePeerConnectionServes, AddPeerConnectionServes DEF Service!Next
  <2>6. CASE Observer(t)
    BY <2>6, ObserverServes DEF Service!Next
  <2>7. CASE \/ GetTransceivers(t) \/ CallWebRTC(t) \/ ResumeRequest(t)
             \/ FindTrackPeer(t) \/ PrintPast(t)
    BY <2>7, UsesServe DEF Service!Next
  <2>8. CASE \/ StatsLen(t) \/ StatsTally(t)
             \/ LockStdout(t) \/ PrintShard(t) \/ PrintLen(t) \/ PrintEnd(t)
    BY <2>8, CountsAreHidden
  <2> QED
    BY <1>3, <2>1, <2>2, <2>3, <2>4, <2>5, <2>6, <2>7, <2>8 DEF Handle
<1>4. CASE ExportStats
  BY <1>1, <1>4, ExportStatsPolls DEF Service!Next
<1>5. CASE \/ MetricsShard \/ MetricsSession \/ MetricsPeerShard \/ MetricsPeer
           \/ MetricsLen \/ MetricsTick \/ UNCHANGED vars
           \/ \E t \in Tasks : Run(t) \/ Callback(t)
  BY <1>1, <1>5, SchedulingHidden
<1> QED
  BY <1>1, <1>2, <1>3, <1>4, <1>5 DEF Next, Collect

\* The server implements SessionService: the handlers of handlers.rs, which share the two maps and are
\* suspended with guards on them, answer as if each call were served at once.
THEOREM Linearizable == Spec => LinearizableService
<1>1. Spec => Service!Init /\ [][Service!Next]_(Service!vars)
  BY ServiceInitial, ServiceStep, ServiceInvHolds, PTL DEF Spec
<1> QED
  BY <1>1 DEF LinearizableService, Service!Spec

=============================================================================
