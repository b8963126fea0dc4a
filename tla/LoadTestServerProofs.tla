------------------------ MODULE LoadTestServerProofs ------------------------
(***************************************************************************)
(* Proofs about LoadTestServer, for any number of clients, sessions, peer  *)
(* connections, shards and workers.                                        *)
(*                                                                         *)
(* The inductive invariant is Inv.  A step of a task changes its own       *)
(* places, guards and local state, which the lemmas RequestStep, Finishing *)
(* and MetricsStep are about; what it does to the shared data must keep    *)
(* what the other tasks have looked up, which is what DataKept says and    *)
(* what the guards are for.                                                *)
(***************************************************************************)
EXTENDS LoadTestServerProperties, FiniteSetTheorems, TLAPS

Inv == TypeOK /\ LockDiscipline

-----------------------------------------------------------------------------
LEMMA FirstIn == ASSUME NEW S, S # {} PROVE First(S) \in S
BY DEF First

LEMMA CardinalityOfPeers ==
    ASSUME NEW P, P \subseteq PeerConnectionIds
    PROVE  Cardinality(P) \in Nat
BY DataAssumption, FS_Subset, FS_CardinalityType DEF DataAssumption

\* What a step leaves of the data to the other tasks: sessions stay registered,
\* and so do the peer connections of a session somebody has a guard for.
DataKept ==
    /\ \A s \in SessionIds : sessions[s] # None => sessions'[s] # None
    /\ \A s \in SessionIds, p \in PeerConnectionIds :
        peer_connections[s][p] # None =>
            \/ peer_connections'[s][p] # None
            \/ \A h \in hold : h.lock # SessionLock(s)

LEMMA CallTypes ==
    ASSUME NEW c \in Calls \cup {NoCall}
    PROVE  /\ c.op \in AllOps \cup {"none"}
           /\ c.op \in AllOps => c \in Calls /\ c.session \in SessionIds
           /\ c.op \in PeerOps => c.peer \in PeerConnectionIds
           /\ c.op = "create_session" => c.polling \in Pollings /\ c.log_level \in LogLevels
BY DataAssumption DEF DataAssumption, Calls, NoCall, AllOps, PeerOps, SessionOps, WebRTCOps

\* A task that takes no part in a step keeps what it has.
LEMMA RequestFrame ==
    ASSUME Inv, DataKept, NEW t \in Requests,
           UNCHANGED <<at[t], call[t], created[t], scan[t], GuardsOf(t)>>
    PROVE  RequestGuardsOK(t)' /\ RequestDataOK(t)'
<1> DEFINE s == call[t].session
           p == call[t].peer
<1>1. RequestGuardsOK(t) /\ RequestDataOK(t) /\ call[t] \in Calls \cup {NoCall}
  BY DEF Inv, LockDiscipline, TypeOK, RequestTypeOK
<1>2. \A n \in SessionShards : Registered(n) \subseteq Registered(n)'
  BY DEF Registered, DataKept
<1>3. RequestGuardsOK(t)'
  BY <1>1, <1>2 DEF RequestGuardsOK, RequestGuards, ServesPeer, UsesPeer, SessionRef, SessionRefMut, PeerRef
<1>4. ServesPeer(t) \/ UsesPeer(t) \/ at[t] \in {"len", "tally"} => s \in SessionIds
  BY <1>1, CallTypes DEF RequestDataOK, AllOps
<1>5. ASSUME UsesPeer(t)
      PROVE  peer_connections'[s][p] # None
  <2>1. Guard(t, SessionRef(t)) \in hold
    BY <1>1, <1>5 DEF RequestGuardsOK, RequestGuards, GuardsOf, ServesPeer, UsesPeer
  <2>2. Guard(t, SessionRef(t)).lock = SessionLock(s)
    BY DEF Guard, SessionRef, Get
  <2>3. s \in SessionIds /\ p \in PeerConnectionIds
    BY <1>1, <1>5, CallTypes DEF RequestDataOK, AllOps
  <2> QED BY <1>1, <1>5, <2>1, <2>2, <2>3 DEF DataKept, RequestDataOK
<1>6. ServesPeer(t)' = ServesPeer(t) /\ UsesPeer(t)' = UsesPeer(t)
  BY DEF ServesPeer, UsesPeer
<1>7. RequestDataOK(t)'
  BY <1>1, <1>4, <1>5, <1>6 DEF RequestDataOK, DataKept, PeerLocks
<1> QED BY <1>3, <1>7

LEMMA MetricsFrame ==
    ASSUME Inv, DataKept, UNCHANGED <<at[Metrics], cursor, GuardsOf(Metrics)>>
    PROVE  MetricsGuardsOK' /\ CursorOK'
<1> DEFINE s == cursor.session
<1>1. MetricsGuardsOK /\ CursorOK /\ cursor \in Cursors
  BY DEF Inv, LockDiscipline, TypeOK
<1>2. CursorOK'
  BY <1>1 DEF CursorOK
<1>3. \A n : Registered(n) \subseteq Registered(n)'
  BY DEF Registered, DataKept
<1>4. ASSUME NEW n \in PeerShards, s \in SessionIds,
             InShard(SessionShard[s]) \in hold
      PROVE  PeersIn(<<s, n>>) \subseteq PeersIn(<<s, n>>)'
  <2>1. InShard(SessionShard[s]).lock = SessionLock(s)
    BY DEF InShard, Guard, Get, SessionLock
  <2> QED BY <1>4, <2>1 DEF PeersIn, DataKept
<1>5. ASSUME at[Metrics] \in {"peers", "await", "resume"}
      PROVE  \E n \in PeerShards \ cursor.peer_shards :
                   /\ GuardsOf(Metrics)' = {InShard(SessionShard[s]), InPeerShard(s, n)}
                   /\ cursor.peers \subseteq PeersIn(<<s, n>>)'
                   /\ at[Metrics] # "peers" => cursor.peer \in PeersIn(<<s, n>>)' \ cursor.peers
  <2>1. PICK n \in PeerShards \ cursor.peer_shards :
                   /\ GuardsOf(Metrics) = {InShard(SessionShard[s]), InPeerShard(s, n)}
                   /\ cursor.peers \subseteq PeersIn(<<s, n>>)
                   /\ at[Metrics] # "peers" => cursor.peer \in PeersIn(<<s, n>>) \ cursor.peers
    BY <1>1, <1>5 DEF MetricsGuardsOK
  <2>2. s \in SessionIds /\ InShard(SessionShard[s]) \in hold
    BY <1>1, <1>5, <2>1 DEF MetricsGuardsOK, Cursors, GuardsOf
  <2>3. PeersIn(<<s, n>>) \subseteq PeersIn(<<s, n>>)'
    BY <1>4, <2>2
  <2> QED BY <2>1, <2>3
<1>6. MetricsGuardsOK'
  BY <1>1, <1>3, <1>5 DEF MetricsGuardsOK, InShard, InPeerShard
<1> QED BY <1>2, <1>6

\* Guards: those of one task change, and shards stay exclusive.
LEMMA GrantedExclusion ==
    ASSUME Exclusion, TypeOK, NEW t,
           NEW r \in [lock : Locks, mode : {"read", "write"}], Granted(r),
           hold' \subseteq hold \cup {Guard(t, r)}
    PROVE  Exclusion'
<1>1. \A h \in hold : h.lock = r.lock => h.mode = "read" /\ r.mode = "read"
  BY DEF Granted, Conflict, TypeOK
<1>2. Guard(t, r).lock = r.lock /\ Guard(t, r).mode = r.mode
  BY DEF Guard
<1> SUFFICES ASSUME NEW h1 \in hold', NEW h2 \in hold', h1.lock = h2.lock, h1 # h2
             PROVE  h1.mode = "read" /\ h2.mode = "read"
  BY DEF Exclusion
<1> QED BY <1>1, <1>2 DEF Exclusion

LEMMA DroppedExclusion ==
    ASSUME Exclusion, hold' \subseteq hold
    PROVE  Exclusion'
BY DEF Exclusion

-----------------------------------------------------------------------------
\* A request that takes a step leaves what the others have.
LEMMA RequestStep ==
    ASSUME Inv, DataKept, DataTypeOK', RequestTypeOK', Exclusion',
           NEW t \in Requests, NEW place \in RequestPlaces,
           at' = [at EXCEPT ![t] = place],
           \A u \in Requests \ {t} :
               call'[u] = call[u] /\ created'[u] = created[u] /\ scan'[u] = scan[u],
           \A u \in Tasks \ {t} : GuardsOf(u)' = GuardsOf(u),
           hold' \subseteq [task : Tasks, lock : Locks, mode : {"read", "write"}],
           running' \subseteq Tasks,
           cursor' = cursor,
           RequestGuardsOK(t)' /\ RequestDataOK(t)'
    PROVE  Inv'
<1>1. Metrics # t /\ t \in Tasks /\ Metrics \in Tasks
  BY ServerAssumption DEF ServerAssumption, Tasks
<1>2. TypeOK'
  BY <1>1 DEF Inv, TypeOK, Tasks
<1>3. ASSUME NEW u \in Requests
      PROVE  RequestGuardsOK(u)' /\ RequestDataOK(u)'
  <2>1. CASE u = t
    BY <2>1
  <2>2. CASE u # t
    <3>1. UNCHANGED <<at[u], call[u], created[u], scan[u], GuardsOf(u)>>
      BY <2>2 DEF Inv, TypeOK, Tasks
    <3> QED BY <3>1, RequestFrame
  <2> QED BY <2>1, <2>2
<1>4. MetricsGuardsOK' /\ CursorOK'
  <2>1. UNCHANGED <<at[Metrics], cursor, GuardsOf(Metrics)>>
    BY <1>1 DEF Inv, TypeOK
  <2> QED BY <2>1, MetricsFrame
<1> QED BY <1>2, <1>3, <1>4 DEF Inv, LockDiscipline

\* A handler that returns.
LEMMA Finishing ==
    ASSUME Inv, DataKept, DataTypeOK', NEW t \in Requests, NEW reply \in Replies,
           Finish(t, reply)
    PROVE  Inv'
<1> USE DEF Finish
<1>1. t \in Tasks
  BY DEF Tasks
<1>2. NoScan \in Scans
  BY DEF NoScan, Scans
<1>3. RequestTypeOK'
  BY <1>2 DEF Inv, TypeOK, RequestTypeOK
<1>4. Exclusion'
  BY DroppedExclusion DEF Inv, LockDiscipline
<1>5. \A u \in Tasks \ {t} : GuardsOf(u)' = GuardsOf(u)
  BY DEF GuardsOf
<1>6. GuardsOf(t)' = {}
  BY DEF GuardsOf
<1>7. at'[t] = "idle" /\ call'[t] = NoCall /\ scan'[t].locks = {}
  BY <1>1 DEF Inv, TypeOK, RequestTypeOK, NoScan
<1>8. RequestGuardsOK(t)' /\ RequestDataOK(t)'
  BY <1>6, <1>7 DEF RequestGuardsOK, RequestGuards, RequestDataOK, ServesPeer, UsesPeer, NoCall
<1>9. "idle" \in RequestPlaces /\ running' \subseteq Tasks
      /\ hold' \subseteq [task : Tasks, lock : Locks, mode : {"read", "write"}]
  BY DEF RequestPlaces, Inv, TypeOK
<1>10. \A u \in Requests \ {t} :
           call'[u] = call[u] /\ created'[u] = created[u] /\ scan'[u] = scan[u]
  BY DEF Inv, TypeOK, RequestTypeOK
<1> QED BY <1>3, <1>4, <1>5, <1>8, <1>9, <1>10, RequestStep

\* A step of a handler that takes no guard and drops none.
LEMMA RequestMoves ==
    ASSUME Inv, DataKept, DataTypeOK', RequestTypeOK',
           NEW t \in Requests, NEW place \in RequestPlaces,
           at' = [at EXCEPT ![t] = place],
           \A u \in Requests \ {t} :
               call'[u] = call[u] /\ created'[u] = created[u] /\ scan'[u] = scan[u],
           UNCHANGED <<hold, cursor>>,
           running' \subseteq Tasks,
           RequestGuardsOK(t)' /\ RequestDataOK(t)'
    PROVE  Inv'
<1>1. \A u \in Tasks \ {t} : GuardsOf(u)' = GuardsOf(u)
  BY DEF GuardsOf
<1>2. Exclusion' /\ hold' \subseteq [task : Tasks, lock : Locks, mode : {"read", "write"}]
  BY DEF Exclusion, Inv, TypeOK, LockDiscipline
<1> QED BY <1>1, <1>2, RequestStep

\* A step of a handler that takes the guard of request r.
LEMMA RequestTakes ==
    ASSUME Inv, DataKept, DataTypeOK', RequestTypeOK',
           NEW t \in Requests, NEW place \in RequestPlaces,
           NEW r \in [lock : Locks, mode : {"read", "write"}], Granted(r),
           NEW old \in SUBSET GuardsOf(t),
           hold' = (hold \ old) \cup {Guard(t, r)},
           at' = [at EXCEPT ![t] = place],
           \A u \in Requests \ {t} :
               call'[u] = call[u] /\ created'[u] = created[u] /\ scan'[u] = scan[u],
           UNCHANGED cursor,
           running' \subseteq Tasks,
           GuardsOf(t)' = (GuardsOf(t) \ old) \cup {Guard(t, r)}
               => RequestGuardsOK(t)' /\ RequestDataOK(t)'
    PROVE  Inv'
<1>1. Guard(t, r).task = t /\ t \in Tasks
  BY DEF Guard, Tasks
<1>2. \A u \in Tasks \ {t} : GuardsOf(u)' = GuardsOf(u)
  BY <1>1 DEF GuardsOf
<1>3. GuardsOf(t)' = (GuardsOf(t) \ old) \cup {Guard(t, r)}
  BY <1>1 DEF GuardsOf
<1>4. Exclusion'
  BY GrantedExclusion, hold' \subseteq hold \cup {Guard(t, r)} DEF Inv, LockDiscipline
<1>5. Guard(t, r) \in [task : Tasks, lock : Locks, mode : {"read", "write"}]
  BY <1>1 DEF Guard
<1>6. hold' \subseteq [task : Tasks, lock : Locks, mode : {"read", "write"}]
  BY <1>5 DEF Inv, TypeOK
<1> QED BY <1>2, <1>3, <1>4, <1>6, RequestStep

-----------------------------------------------------------------------------
LEMMA SameData ==
    ASSUME Inv, UNCHANGED <<sessions, peer_connections>>
    PROVE  /\ DataKept
           /\ UNCHANGED <<log_level, producers>> => DataTypeOK'
BY DEF DataKept, Inv, TypeOK, DataTypeOK

\* What a handler that is at work knows of its call.
LEMMA Executing ==
    ASSUME Inv, NEW t \in Requests, NEW place, NEW ops \in SUBSET AllOps,
           Executes(t, place, ops)
    PROVE  /\ t \in Tasks /\ t # Metrics
           /\ at[t] = place /\ call[t].op \in ops
           /\ call[t] \in Calls /\ call[t].session \in SessionIds
           /\ call[t].op \in PeerOps => call[t].peer \in PeerConnectionIds
           /\ RequestGuardsOK(t) /\ RequestDataOK(t)
           /\ scan[t] \in Scans
<1>1. call[t] \in Calls \cup {NoCall} /\ call[t].op \in ops
  BY DEF Executes, Inv, TypeOK, RequestTypeOK
<1> QED
  BY <1>1, CallTypes, ServerAssumption
  DEF Executes, Inv, TypeOK, RequestTypeOK, LockDiscipline, Tasks, ServerAssumption

LEMMA RefTypes ==
    ASSUME NEW t, call[t].session \in SessionIds
    PROVE  LET Asked == [lock : Locks, mode : {"read", "write"}]
           IN  /\ SessionRef(t) \in Asked
               /\ SessionRefMut(t) \in Asked
               /\ call[t].peer \in PeerConnectionIds => PeerRef(t) \in Asked
               /\ StdoutRef \in Asked
BY DEF SessionRef, SessionRefMut, PeerRef, StdoutRef, StdoutLock, Get, GetMut, SessionLock, PeerLock,
       Locks, SessionLocks, SessionShards, PeerShards

LEMMA ReplyTypes == \A status \in {"none", "ok", "error", "cancelled"} : Reply(status) \in Replies
BY DEF Reply, Replies

LEMMA OpTypes == /\ WebRTCOps \subseteq PeerOps
                 /\ SessionOps \subseteq AllOps /\ PeerOps \subseteq AllOps
                 /\ "create_session" \in AllOps
                 /\ SessionOps \cap PeerOps = {} /\ "create_session" \notin PeerOps
                 /\ "create_session" \notin SessionOps
BY DEF WebRTCOps, PeerOps, SessionOps, AllOps

-----------------------------------------------------------------------------
\* create_session.
LEMMA NewSessionInv ==
    ASSUME Inv, NEW t \in Requests, NewSession(t)
    PROVE  Inv'
<1> USE DEF NewSession
<1>1. Executes(t, "new", {"create_session"})
  OBVIOUS
<1>2. at[t] = "new" /\ call[t].op = "create_session" /\ call[t] \in Calls \cup {NoCall} /\ RequestDataOK(t) /\ RequestGuardsOK(t)
  BY <1>1, Executing, OpTypes
<1>3. Born(t) \in Births /\ call[t].log_level \in LogLevels
  BY <1>2, CallTypes, DataAssumption
  DEF Born, Births, Inv, TypeOK, RequestTypeOK, RequestDataOK, DataAssumption
<1>4. DataTypeOK' /\ DataKept
  BY <1>3, SameData DEF Inv, TypeOK, DataTypeOK
<1>5. CASE Finish(t, Reply("error"))
  BY <1>4, <1>5, ReplyTypes, Finishing
<1>6. CASE /\ at' = [at EXCEPT ![t] = "insert"]
           /\ UNCHANGED <<call, created, scan, answer, running, hold, cursor>>
  <2>1. at'[t] = "insert"
    BY <1>6 DEF Inv, TypeOK, Tasks
  <2>2. RequestGuardsOK(t)' /\ RequestDataOK(t)'
    BY <1>2, <1>6, <2>1, OpTypes
    DEF RequestGuardsOK, RequestGuards, RequestDataOK, ServesPeer, UsesPeer, GuardsOf
  <2>3. RequestTypeOK' /\ running' \subseteq Tasks /\ "insert" \in RequestPlaces
    BY <1>6 DEF Inv, TypeOK, RequestTypeOK, RequestPlaces
  <2> QED BY <1>4, <1>6, <2>2, <2>3, RequestMoves
<1> QED BY <1>5, <1>6

LEMMA InsertSessionInv ==
    ASSUME Inv, NEW t \in Requests, InsertSession(t)
    PROVE  Inv'
<1> USE DEF InsertSession
<1> DEFINE s == call[t].session
<1>1. Executes(t, "insert", {"create_session"})
  OBVIOUS
<1>2. /\ s \in SessionIds /\ call[t] \in Calls \cup {NoCall}
      /\ call[t].op = "create_session" /\ RequestDataOK(t)
  BY <1>1, Executing, OpTypes
<1>3. NewSessionOf(Born(t), call[t]) \in Sessions
  <2>1. Born(t) \in Births
    BY <1>2, DataAssumption
    DEF Born, Births, Inv, TypeOK, RequestTypeOK, RequestDataOK, DataAssumption
  <2> QED BY <1>2, <2>1, CallTypes DEF NewSessionOf, Sessions, SessionStates
<1>4. NoPeerConnections \in [PeerConnectionIds -> PeerConnections \cup {None}]
  BY DEF NoPeerConnections
<1>5. DataTypeOK'
  BY <1>2, <1>3, <1>4 DEF Inv, TypeOK, DataTypeOK
<1>6. \A h \in hold : h.lock # SessionLock(s)
  BY DEF Granted, Conflict, SessionInsert, GetMut
<1>7. NewSessionOf(Born(t), call[t]) # None
  BY <1>3, NoneAssumption
<1>8. DataKept
  BY <1>2, <1>6, <1>7 DEF DataKept, Inv, TypeOK, DataTypeOK
<1> QED BY <1>5, <1>8, ReplyTypes, Finishing

-----------------------------------------------------------------------------
\* start_session, stop_session and get_stats.
LEMMA StartSessionInv ==
    ASSUME Inv, NEW t \in Requests, StartSession(t)
    PROVE  Inv'
<1> DEFINE s == call[t].session
<1>1. s \in SessionIds
  BY Executing, OpTypes DEF StartSession, SessionOps
<1>2. CASE /\ sessions[s] # None /\ sessions[s].state = "Created"
           /\ sessions' = [sessions EXCEPT ![s].state = "Started"]
           /\ Finish(t, Reply("ok"))
           /\ UNCHANGED <<peer_connections, log_level, producers>>
  <2>1. sessions[s] \in Sessions /\ sessions'[s] \in Sessions
    BY <1>1, <1>2 DEF Inv, TypeOK, DataTypeOK, Sessions, SessionStates
  <2>2. DataTypeOK' /\ DataKept
    BY <1>1, <1>2, <2>1, NoneAssumption DEF DataKept, Inv, TypeOK, DataTypeOK
  <2> QED BY <1>2, <2>2, ReplyTypes, Finishing
<1>3. CASE /\ Finish(t, Reply("error"))
           /\ UNCHANGED <<sessions, peer_connections, log_level, producers>>
  BY <1>3, SameData, ReplyTypes, Finishing
<1> QED BY <1>2, <1>3 DEF StartSession

LEMMA StopSessionInv ==
    ASSUME Inv, NEW t \in Requests, StopSession(t)
    PROVE  Inv'
<1> DEFINE s == call[t].session
<1>1. s \in SessionIds
  BY Executing, OpTypes DEF StopSession, SessionOps
<1>2. CASE /\ sessions[s] # None /\ sessions[s].state = "Started"
           /\ sessions' = [sessions EXCEPT ![s].state = "Stopped"]
           /\ log_level' = "Error"
           /\ Finish(t, Reply("ok"))
           /\ UNCHANGED <<peer_connections, producers>>
  <2>1. sessions[s] \in Sessions /\ sessions'[s] \in Sessions
    BY <1>1, <1>2 DEF Inv, TypeOK, DataTypeOK, Sessions, SessionStates
  <2>2. DataTypeOK' /\ DataKept
    BY <1>1, <1>2, <2>1, NoneAssumption DEF DataKept, Inv, TypeOK, DataTypeOK
  <2> QED BY <1>2, <2>2, ReplyTypes, Finishing
<1>3. CASE /\ Finish(t, Reply("error"))
           /\ UNCHANGED <<sessions, peer_connections, log_level, producers>>
  BY <1>3, SameData, ReplyTypes, Finishing
<1> QED BY <1>2, <1>3 DEF StopSession

LEMMA GetStatsInv ==
    ASSUME Inv, NEW t \in Requests, GetStats(t)
    PROVE  Inv'
<1> DEFINE s == call[t].session
<1>1. Executes(t, "begin", {"get_stats"}) /\ {"get_stats"} \subseteq SessionOps
      /\ "get_stats" # "create_peer_connection"
  BY DEF GetStats, SessionOps
<1>2. /\ s \in SessionIds /\ call[t].op = "get_stats" /\ at[t] = "begin" /\ t \in Tasks
      /\ RequestGuardsOK(t) /\ RequestDataOK(t) /\ scan[t] \in Scans
  BY <1>1, Executing, OpTypes
<1>3. DataTypeOK' /\ DataKept
  BY SameData DEF GetStats, dataVars
<1>4. CASE Finish(t, Reply("error"))
  BY <1>3, <1>4, ReplyTypes, Finishing
<1>5. CASE /\ Granted(SessionRefMut(t))
           /\ sessions[s] # None
           /\ hold' = hold \cup {Guard(t, SessionRefMut(t))}
           /\ scan' = [scan EXCEPT ![t].locks = PeerLocks(s)]
           /\ at' = [at EXCEPT ![t] = "len"]
           /\ UNCHANGED <<sessions, call, created, answer, running, cursor>>
  <2>1. SessionRefMut(t) \in [lock : Locks, mode : {"read", "write"}]
    BY <1>2, RefTypes
  <2>2. at'[t] = "len" /\ scan'[t].locks = PeerLocks(s) /\ "len" \in RequestPlaces
    BY <1>2, <1>5 DEF Inv, TypeOK, RequestTypeOK, Scans, RequestPlaces
  <2>3. PeerLocks(s) \subseteq SessionIds \X PeerShards
    BY <1>2 DEF PeerLocks
  <2>4. RequestTypeOK' /\ running' \subseteq Tasks
    BY <1>2, <1>5, <2>3 DEF Inv, TypeOK, RequestTypeOK, Scans
  <2>5. GuardsOf(t) = {}
    BY <1>2 DEF RequestGuardsOK, RequestGuards, ServesPeer, UsesPeer
  <2>6. GuardsOf(t)' = (GuardsOf(t) \ {}) \cup {Guard(t, SessionRefMut(t))}
            => RequestGuardsOK(t)' /\ RequestDataOK(t)'
    BY <1>1, <1>2, <1>5, <2>2, <2>5, OpTypes
    DEF RequestGuardsOK, RequestGuards, RequestDataOK, ServesPeer, UsesPeer, SessionRefMut, PeerLocks
  <2>7. \A u \in Requests \ {t} :
             call'[u] = call[u] /\ created'[u] = created[u] /\ scan'[u] = scan[u]
    BY <1>5 DEF Inv, TypeOK, RequestTypeOK
  <2>8. hold' = (hold \ {}) \cup {Guard(t, SessionRefMut(t))}
    BY <1>5
  <2>9. {} \in SUBSET GuardsOf(t)
    OBVIOUS
  <2> QED BY <1>3, <1>5, <2>1, <2>2, <2>4, <2>6, <2>7, <2>8, <2>9, RequestTakes
<1> QED BY <1>4, <1>5 DEF GetStats, dataVars

\* The scans of get_stats and of add_track's print visit one more shard.
LEMMA ScanMoves ==
    ASSUME Inv, NEW t \in Requests, at[t] \in {"len", "tally", "print"},
           UNCHANGED <<dataVars, call, created, answer, running, hold, cursor>>,
           NEW place \in {"len", "tally", "print"}, at' = [at EXCEPT ![t] = place],
           at[t] = "print" <=> place = "print",
           NEW next \in Scans, scan' = [scan EXCEPT ![t] = next],
           next.locks \subseteq scan[t].locks
               \/ (place = "tally" /\ next.locks = PeerLocks(call[t].session))
    PROVE  Inv'
<1>1. RequestGuardsOK(t) /\ RequestDataOK(t) /\ t \in Tasks /\ place \in RequestPlaces
  BY DEF Inv, LockDiscipline, Tasks, RequestPlaces
<1>2. at'[t] = place /\ scan'[t] = next
  BY <1>1 DEF Inv, TypeOK, RequestTypeOK
<1>3. RequestTypeOK' /\ running' \subseteq Tasks
  BY DEF Inv, TypeOK, RequestTypeOK
<1>4. GuardsOf(t)' = GuardsOf(t) /\ \A n : Registered(n)' = Registered(n)
  BY DEF GuardsOf, Registered, dataVars
<1>5. RequestGuardsOK(t)'
  BY <1>1, <1>2, <1>4 DEF RequestGuardsOK, RequestGuards, ServesPeer, UsesPeer, SessionRefMut
<1>6. RequestDataOK(t)'
  BY <1>1, <1>2 DEF RequestDataOK, ServesPeer, UsesPeer, PeerLocks, dataVars
<1>7. \A u \in Requests \ {t} : scan'[u] = scan[u]
  BY DEF Inv, TypeOK, RequestTypeOK
<1>8. DataKept /\ DataTypeOK'
  BY SameData DEF dataVars
<1> QED BY <1>1, <1>3, <1>5, <1>6, <1>7, <1>8, RequestMoves

LEMMA ScanTypes ==
    ASSUME NEW sc \in Scans, NEW l, NEW a \in Nat, NEW b \in Nat
    PROVE  LET counted == [sc EXCEPT !.locks = @ \ {l}, !.num_peer_connections = @ + a]
               tallied == [sc EXCEPT !.locks = @ \ {l}, !.num_sending = @ + a,
                                     !.num_not_sending = @ + b]
           IN  /\ counted \in Scans /\ counted.locks \subseteq sc.locks
               /\ tallied \in Scans /\ tallied.locks \subseteq sc.locks
<1>1. sc.num_peer_connections + a \in Nat /\ sc.num_sending + a \in Nat
      /\ sc.num_not_sending + b \in Nat /\ sc.locks \ {l} \subseteq sc.locks
  BY DEF Scans
<1> QED BY <1>1 DEF Scans

LEMMA StatsLenInv ==
    ASSUME Inv, NEW t \in Requests, StatsLen(t)
    PROVE  Inv'
<1>1. Executes(t, "len", {"get_stats"}) /\ {"get_stats"} \in SUBSET AllOps
  BY DEF StatsLen, AllOps, SessionOps
<1>2. scan[t] \in Scans /\ at[t] = "len" /\ call[t].session \in SessionIds
      /\ t \in Tasks /\ scan \in [Requests -> Scans] /\ at \in [Tasks -> RequestPlaces \cup MetricsPlaces]
  BY <1>1, Executing DEF Inv, TypeOK, RequestTypeOK
<1>3. CASE /\ at' = [at EXCEPT ![t] = "tally"]
           /\ scan' = [scan EXCEPT ![t].locks = PeerLocks(call[t].session)]
  <2> DEFINE next == [scan[t] EXCEPT !.locks = PeerLocks(call[t].session)]
  <2>1. next \in Scans /\ next.locks = PeerLocks(call[t].session)
    BY <1>2 DEF Scans, PeerLocks
  <2>2. scan' = [scan EXCEPT ![t] = next]
    BY <1>2, <1>3
  <2> HIDE DEF next
  <2> QED BY <1>2, <1>3, <2>1, <2>2, ScanMoves DEF StatsLen
<1>4. ASSUME NEW l, at' = at,
             scan' = [scan EXCEPT ![t].locks = @ \ {l},
                         ![t].num_peer_connections = @ + Cardinality(PeersIn(l))]
      PROVE  Inv'
  <2> DEFINE next == [scan[t] EXCEPT !.locks = @ \ {l},
                          !.num_peer_connections = @ + Cardinality(PeersIn(l))]
  <2>1. next \in Scans /\ next.locks \subseteq scan[t].locks
    <3>1. Cardinality(PeersIn(l)) \in Nat
      BY CardinalityOfPeers DEF PeersIn
    <3> QED BY <1>2, <3>1, ScanTypes
  <2>2. scan' = [scan EXCEPT ![t] = next] /\ at' = [at EXCEPT ![t] = "len"]
    BY <1>2, <1>4
  <2> HIDE DEF next
  <2> QED BY <1>2, <1>4, <2>1, <2>2, ScanMoves DEF StatsLen
<1> QED BY <1>3, <1>4 DEF StatsLen

LEMMA StatsTallyInv ==
    ASSUME Inv, NEW t \in Requests, StatsTally(t)
    PROVE  Inv'
<1> DEFINE l == First(scan[t].locks)
           sending == {p \in PeersIn(l) : peer_connections[l[1]][p].sending}
           next == [scan[t] EXCEPT
                       !.locks = @ \ {l},
                       !.num_sending = @ + Cardinality(sending),
                       !.num_not_sending = @ + Cardinality(PeersIn(l) \ sending)]
<1>1. Executes(t, "tally", {"get_stats"}) /\ {"get_stats"} \in SUBSET AllOps
  BY DEF StatsTally, AllOps, SessionOps
<1>2. scan[t] \in Scans /\ at[t] = "tally" /\ t \in Tasks
      /\ scan \in [Requests -> Scans] /\ at \in [Tasks -> RequestPlaces \cup MetricsPlaces]
  BY <1>1, Executing DEF Inv, TypeOK, RequestTypeOK
<1>3. next \in Scans /\ next.locks \subseteq scan[t].locks
  <2>1. Cardinality(sending) \in Nat /\ Cardinality(PeersIn(l) \ sending) \in Nat
    <3>1. sending \subseteq PeerConnectionIds /\ PeersIn(l) \ sending \subseteq PeerConnectionIds
      BY DEF PeersIn
    <3> HIDE DEF sending
    <3> QED BY <3>1, CardinalityOfPeers
  <2> HIDE DEF sending, l
  <2> QED BY <1>2, <2>1, ScanTypes
<1>4. scan' = [scan EXCEPT ![t] = next] /\ at' = [at EXCEPT ![t] = "tally"]
  BY <1>2 DEF StatsTally
<1> HIDE DEF next
<1> QED BY <1>2, <1>3, <1>4, ScanMoves DEF StatsTally

LEMMA StatsReplyInv ==
    ASSUME Inv, NEW t \in Requests, StatsReply(t)
    PROVE  Inv'
<1> DEFINE reply == [status |-> "ok",
                     num_peer_connections |-> scan[t].num_peer_connections,
                     num_sending |-> scan[t].num_sending,
                     num_not_sending |-> scan[t].num_not_sending]
<1>1. reply \in Replies
  BY DEF Replies, Inv, TypeOK, RequestTypeOK, Scans
<1> HIDE DEF reply
<1>2. Finish(t, reply) /\ UNCHANGED dataVars
  BY DEF StatsReply, reply
<1> QED BY <1>1, <1>2, SameData, Finishing DEF dataVars

-----------------------------------------------------------------------------
\* The rpcs on a peer connection.
LEMMA LookupSessionInv ==
    ASSUME Inv, NEW t \in Requests, LookupSession(t)
    PROVE  Inv'
<1> DEFINE s == call[t].session
<1>1. Executes(t, "begin", PeerOps) /\ PeerOps \in SUBSET AllOps
  BY OpTypes DEF LookupSession
<1>2. /\ s \in SessionIds /\ call[t].op \in PeerOps /\ at[t] = "begin" /\ t \in Tasks
      /\ RequestGuardsOK(t) /\ RequestDataOK(t) /\ scan[t] \in Scans
  BY <1>1, Executing
<1>3. DataTypeOK' /\ DataKept
  BY SameData DEF LookupSession, dataVars
<1>4. CASE Finish(t, Reply("error"))
  BY <1>3, <1>4, ReplyTypes, Finishing
<1>5. CASE /\ Granted(SessionRef(t))
           /\ sessions[s] # None
           /\ KeepSessionRef(t)
           /\ at' = [at EXCEPT ![t] = "peer"]
           /\ UNCHANGED <<sessions, call, created, scan, answer, running, cursor>>
  <2>1. SessionRef(t) \in [lock : Locks, mode : {"read", "write"}]
    BY <1>2, RefTypes
  <2>2. at'[t] = "peer" /\ "peer" \in RequestPlaces
    BY <1>2, <1>5 DEF Inv, TypeOK, RequestPlaces
  <2>3. RequestTypeOK' /\ running' \subseteq Tasks
    BY <1>5 DEF Inv, TypeOK, RequestTypeOK
  <2>4. GuardsOf(t) = {}
    BY <1>2 DEF RequestGuardsOK, RequestGuards, ServesPeer, UsesPeer
  <2>5. GuardsOf(t)' = (GuardsOf(t) \ {}) \cup {Guard(t, SessionRef(t))}
            => RequestGuardsOK(t)' /\ RequestDataOK(t)'
    BY <1>2, <1>5, <2>2, <2>4, OpTypes
    DEF RequestGuardsOK, RequestGuards, RequestDataOK, ServesPeer, UsesPeer, SessionRef
  <2>6. hold' = (hold \ {}) \cup {Guard(t, SessionRef(t))} /\ {} \in SUBSET GuardsOf(t)
    BY <1>5 DEF KeepSessionRef
  <2> QED BY <1>3, <1>5, <2>1, <2>2, <2>3, <2>5, <2>6, RequestTakes
<1> QED BY <1>4, <1>5 DEF LookupSession, dataVars

LEMMA CreatePeerConnectionInv ==
    ASSUME Inv, NEW t \in Requests, CreatePeerConnection(t)
    PROVE  Inv'
<1>1. Executes(t, "peer", {"create_peer_connection"})
      /\ {"create_peer_connection"} \in SUBSET AllOps
      /\ "create_peer_connection" \in PeerOps
  BY DEF CreatePeerConnection, AllOps, PeerOps
<1>2. /\ call[t].op = "create_peer_connection" /\ at[t] = "peer" /\ t \in Tasks
      /\ RequestGuardsOK(t) /\ RequestDataOK(t)
  BY <1>1, Executing
<1>3. DataTypeOK' /\ DataKept
  BY SameData DEF CreatePeerConnection, dataVars
<1>4. CASE Finish(t, Reply("error"))
  BY <1>3, <1>4, ReplyTypes, Finishing
<1>5. CASE /\ at' = [at EXCEPT ![t] = "insert"]
           /\ UNCHANGED <<sessions, call, created, scan, answer, running, hold, cursor>>
  <2>1. at'[t] = "insert" /\ "insert" \in RequestPlaces
    BY <1>2, <1>5 DEF Inv, TypeOK, RequestPlaces
  <2>2. RequestGuardsOK(t)' /\ RequestDataOK(t)'
    BY <1>1, <1>2, <1>5, <2>1
    DEF RequestGuardsOK, RequestGuards, RequestDataOK, ServesPeer, UsesPeer, SessionRef, GuardsOf
  <2>3. RequestTypeOK' /\ running' \subseteq Tasks
    BY <1>5 DEF Inv, TypeOK, RequestTypeOK
  <2> QED BY <1>3, <1>5, <2>1, <2>2, <2>3, RequestMoves
<1> QED BY <1>4, <1>5 DEF CreatePeerConnection, dataVars

LEMMA NewPeerConnectionType == NewPeerConnection \in PeerConnections
BY DEF NewPeerConnection, PeerConnections

LEMMA AddPeerConnectionInv ==
    ASSUME Inv, NEW t \in Requests, AddPeerConnection(t)
    PROVE  Inv'
<1> DEFINE s == call[t].session
           p == call[t].peer
<1>1. Executes(t, "insert", {"create_peer_connection"})
      /\ {"create_peer_connection"} \in SUBSET AllOps
      /\ "create_peer_connection" \in PeerOps
  BY DEF AddPeerConnection, AllOps, PeerOps
<1>2. s \in SessionIds /\ p \in PeerConnectionIds
  BY <1>1, Executing
<1>3. /\ peer_connections' = [peer_connections EXCEPT ![s][p] = NewPeerConnection]
      /\ UNCHANGED <<sessions, log_level, producers>>
  BY DEF AddPeerConnection, InsertPeer
<1>4. DataTypeOK' /\ DataKept
  BY <1>2, <1>3, NewPeerConnectionType, NoneAssumption
  DEF DataKept, Inv, TypeOK, DataTypeOK
<1> QED BY <1>4, ReplyTypes, Finishing DEF AddPeerConnection

LEMMA ObserverInv ==
    ASSUME Inv, NEW t \in Requests, Observer(t)
    PROVE  Inv'
<1> DEFINE s == call[t].session
           p == call[t].peer
<1>1. Executes(t, "peer", {"observer"}) /\ {"observer"} \in SUBSET AllOps
      /\ "observer" \in PeerOps
  BY DEF Observer, AllOps, PeerOps
<1>2. s \in SessionIds /\ p \in PeerConnectionIds
  BY <1>1, Executing
<1>3. CASE /\ peer_connections[s][p] # None
           /\ peer_connections' = [peer_connections EXCEPT ![s][p].observed = TRUE]
           /\ Finish(t, Reply("ok"))
           /\ UNCHANGED <<sessions, log_level, producers>>
  <2>0. peer_connections[s][p] \in PeerConnections
    BY <1>2, <1>3 DEF Inv, TypeOK, DataTypeOK
  <2>1. [peer_connections[s][p] EXCEPT !.observed = TRUE] \in PeerConnections
    BY <2>0 DEF PeerConnections
  <2>2. DataTypeOK' /\ DataKept
    BY <1>2, <1>3, <2>1, NoneAssumption DEF DataKept, Inv, TypeOK, DataTypeOK
  <2> QED BY <1>3, <2>2, ReplyTypes, Finishing
<1>4. CASE /\ Finish(t, Reply("error"))
           /\ UNCHANGED <<sessions, peer_connections, log_level, producers>>
  BY <1>4, SameData, ReplyTypes, Finishing
<1> QED BY <1>3, <1>4 DEF Observer

LEMMA GetTransceiversInv ==
    ASSUME Inv, NEW t \in Requests, GetTransceivers(t)
    PROVE  Inv'
<1>1. DataTypeOK' /\ DataKept
  BY SameData DEF GetTransceivers, dataVars
<1>2. \E reply \in Replies : Finish(t, reply)
  BY ReplyTypes DEF GetTransceivers
<1> QED BY <1>1, <1>2, Finishing

LEMMA CallWebRTCInv ==
    ASSUME Inv, NEW t \in Requests, CallWebRTC(t)
    PROVE  Inv'
<1> DEFINE s == call[t].session
           p == call[t].peer
<1>1. Executes(t, "peer", WebRTCOps \ {"add_track"})
      /\ WebRTCOps \ {"add_track"} \in SUBSET AllOps
  BY OpTypes DEF CallWebRTC
<1>2. /\ s \in SessionIds /\ call[t].op \in WebRTCOps /\ at[t] = "peer" /\ t \in Tasks
      /\ RequestGuardsOK(t) /\ RequestDataOK(t) /\ p \in PeerConnectionIds
  BY <1>1, Executing, OpTypes
<1>3. DataTypeOK' /\ DataKept
  BY SameData DEF CallWebRTC, dataVars
<1>4. CASE Finish(t, Reply("error"))
  BY <1>3, <1>4, ReplyTypes, Finishing
<1>5. CASE /\ Granted(PeerRef(t))
           /\ peer_connections[s][p] # None
           /\ hold' = hold \cup {Guard(t, PeerRef(t))}
           /\ at' = [at EXCEPT ![t] = "await"]
           /\ running' = running \ {t}
           /\ UNCHANGED <<sessions, peer_connections, call, created, scan, answer, cursor>>
  <2>1. PeerRef(t) \in [lock : Locks, mode : {"read", "write"}]
    BY <1>2, RefTypes
  <2>2. at'[t] = "await" /\ "await" \in RequestPlaces
    BY <1>2, <1>5 DEF Inv, TypeOK, RequestPlaces
  <2>3. RequestTypeOK' /\ running' \subseteq Tasks
    BY <1>5 DEF Inv, TypeOK, RequestTypeOK
  <2>4. GuardsOf(t) = {Guard(t, SessionRef(t))}
    BY <1>2 DEF RequestGuardsOK, RequestGuards, ServesPeer, UsesPeer
  <2>5. GuardsOf(t)' = (GuardsOf(t) \ {}) \cup {Guard(t, PeerRef(t))}
            => RequestGuardsOK(t)' /\ RequestDataOK(t)'
    BY <1>2, <1>5, <2>2, <2>4, OpTypes
    DEF RequestGuardsOK, RequestGuards, RequestDataOK, ServesPeer, UsesPeer, SessionRef, PeerRef
  <2>6. hold' = (hold \ {}) \cup {Guard(t, PeerRef(t))} /\ {} \in SUBSET GuardsOf(t)
    BY <1>5
  <2> QED BY <1>3, <1>5, <2>1, <2>2, <2>3, <2>5, <2>6, RequestTakes
<1> QED BY <1>4, <1>5 DEF CallWebRTC, AwaitWebRTC, dataVars

LEMMA ResumeRequestInv ==
    ASSUME Inv, NEW t \in Requests, ResumeRequest(t)
    PROVE  Inv'
<1>1. DataTypeOK' /\ DataKept
  BY SameData DEF ResumeRequest, dataVars
<1>2. \E reply \in Replies : Finish(t, reply)
  BY ReplyTypes DEF ResumeRequest
<1> QED BY <1>1, <1>2, Finishing

-----------------------------------------------------------------------------
\* The prints of add_track.
LEMMA LockStdoutInv ==
    ASSUME Inv, NEW t \in Requests, LockStdout(t)
    PROVE  Inv'
<1>1. Executes(t, "stdout", {"add_track"}) /\ {"add_track"} \in SUBSET AllOps
  BY DEF LockStdout, AllOps, PeerOps, WebRTCOps
<1>2. /\ at[t] = "stdout" /\ t \in Tasks /\ call[t].session \in SessionIds
      /\ RequestGuardsOK(t) /\ RequestDataOK(t)
  BY <1>1, Executing
<1>3. DataTypeOK' /\ DataKept
  BY SameData DEF LockStdout, dataVars
<1>4. StdoutRef \in [lock : Locks, mode : {"read", "write"}]
  BY <1>2, RefTypes
<1>5. at'[t] = "print" /\ "print" \in RequestPlaces
  BY <1>2 DEF LockStdout, Inv, TypeOK, RequestPlaces
<1>6. GuardsOf(t) = {}
  BY <1>2 DEF RequestGuardsOK, RequestGuards, ServesPeer, UsesPeer
<1>7. GuardsOf(t)' = (GuardsOf(t) \ {}) \cup {Guard(t, StdoutRef)}
          => RequestGuardsOK(t)' /\ RequestDataOK(t)'
  BY <1>2, <1>5, <1>6
  DEF LockStdout, RequestGuardsOK, RequestDataOK, ServesPeer, UsesPeer
<1>8. hold' = (hold \ {}) \cup {Guard(t, StdoutRef)} /\ {} \in SUBSET GuardsOf(t)
  BY DEF LockStdout
<1>9. RequestTypeOK' /\ running' \subseteq Tasks
  BY DEF LockStdout, Inv, TypeOK, RequestTypeOK
<1> QED BY <1>3, <1>4, <1>5, <1>7, <1>8, <1>9, RequestTakes DEF LockStdout

LEMMA PrintShardInv ==
    ASSUME Inv, NEW t \in Requests, PrintShard(t)
    PROVE  Inv'
<1> DEFINE n == First(scan[t].shards)
           next == [scan[t] EXCEPT !.shards = @ \ {n}, !.locks = Registered(n) \X PeerShards]
           old == {h \in GuardsOf(t) : h.lock # StdoutLock}
<1>1. Executes(t, "print", {"add_track"}) /\ {"add_track"} \in SUBSET AllOps
  BY DEF PrintShard, AllOps, PeerOps, WebRTCOps
<1>2. /\ at[t] = "print" /\ t \in Tasks /\ scan[t] \in Scans
      /\ RequestGuardsOK(t) /\ RequestDataOK(t)
  BY <1>1, Executing
<1>3. n \in SessionShards
  BY <1>2, FirstIn DEF PrintShard, Scans
<1>4. DataTypeOK' /\ DataKept /\ \A m : Registered(m)' = Registered(m)
  BY SameData DEF PrintShard, dataVars, Registered
<1>5. next \in Scans /\ next.locks = Registered(n) \X PeerShards
  <2>1. Registered(n) \subseteq SessionIds
    BY DEF Registered
  <2> QED BY <1>2, <2>1 DEF Scans
<1>6. PrintRef(t) = Get(<<"sessions", n>>)
      /\ PrintRef(t) \in [lock : Locks, mode : {"read", "write"}]
  BY <1>3 DEF PrintRef, Get, Locks, SessionLocks
<1>7. scan' = [scan EXCEPT ![t] = next] /\ scan'[t] = next
  BY <1>2 DEF PrintShard, Inv, TypeOK, RequestTypeOK
<1>8. at' = [at EXCEPT ![t] = "print"] /\ at'[t] = "print" /\ "print" \in RequestPlaces
  BY <1>2 DEF PrintShard, Inv, TypeOK, RequestPlaces
<1> HIDE DEF next, n, old
<1>9. RequestTypeOK' /\ running' \subseteq Tasks
  BY <1>5, <1>7 DEF PrintShard, Inv, TypeOK, RequestTypeOK
<1>10. GuardsOf(t)' = (GuardsOf(t) \ old) \cup {Guard(t, PrintRef(t))}
           => RequestGuardsOK(t)' /\ RequestDataOK(t)'
  <2>a. StdoutLock \notin SessionLocks
    BY DEF StdoutLock, SessionLocks
  <2>b. GuardsOf(t) \ old = {Guard(t, StdoutRef)}
    <3>1. Guard(t, StdoutRef).lock = StdoutLock
      BY DEF Guard, StdoutRef, GetMut
    <3>2. \A m \in SessionShards : Guard(t, Get(<<"sessions", m>>)).lock # StdoutLock
      BY <2>a DEF Guard, Get, SessionLocks
    <3> QED BY <1>2, <3>1, <3>2 DEF RequestGuardsOK, old
  <2> SUFFICES ASSUME GuardsOf(t)' = {Guard(t, StdoutRef), Guard(t, PrintRef(t))}
               PROVE  RequestGuardsOK(t)' /\ RequestDataOK(t)'
    BY <2>b
  <2>1. RequestGuardsOK(t)'
    BY <1>3, <1>4, <1>5, <1>6, <1>7, <1>8 DEF RequestGuardsOK
  <2>2. RequestDataOK(t)'
    BY <1>2, <1>8 DEF PrintShard, RequestDataOK, ServesPeer, UsesPeer
  <2> QED BY <2>1, <2>2
<1>11. /\ hold' = (hold \ old) \cup {Guard(t, PrintRef(t))}
       /\ old \in SUBSET GuardsOf(t)
       /\ Granted(PrintRef(t)) /\ UNCHANGED cursor
       /\ \A u \in Requests \ {t} :
           call'[u] = call[u] /\ created'[u] = created[u] /\ scan'[u] = scan[u]
  BY <1>7 DEF PrintShard, Inv, TypeOK, RequestTypeOK, old, GuardsOf
<1> QED BY <1>4, <1>6, <1>8, <1>9, <1>10, <1>11, RequestTakes

LEMMA PrintLenInv ==
    ASSUME Inv, NEW t \in Requests, PrintLen(t)
    PROVE  Inv'
<1> DEFINE next == [scan[t] EXCEPT !.locks = @ \ {First(@)}]
<1>1. Executes(t, "print", {"add_track"}) /\ {"add_track"} \in SUBSET AllOps
  BY DEF PrintLen, AllOps, PeerOps, WebRTCOps
<1>2. at[t] = "print" /\ scan[t] \in Scans /\ t \in Tasks
  BY <1>1, Executing
<1>3. next \in Scans /\ next.locks \subseteq scan[t].locks
  BY <1>2 DEF Scans
<1>4. scan' = [scan EXCEPT ![t] = next] /\ at' = [at EXCEPT ![t] = "print"]
  BY <1>2 DEF PrintLen, Inv, TypeOK, RequestTypeOK
<1> HIDE DEF next
<1> QED BY <1>2, <1>3, <1>4, ScanMoves DEF PrintLen

LEMMA PrintEndInv ==
    ASSUME Inv, NEW t \in Requests, PrintEnd(t)
    PROVE  Inv'
<1>1. Executes(t, "print", {"add_track"}) /\ {"add_track"} \in SUBSET AllOps
  BY DEF PrintEnd, AllOps, PeerOps, WebRTCOps
<1>2. /\ at[t] = "print" /\ t \in Tasks /\ RequestDataOK(t)
      /\ scan[t].locks = {}
  BY <1>1, Executing DEF PrintEnd
<1>3. at'[t] = "begin" /\ "begin" \in RequestPlaces
  BY <1>2 DEF PrintEnd, Inv, TypeOK, RequestPlaces
<1>4. GuardsOf(t)' = {} /\ \A u \in Tasks \ {t} : GuardsOf(u)' = GuardsOf(u)
  BY DEF PrintEnd, GuardsOf
<1>5. RequestGuardsOK(t)' /\ RequestDataOK(t)'
  BY <1>2, <1>3, <1>4 DEF PrintEnd, RequestGuardsOK, RequestGuards, RequestDataOK, ServesPeer, UsesPeer
<1>6. Exclusion'
  BY DroppedExclusion DEF PrintEnd, Inv, LockDiscipline
<1>7. DataTypeOK' /\ DataKept
  BY SameData DEF PrintEnd, dataVars
<1>8. /\ RequestTypeOK' /\ running' \subseteq Tasks
      /\ hold' \subseteq [task : Tasks, lock : Locks, mode : {"read", "write"}]
  BY DEF PrintEnd, Inv, TypeOK, RequestTypeOK
<1> QED BY <1>3, <1>4, <1>5, <1>6, <1>7, <1>8, RequestStep DEF PrintEnd

LEMMA FindTrackPeerInv ==
    ASSUME Inv, NEW t \in Requests, FindTrackPeer(t)
    PROVE  Inv'
<1> DEFINE s == call[t].session
           p == call[t].peer
<1>1. Executes(t, "peer", {"add_track"}) /\ {"add_track"} \in SUBSET AllOps
      /\ "add_track" \in PeerOps
  BY DEF FindTrackPeer, AllOps, PeerOps, WebRTCOps
<1>2. /\ s \in SessionIds /\ call[t].op = "add_track" /\ at[t] = "peer" /\ t \in Tasks
      /\ RequestGuardsOK(t) /\ RequestDataOK(t) /\ p \in PeerConnectionIds
  BY <1>1, Executing
<1>3. DataTypeOK' /\ DataKept
  BY SameData DEF FindTrackPeer, dataVars
<1>4. CASE Finish(t, Reply("error"))
  BY <1>3, <1>4, ReplyTypes, Finishing
<1>5. CASE /\ Granted(PeerRef(t))
           /\ peer_connections[s][p] # None
           /\ hold' = hold \cup {Guard(t, PeerRef(t))}
           /\ at' = [at EXCEPT ![t] = "past"]
           /\ UNCHANGED <<sessions, peer_connections, call, created, scan, answer,
                          running, cursor>>
  <2>1. PeerRef(t) \in [lock : Locks, mode : {"read", "write"}]
    BY <1>2, RefTypes
  <2>2. at'[t] = "past" /\ "past" \in RequestPlaces
    BY <1>2, <1>5 DEF Inv, TypeOK, RequestPlaces
  <2>3. RequestTypeOK' /\ running' \subseteq Tasks
    BY <1>5 DEF Inv, TypeOK, RequestTypeOK
  <2>4. GuardsOf(t) = {Guard(t, SessionRef(t))}
    BY <1>2 DEF RequestGuardsOK, RequestGuards, ServesPeer, UsesPeer
  <2>5. GuardsOf(t)' = (GuardsOf(t) \ {}) \cup {Guard(t, PeerRef(t))}
            => RequestGuardsOK(t)' /\ RequestDataOK(t)'
    BY <1>1, <1>2, <1>5, <2>2, <2>4
    DEF RequestGuardsOK, RequestGuards, RequestDataOK, ServesPeer, UsesPeer,
        SessionRef, PeerRef
  <2>6. hold' = (hold \ {}) \cup {Guard(t, PeerRef(t))} /\ {} \in SUBSET GuardsOf(t)
    BY <1>5
  <2> QED BY <1>3, <1>5, <2>1, <2>2, <2>3, <2>5, <2>6, RequestTakes
<1> QED BY <1>4, <1>5 DEF FindTrackPeer, dataVars

LEMMA PrintPastInv ==
    ASSUME Inv, NEW t \in Requests, PrintPast(t)
    PROVE  Inv'
<1>1. Executes(t, "past", {"add_track"}) /\ {"add_track"} \in SUBSET AllOps
  BY DEF PrintPast, AllOps, PeerOps, WebRTCOps
<1>2. at[t] = "past" /\ t \in Tasks /\ RequestGuardsOK(t) /\ RequestDataOK(t)
  BY <1>1, Executing
<1>3. DataTypeOK' /\ DataKept
  BY SameData DEF PrintPast, dataVars
<1>4. CASE Finish(t, Reply("error"))
  BY <1>3, <1>4, ReplyTypes, Finishing
<1>5. CASE /\ at' = [at EXCEPT ![t] = "await"]
           /\ running' = running \ {t}
           /\ UNCHANGED <<sessions, peer_connections, call, created, scan, answer,
                          hold, cursor>>
  <2>1. at'[t] = "await" /\ "await" \in RequestPlaces
    BY <1>2, <1>5 DEF Inv, TypeOK, RequestPlaces
  <2>2. RequestGuardsOK(t)' /\ RequestDataOK(t)'
    BY <1>2, <1>5, <2>1
    DEF RequestGuardsOK, RequestGuards, RequestDataOK, ServesPeer, UsesPeer,
        SessionRef, PeerRef, GuardsOf
  <2>3. RequestTypeOK' /\ running' \subseteq Tasks
    BY <1>5 DEF Inv, TypeOK, RequestTypeOK
  <2> QED BY <1>3, <1>5, <2>1, <2>2, <2>3, RequestMoves
<1> QED BY <1>4, <1>5 DEF PrintPast, AwaitWebRTC, dataVars

-----------------------------------------------------------------------------
\* Calls and the scheduler.
LEMMA CallInv ==
    ASSUME Inv, NEW t \in Requests, Call(t)
    PROVE  Inv'
<1>1. PICK c \in Calls :
        /\ c.op = "create_session" => created[t] < MaxCreates[t]
        /\ call' = [call EXCEPT ![t] = c]
        /\ at' = [at EXCEPT ![t] = Entry(c.op)]
        /\ scan' = [scan EXCEPT ![t].shards =
                        IF c.op = "add_track" THEN SessionShards ELSE {}]
        /\ created' = [created EXCEPT ![t] =
                           IF c.op = "create_session" THEN @ + 1 ELSE @]
  BY DEF Call
<1>2. at[t] = "idle" /\ t \in Tasks /\ RequestGuardsOK(t) /\ RequestDataOK(t)
  BY DEF Call, Tasks, Inv, LockDiscipline
<1>3. Entry(c.op) \in {"new", "stdout", "begin"}
  BY DEF Entry
<1>4. at'[t] = Entry(c.op) /\ Entry(c.op) \in RequestPlaces
  BY <1>1, <1>2, <1>3 DEF Inv, TypeOK, RequestPlaces
<1>5. scan'[t] \in Scans /\ scan'[t].locks = {} /\ scan' \in [Requests -> Scans]
  BY <1>1, <1>2 DEF Inv, TypeOK, RequestTypeOK, Scans, RequestDataOK
<1>6. created' \in [Requests -> Nat]
      /\ (\A u \in Requests : created'[u] <= MaxCreates[u])
      /\ (c.op = "create_session" => created'[t] > 0)
  <2>1. created \in [Requests -> Nat] /\ \A u \in Requests : created[u] <= MaxCreates[u]
    BY DEF Inv, TypeOK, RequestTypeOK
  <2>2. MaxCreates \in [Requests -> Nat]
    BY DataAssumption DEF DataAssumption
  <2>3. CASE c.op = "create_session"
    <3>1. created' = [created EXCEPT ![t] = created[t] + 1]
      BY <1>1, <2>3
    <3> QED BY <1>1, <2>1, <2>2, <2>3, <3>1
  <2>4. CASE c.op # "create_session"
    <3>1. created' = created
      BY <1>1, <2>1, <2>4
    <3> QED BY <2>1, <2>4, <3>1
  <2> QED BY <2>3, <2>4
<1>7. answer' \in [Requests -> Replies]
  BY ReplyTypes DEF Call, Inv, TypeOK, RequestTypeOK
<1>8. RequestTypeOK' /\ running' \subseteq Tasks
  BY <1>1, <1>5, <1>6, <1>7 DEF Call, Inv, TypeOK, RequestTypeOK
<1>9. GuardsOf(t)' = {} /\ call'[t] = c
  BY <1>1, <1>2 DEF Call, GuardsOf, RequestGuardsOK, RequestGuards, ServesPeer, UsesPeer,
                    Inv, TypeOK, RequestTypeOK
<1>10. RequestGuardsOK(t)'
  BY <1>3, <1>4, <1>5, <1>9 DEF RequestGuardsOK, RequestGuards, ServesPeer, UsesPeer
<1>11. RequestDataOK(t)'
  BY <1>3, <1>4, <1>5, <1>6, <1>9 DEF RequestDataOK, ServesPeer, UsesPeer
<1>12. DataTypeOK' /\ DataKept
  BY SameData DEF Call, dataVars
<1>13. \A u \in Requests \ {t} :
           call'[u] = call[u] /\ created'[u] = created[u] /\ scan'[u] = scan[u]
  BY <1>1 DEF Inv, TypeOK, RequestTypeOK
<1> QED BY <1>1, <1>4, <1>8, <1>10, <1>11, <1>12, <1>13, RequestMoves DEF Call

\* Steps that leave the places, the guards and the local state of all tasks.
LEMMA NothingMoves ==
    ASSUME Inv, UNCHANGED <<dataVars, call, created, at, scan, answer, hold, cursor>>,
           running' \subseteq Tasks
    PROVE  Inv'
<1>1. TypeOK'
  BY DEF Inv, TypeOK, DataTypeOK, RequestTypeOK, dataVars
<1>2. DataKept /\ \A t : GuardsOf(t)' = GuardsOf(t)
  BY SameData DEF dataVars, GuardsOf
<1>3. \A t \in Requests : RequestGuardsOK(t)' /\ RequestDataOK(t)'
  BY <1>2, RequestFrame
<1>4. MetricsGuardsOK' /\ CursorOK'
  BY <1>2, MetricsFrame
<1>5. Exclusion'
  BY DEF Inv, LockDiscipline, Exclusion
<1> QED BY <1>1, <1>3, <1>4, <1>5 DEF Inv, LockDiscipline

LEMMA RunInv ==
    ASSUME Inv, NEW t \in Tasks, Run(t)
    PROVE  Inv'
BY NothingMoves DEF Run, Inv, TypeOK

LEMMA StutterInv ==
    ASSUME Inv, UNCHANGED vars
    PROVE  Inv'
BY NothingMoves DEF vars, Inv, TypeOK

\* A step of the metrics collection leaves what the requests have.
LEMMA MetricsStep ==
    ASSUME Inv, DataKept, DataTypeOK', UNCHANGED requestVars,
           NEW place \in MetricsPlaces, at' = [at EXCEPT ![Metrics] = place],
           \A u \in Requests : GuardsOf(u)' = GuardsOf(u),
           hold' \subseteq [task : Tasks, lock : Locks, mode : {"read", "write"}],
           Exclusion', running' \subseteq Tasks, cursor' \in Cursors,
           MetricsGuardsOK', CursorOK'
    PROVE  Inv'
<1>1. Metrics \notin Requests /\ Metrics \in Tasks
  BY ServerAssumption DEF ServerAssumption, Tasks
<1>2. RequestTypeOK'
  BY DEF Inv, TypeOK, RequestTypeOK, requestVars
<1>3. TypeOK'
  BY <1>1, <1>2 DEF Inv, TypeOK, Tasks
<1>4. ASSUME NEW u \in Requests PROVE RequestGuardsOK(u)' /\ RequestDataOK(u)'
  <2>1. UNCHANGED <<at[u], call[u], created[u], scan[u], GuardsOf(u)>>
    BY <1>1 DEF Inv, TypeOK, Tasks, requestVars
  <2> QED BY <2>1, RequestFrame
<1> QED BY <1>3, <1>4 DEF Inv, LockDiscipline

\* The metrics collection takes a step without taking or dropping a guard.
LEMMA MetricsMoves ==
    ASSUME Inv, DataKept, DataTypeOK', UNCHANGED <<requestVars, hold>>,
           NEW place \in MetricsPlaces, at' = [at EXCEPT ![Metrics] = place],
           running' \subseteq Tasks, cursor' \in Cursors,
           MetricsGuardsOK', CursorOK'
    PROVE  Inv'
<1>1. Exclusion' /\ hold' \subseteq [task : Tasks, lock : Locks, mode : {"read", "write"}]
  BY DEF Exclusion, Inv, TypeOK, LockDiscipline
<1>2. \A u \in Requests : GuardsOf(u)' = GuardsOf(u)
  BY DEF GuardsOf
<1> QED BY <1>1, <1>2, MetricsStep

\* What the metrics collection knows at one of its places.
LEMMA MetricsPlace ==
    ASSUME Inv, NEW place, at[Metrics] = place
    PROVE  /\ Metrics \in Tasks /\ Metrics \notin Requests
           /\ MetricsGuardsOK /\ CursorOK /\ cursor \in Cursors
           /\ \A q : at' = [at EXCEPT ![Metrics] = q] => at'[Metrics] = q
BY ServerAssumption DEF Inv, TypeOK, LockDiscipline, Tasks, ServerAssumption

LEMMA CallbackInv ==
    ASSUME Inv, NEW t \in Tasks, Callback(t)
    PROVE  Inv'
<1>1. DataTypeOK' /\ DataKept /\ \A u : GuardsOf(u)' = GuardsOf(u)
  BY SameData DEF Callback, dataVars, GuardsOf
<1>2. CASE t \in Requests
  <2>1. RequestGuardsOK(t) /\ RequestDataOK(t) /\ at'[t] = "resume" /\ at[t] = "await"
        /\ "resume" \in RequestPlaces
    BY <1>2 DEF Callback, Inv, TypeOK, LockDiscipline, RequestPlaces
  <2>2. RequestGuardsOK(t)'
    BY <1>1, <2>1 DEF Callback, RequestGuardsOK, RequestGuards, ServesPeer, UsesPeer, SessionRef, PeerRef
  <2>3. RequestDataOK(t)'
    BY <2>1 DEF Callback, RequestDataOK, ServesPeer, UsesPeer, dataVars
  <2>4. RequestTypeOK' /\ running' \subseteq Tasks
    BY DEF Callback, Inv, TypeOK, RequestTypeOK
  <2> QED BY <1>1, <1>2, <2>1, <2>2, <2>3, <2>4, RequestMoves DEF Callback
<1>3. CASE t = Metrics
  <2>1. /\ MetricsGuardsOK /\ CursorOK /\ cursor \in Cursors
        /\ at'[Metrics] = "resume" /\ at[Metrics] = "await"
    BY <1>3, MetricsPlace DEF Callback
  <2>2. MetricsGuardsOK'
    BY <1>1, <2>1 DEF Callback, MetricsGuardsOK, InShard, InPeerShard, Registered, PeersIn, dataVars
  <2>3. CursorOK'
    BY <2>1 DEF Callback, CursorOK
  <2>4. running' \subseteq Tasks /\ "resume" \in MetricsPlaces
    BY DEF Callback, Inv, TypeOK, MetricsPlaces
  <2> QED BY <1>1, <1>3, <2>1, <2>2, <2>3, <2>4, MetricsMoves DEF Callback, requestVars
<1> QED BY <1>2, <1>3 DEF Tasks

-----------------------------------------------------------------------------
\* The metrics collection.
LEMMA MetricsTickInv ==
    ASSUME Inv, MetricsTick
    PROVE  Inv'
<1> USE DEF MetricsTick, MetricsTo
<1>1. /\ MetricsGuardsOK /\ CursorOK /\ cursor \in Cursors
      /\ at'[Metrics] = "shards" /\ at[Metrics] = "sleep"
  BY MetricsPlace
<1>2. DataTypeOK' /\ DataKept /\ \A u : GuardsOf(u)' = GuardsOf(u)
  BY SameData DEF dataVars, GuardsOf
<1>3. cursor' \in Cursors
  BY <1>1 DEF Cursors
<1>4. MetricsGuardsOK'
  BY <1>1, <1>2 DEF MetricsGuardsOK
<1>5. CursorOK'
  BY <1>1 DEF CursorOK, Cursors
<1>6. running' \subseteq Tasks /\ "shards" \in MetricsPlaces
  BY DEF Inv, TypeOK, MetricsPlaces
<1> QED BY <1>2, <1>3, <1>4, <1>5, <1>6, MetricsMoves

\* The metrics collection drops all its guards.
LEMMA MetricsLeaves ==
    ASSUME Inv, LeaveSessions
    PROVE  /\ GuardsOf(Metrics)' = {} /\ Exclusion'
           /\ \A u \in Requests : GuardsOf(u)' = GuardsOf(u)
           /\ hold' \subseteq [task : Tasks, lock : Locks, mode : {"read", "write"}]
<1>1. Exclusion'
  BY DroppedExclusion DEF LeaveSessions, Inv, LockDiscipline
<1> QED BY <1>1, ServerAssumption DEF ServerAssumption, LeaveSessions, GuardsOf, Inv, TypeOK

\* The metrics collection takes the guard of request r.
LEMMA MetricsTakes ==
    ASSUME Inv, NEW r \in [lock : Locks, mode : {"read", "write"}], Granted(r),
           NEW old \in SUBSET GuardsOf(Metrics),
           hold' = (hold \ old) \cup {Guard(Metrics, r)}
    PROVE  /\ GuardsOf(Metrics)' = (GuardsOf(Metrics) \ old) \cup {Guard(Metrics, r)}
           /\ Exclusion'
           /\ \A u \in Requests : GuardsOf(u)' = GuardsOf(u)
           /\ hold' \subseteq [task : Tasks, lock : Locks, mode : {"read", "write"}]
<1>1. Guard(Metrics, r).task = Metrics /\ Metrics \in Tasks /\ Metrics \notin Requests
  BY ServerAssumption DEF ServerAssumption, Guard, Tasks
<1>2. Exclusion'
  BY GrantedExclusion, hold' \subseteq hold \cup {Guard(Metrics, r)} DEF Inv, LockDiscipline
<1>3. Guard(Metrics, r) \in [task : Tasks, lock : Locks, mode : {"read", "write"}]
  BY <1>1 DEF Guard
<1> QED BY <1>1, <1>2, <1>3 DEF GuardsOf, Inv, TypeOK

LEMMA MetricsShardInv ==
    ASSUME Inv, MetricsShard
    PROVE  Inv'
<1>1. /\ MetricsGuardsOK /\ CursorOK /\ cursor \in Cursors
      /\ at[Metrics] = "shards" /\ Metrics \in Tasks
      /\ \A q : at' = [at EXCEPT ![Metrics] = q] => at'[Metrics] = q
  BY MetricsPlace DEF MetricsShard, MetricsAt
<1>2. DataTypeOK' /\ DataKept /\ running' \subseteq Tasks
      /\ "count" \in MetricsPlaces /\ "sessions" \in MetricsPlaces
  BY SameData DEF MetricsShard, dataVars, Inv, TypeOK, MetricsPlaces
<1>3. CASE /\ LeaveSessions
           /\ cursor' = [cursor EXCEPT !.shards = SessionShards, !.found = FALSE]
           /\ MetricsTo("count")
  <2>1. cursor' \in Cursors
    BY <1>1, <1>3 DEF Cursors
  <2>2. MetricsGuardsOK'
    BY <1>1, <1>3, MetricsLeaves DEF MetricsTo, MetricsGuardsOK
  <2>3. CursorOK'
    BY <1>1, <1>3 DEF MetricsTo, CursorOK, Cursors
  <2> QED BY <1>2, <1>3, <2>1, <2>2, <2>3, MetricsLeaves, MetricsStep
          DEF MetricsShard, MetricsTo
<1>4. CASE /\ cursor.shards # {}
           /\ Granted(MetricsRef)
           /\ hold' = (hold \ GuardsOf(Metrics)) \cup {Guard(Metrics, MetricsRef)}
           /\ LET n == First(cursor.shards)
              IN  cursor' = [cursor EXCEPT !.shards = @ \ {n},
                                           !.sessions = Registered(n)]
           /\ MetricsTo("sessions")
  <2> DEFINE n == First(cursor.shards)
  <2>1. n \in SessionShards /\ Registered(n) \subseteq SessionIds
    BY <1>1, <1>4, FirstIn DEF Cursors, Registered
  <2>2. MetricsRef = Get(<<"sessions", n>>)
        /\ MetricsRef \in [lock : Locks, mode : {"read", "write"}]
    BY <2>1 DEF MetricsRef, Get, Locks, SessionLocks
  <2>3. cursor' \in Cursors /\ cursor'.sessions = Registered(n)
        /\ \A m : Registered(m)' = Registered(m)
    BY <1>1, <1>4, <2>1 DEF Cursors, MetricsShard, dataVars, Registered
  <2>4. cursor'.session = cursor.session /\ cursor'.peers = cursor.peers
        /\ cursor'.peer = cursor.peer
    BY <1>1, <1>4 DEF Cursors
  <2> HIDE DEF n
  <2>5. /\ GuardsOf(Metrics)' = {Guard(Metrics, MetricsRef)}
        /\ Exclusion' /\ \A u \in Requests : GuardsOf(u)' = GuardsOf(u)
        /\ hold' \subseteq [task : Tasks, lock : Locks, mode : {"read", "write"}]
    BY <1>4, <2>2, MetricsTakes, GuardsOf(Metrics) \in SUBSET GuardsOf(Metrics)
  <2>6. MetricsGuardsOK'
    BY <1>1, <1>4, <2>1, <2>2, <2>3, <2>5 DEF MetricsTo, MetricsGuardsOK, InShard
  <2>7. CursorOK'
    BY <1>1, <1>4, <2>4 DEF MetricsTo, CursorOK
  <2> QED BY <1>2, <1>4, <2>3, <2>5, <2>6, <2>7, MetricsStep DEF MetricsShard, MetricsTo
<1> QED BY <1>3, <1>4 DEF MetricsShard

LEMMA MetricsSessionInv ==
    ASSUME Inv, MetricsSession
    PROVE  Inv'
<1> DEFINE s == First(cursor.sessions)
<1>1. /\ MetricsGuardsOK /\ CursorOK /\ cursor \in Cursors
      /\ at[Metrics] = "sessions" /\ Metrics \in Tasks
      /\ \A q : at' = [at EXCEPT ![Metrics] = q] => at'[Metrics] = q
  BY MetricsPlace DEF MetricsSession, MetricsAt
<1>2. /\ DataTypeOK' /\ DataKept /\ UNCHANGED requestVars
      /\ {"shards", "dead", "peer_shards"} \subseteq MetricsPlaces
      /\ \A m : Registered(m)' = Registered(m)
  BY SameData DEF MetricsSession, dataVars, MetricsPlaces, Registered
<1>3. PICK n \in SessionShards :
          GuardsOf(Metrics) = {InShard(n)} /\ cursor.sessions \subseteq Registered(n)
  BY <1>1 DEF MetricsGuardsOK
<1>4. CASE cursor.sessions = {} /\ MetricsTo("shards") /\ UNCHANGED <<running, hold, cursor>>
  <2>1. GuardsOf(Metrics)' = GuardsOf(Metrics) /\ running' \subseteq Tasks /\ cursor' \in Cursors
    BY <1>1, <1>4 DEF GuardsOf, Inv, TypeOK
  <2>2. MetricsGuardsOK'
    BY <1>1, <1>3, <1>4, <2>1 DEF MetricsTo, MetricsGuardsOK
  <2>3. CursorOK'
    BY <1>1, <1>4 DEF MetricsTo, CursorOK
  <2> QED BY <1>2, <1>4, <2>1, <2>2, <2>3, MetricsMoves DEF MetricsTo
<1>5. CASE /\ Suspend("dead") /\ LeaveSessions
           /\ cursor' = [NoCursor EXCEPT !.elapsed = cursor.elapsed]
  <2>1. cursor' \in Cursors /\ running' \subseteq Tasks
    BY <1>1, <1>5 DEF Cursors, NoCursor, Suspend, Inv, TypeOK
  <2>2. MetricsGuardsOK'
    BY <1>1, <1>5, MetricsLeaves DEF Suspend, MetricsTo, MetricsGuardsOK
  <2>3. CursorOK'
    BY <1>1, <1>5 DEF Suspend, MetricsTo, CursorOK, NoCursor
  <2> QED BY <1>2, <1>5, <2>1, <2>2, <2>3, MetricsLeaves, MetricsStep DEF Suspend, MetricsTo
<1>6. CASE /\ cursor.sessions # {}
           /\ cursor' = [cursor EXCEPT
                     !.sessions = @ \ {s},
                     !.session = s,
                     !.poll = (cursor.elapsed % sessions[s].polling = 0),
                     !.peer_shards = PeerShards]
           /\ MetricsTo("peer_shards") /\ UNCHANGED <<running, hold>>
  <2>1. s \in cursor.sessions
    BY <1>6, FirstIn
  <2>2. s \in SessionIds /\ SessionShard[s] = n /\ s # None
    BY <1>1, <1>3, <2>1, DataAssumption DEF Cursors, Registered, DataAssumption
  <2>3. cursor' \in Cursors
    BY <1>1, <1>6, <2>2 DEF Cursors
  <2>4. cursor'.session = s /\ cursor'.sessions = cursor.sessions \ {s}
        /\ cursor'.peers = cursor.peers /\ cursor'.peer = cursor.peer
    BY <1>1, <1>6 DEF Cursors
  <2> HIDE DEF s
  <2>5. GuardsOf(Metrics)' = GuardsOf(Metrics) /\ running' \subseteq Tasks
    BY <1>6 DEF GuardsOf, Inv, TypeOK
  <2>6. MetricsGuardsOK'
    BY <1>1, <1>2, <1>3, <1>6, <2>1, <2>2, <2>4, <2>5 DEF MetricsTo, MetricsGuardsOK, InShard
  <2>7. CursorOK'
    BY <1>1, <1>6, <2>4 DEF MetricsTo, CursorOK
  <2> QED BY <1>2, <1>6, <2>3, <2>5, <2>6, <2>7, MetricsMoves DEF MetricsTo
<1> QED BY <1>4, <1>5, <1>6 DEF MetricsSession

\* The iterator over the peer connections is at the end of a shard.
LEMMA MetricsPeerShardInv ==
    ASSUME Inv, MetricsPeerShard
    PROVE  Inv'
<1> DEFINE s == cursor.session
           n == First(cursor.peer_shards)
           others == {h \in hold : h.task # Metrics \/ h.lock[1] = "sessions"}
           inner == {h \in GuardsOf(Metrics) : h.lock[1] # "sessions"}
<1>1. /\ MetricsGuardsOK /\ CursorOK /\ cursor \in Cursors
      /\ at[Metrics] = "peer_shards" /\ Metrics \in Tasks
      /\ \A q : at' = [at EXCEPT ![Metrics] = q] => at'[Metrics] = q
  BY MetricsPlace DEF MetricsPeerShard, MetricsAt
<1>2. /\ DataTypeOK' /\ DataKept /\ UNCHANGED requestVars /\ running' \subseteq Tasks
      /\ {"sessions", "peers"} \subseteq MetricsPlaces
      /\ \A m : Registered(m)' = Registered(m) /\ PeersIn(m)' = PeersIn(m)
  BY SameData DEF MetricsPeerShard, dataVars, MetricsPlaces, Registered, PeersIn, Inv, TypeOK
<1>3. others = hold \ inner /\ inner \in SUBSET GuardsOf(Metrics)
  BY DEF GuardsOf
<1>4. /\ s \in SessionIds /\ s # "sessions" /\ SessionShard[s] \in SessionShards
      /\ cursor.sessions \cup {s} \subseteq Registered(SessionShard[s])
  BY <1>1, ServerAssumption DEF MetricsGuardsOK, Cursors, SessionShards, ServerAssumption
<1>5. GuardsOf(Metrics) \ inner = {InShard(SessionShard[s])}
  <2>1. InShard(SessionShard[s]).lock[1] = "sessions"
    BY DEF InShard, Guard, Get
  <2>2. \A m : InPeerShard(s, m).lock[1] # "sessions"
    BY <1>4 DEF InPeerShard, Guard, GetMut
  <2>3. \/ GuardsOf(Metrics) = {InShard(SessionShard[s])}
        \/ \E m \in PeerShards :
             GuardsOf(Metrics) = {InShard(SessionShard[s]), InPeerShard(s, m)}
    BY <1>1 DEF MetricsGuardsOK
  <2> QED BY <2>1, <2>2, <2>3
<1>6. CASE /\ hold' = others
           /\ cursor' = [cursor EXCEPT !.session = None, !.poll = FALSE]
           /\ MetricsTo("sessions")
  <2>1. cursor' \in Cursors /\ cursor'.sessions = cursor.sessions
        /\ cursor'.peers = cursor.peers /\ cursor'.peer = cursor.peer
        /\ cursor'.session = None
    BY <1>1, <1>6 DEF Cursors
  <2>2. GuardsOf(Metrics)' = {InShard(SessionShard[s])}
    <3> HIDE DEF inner
    <3> QED BY <1>3, <1>5, <1>6 DEF GuardsOf
  <2>3. \A u \in Requests : GuardsOf(u)' = GuardsOf(u)
    BY <1>6, ServerAssumption DEF GuardsOf, ServerAssumption
  <2>4. Exclusion' /\ hold' \subseteq [task : Tasks, lock : Locks, mode : {"read", "write"}]
    BY <1>6, DroppedExclusion DEF Inv, TypeOK, LockDiscipline
  <2>5. MetricsGuardsOK'
    BY <1>1, <1>2, <1>4, <1>6, <2>1, <2>2 DEF MetricsTo, MetricsGuardsOK, InShard
  <2>6. CursorOK'
    BY <1>1, <1>6, <2>1 DEF MetricsTo, CursorOK
  <2> QED BY <1>2, <1>6, <2>1, <2>3, <2>4, <2>5, <2>6, MetricsStep DEF MetricsTo
<1>7. CASE /\ cursor.peer_shards # {}
           /\ Granted(MetricsPeerRefMut)
           /\ hold' = others \cup {Guard(Metrics, MetricsPeerRefMut)}
           /\ cursor' = [cursor EXCEPT !.peer_shards = @ \ {n},
                                       !.peers = PeersIn(<<s, n>>)]
           /\ MetricsTo("peers")
  <2>1. n \in PeerShards
    BY <1>1, <1>7, FirstIn DEF Cursors
  <2>2. MetricsPeerRefMut = GetMut(<<s, n>>)
        /\ MetricsPeerRefMut \in [lock : Locks, mode : {"read", "write"}]
    BY <1>4, <2>1 DEF MetricsPeerRefMut, GetMut, Locks
  <2>3. PeersIn(<<s, n>>) \subseteq PeerConnectionIds
    BY DEF PeersIn
  <2>4. /\ cursor' \in Cursors /\ cursor'.session = s /\ cursor'.sessions = cursor.sessions
        /\ cursor'.peer_shards = cursor.peer_shards \ {n}
        /\ cursor'.peers = PeersIn(<<s, n>>) /\ cursor'.peer = cursor.peer
    BY <1>1, <1>7, <2>3 DEF Cursors
  <2> HIDE DEF n, s, others, inner
  <2>5. /\ GuardsOf(Metrics)' = {InShard(SessionShard[s])} \cup {Guard(Metrics, MetricsPeerRefMut)}
        /\ Exclusion' /\ \A u \in Requests : GuardsOf(u)' = GuardsOf(u)
        /\ hold' \subseteq [task : Tasks, lock : Locks, mode : {"read", "write"}]
    BY <1>3, <1>5, <1>7, <2>2, MetricsTakes
  <2>6. Guard(Metrics, MetricsPeerRefMut) = InPeerShard(s, n)
    BY <2>2 DEF InPeerShard
  <2>7. MetricsGuardsOK'
    <3>1. at'[Metrics] = "peers" /\ s # None
      BY <1>1, <1>7 DEF MetricsTo, MetricsGuardsOK, s
    <3>2. GuardsOf(Metrics)' = {InShard(SessionShard[s]), InPeerShard(s, n)}
      BY <2>5, <2>6
    <3> QED BY <1>2, <1>4, <2>1, <2>4, <3>1, <3>2 DEF MetricsGuardsOK, InShard, InPeerShard
  <2>8. CursorOK'
    BY <1>1, <1>7, <2>4 DEF MetricsTo, CursorOK
  <2> QED BY <1>2, <1>7, <2>4, <2>5, <2>7, <2>8, MetricsStep DEF MetricsTo
<1> QED BY <1>6, <1>7 DEF MetricsPeerShard

LEMMA MetricsPeerInv ==
    ASSUME Inv, MetricsPeer
    PROVE  Inv'
<1> DEFINE s == cursor.session
           p == First(cursor.peers)
<1>1. /\ MetricsGuardsOK /\ CursorOK /\ cursor \in Cursors
      /\ at[Metrics] = "peers" /\ Metrics \in Tasks
      /\ \A q : at' = [at EXCEPT ![Metrics] = q] => at'[Metrics] = q
  BY MetricsPlace DEF MetricsPeer, MetricsAt
<1>2. /\ DataTypeOK' /\ DataKept /\ UNCHANGED requestVars /\ GuardsOf(Metrics)' = GuardsOf(Metrics)
      /\ {"peer_shards", "await"} \subseteq MetricsPlaces
      /\ \A m : Registered(m)' = Registered(m) /\ PeersIn(m)' = PeersIn(m)
  BY SameData DEF MetricsPeer, dataVars, MetricsPlaces, Registered, PeersIn, GuardsOf
<1>3. /\ s # None /\ cursor.sessions \cup {s} \subseteq Registered(SessionShard[s])
      /\ \E n \in PeerShards \ cursor.peer_shards :
           /\ GuardsOf(Metrics) = {InShard(SessionShard[s]), InPeerShard(s, n)}
           /\ cursor.peers \subseteq PeersIn(<<s, n>>)
  BY <1>1 DEF MetricsGuardsOK
<1>4. CASE cursor.peers = {} /\ MetricsTo("peer_shards") /\ UNCHANGED <<running, cursor>>
  <2>1. cursor' \in Cursors /\ running' \subseteq Tasks
    BY <1>1, <1>4 DEF Inv, TypeOK
  <2>2. MetricsGuardsOK'
    BY <1>1, <1>2, <1>3, <1>4 DEF MetricsTo, MetricsGuardsOK, InShard, InPeerShard
  <2>3. CursorOK'
    BY <1>1, <1>4 DEF MetricsTo, CursorOK
  <2> QED BY <1>2, <1>4, <2>1, <2>2, <2>3, MetricsMoves DEF MetricsTo, MetricsPeer
<1>5. CASE /\ cursor.peers # {} /\ Suspend("await")
           /\ cursor' = [cursor EXCEPT !.peers = @ \ {First(@)}, !.peer = First(cursor.peers)]
  <2>1. p \in cursor.peers /\ p \in PeerConnectionIds
    BY <1>1, <1>5, FirstIn DEF Cursors
  <2>2. /\ cursor' \in Cursors /\ running' \subseteq Tasks
        /\ cursor'.peer = p /\ cursor'.peers = cursor.peers \ {p}
        /\ cursor'.session = s /\ cursor'.sessions = cursor.sessions
        /\ cursor'.peer_shards = cursor.peer_shards
    BY <1>1, <1>5, <2>1 DEF Cursors, Suspend, Inv, TypeOK
  <2>3. at'[Metrics] = "await"
    BY <1>1, <1>5 DEF Suspend, MetricsTo
  <2> HIDE DEF p
  <2>4. MetricsGuardsOK'
    BY <1>2, <1>3, <2>1, <2>2, <2>3 DEF MetricsGuardsOK, InShard, InPeerShard
  <2>5. CursorOK'
    BY <1>1, <2>2, <2>3 DEF CursorOK
  <2> QED BY <1>2, <1>5, <2>2, <2>4, <2>5, MetricsMoves DEF Suspend, MetricsTo, MetricsPeer
<1> QED BY <1>4, <1>5 DEF MetricsPeer

LEMMA ExportStatsInv ==
    ASSUME Inv, ExportStats
    PROVE  Inv'
<1> DEFINE s == cursor.session
           p == cursor.peer
<1>1. /\ MetricsGuardsOK /\ CursorOK /\ cursor \in Cursors
      /\ at[Metrics] = "resume" /\ Metrics \in Tasks
      /\ at'[Metrics] = "peers"
  BY MetricsPlace DEF ExportStats, MetricsAt, MetricsTo
<1>2. PICK n \in PeerShards \ cursor.peer_shards :
           /\ GuardsOf(Metrics) = {InShard(SessionShard[s]), InPeerShard(s, n)}
           /\ cursor.peers \subseteq PeersIn(<<s, n>>)
           /\ p \in PeersIn(<<s, n>>) \ cursor.peers
  BY <1>1 DEF MetricsGuardsOK
<1>3. s \in SessionIds /\ p \in PeerConnectionIds /\ peer_connections[s][p] # None
      /\ peer_connections[s][p] \in PeerConnections /\ s # None
  BY <1>1, <1>2 DEF PeersIn, Cursors, MetricsGuardsOK, Inv, TypeOK, DataTypeOK
<1>4. /\ peer_connections' \in [SessionIds -> [PeerConnectionIds -> PeerConnections \cup {None}]]
      /\ \A x \in SessionIds, y \in PeerConnectionIds :
           peer_connections[x][y] # None => peer_connections'[x][y] # None
  <2>1. CASE UNCHANGED peer_connections
    BY <2>1 DEF Inv, TypeOK, DataTypeOK
  <2>2. CASE \E b \in BOOLEAN : peer_connections' =
                 [peer_connections EXCEPT ![s][p].sending = b]
    <3>1. PICK b \in BOOLEAN : peer_connections' =
                 [peer_connections EXCEPT ![s][p].sending = b]
      BY <2>2
    <3>2. [peer_connections[s][p] EXCEPT !.sending = b] \in PeerConnections
      BY <1>3 DEF PeerConnections
    <3> DEFINE c == [peer_connections[s][p] EXCEPT !.sending = b]
    <3>3. peer_connections' = [peer_connections EXCEPT ![s][p] = c]
      BY <3>1
    <3>4. c \in PeerConnections /\ c # None
      BY <3>2, NoneAssumption
    <3> HIDE DEF c
    <3> QED BY <1>3, <3>3, <3>4 DEF Inv, TypeOK, DataTypeOK
  <2> QED BY <2>1, <2>2 DEF ExportStats
<1>5. DataTypeOK' /\ DataKept
  BY <1>4 DEF ExportStats, Inv, TypeOK, DataTypeOK, DataKept
<1>6. /\ UNCHANGED requestVars /\ GuardsOf(Metrics)' = GuardsOf(Metrics) /\ running' \subseteq Tasks
      /\ "peers" \in MetricsPlaces /\ \A m : Registered(m)' = Registered(m)
  BY DEF ExportStats, MetricsPlaces, Registered, GuardsOf, Inv, TypeOK
<1>7. /\ cursor' \in Cursors
      /\ cursor'.peer = None /\ cursor'.peers = cursor.peers
      /\ cursor'.session = s /\ cursor'.sessions = cursor.sessions
      /\ cursor'.peer_shards = cursor.peer_shards
  BY <1>1 DEF Cursors, ExportStats
<1>8. PeersIn(<<s, n>>) \subseteq PeersIn(<<s, n>>)'
  BY <1>3, <1>4, <1>7 DEF PeersIn
<1>9. cursor.sessions \cup {s} \subseteq Registered(SessionShard[s])
  BY <1>1 DEF MetricsGuardsOK
<1>10. MetricsGuardsOK'
  BY <1>1, <1>2, <1>3, <1>6, <1>7, <1>8, <1>9 DEF MetricsGuardsOK, InShard, InPeerShard
<1>11. CursorOK'
  BY <1>1, <1>7 DEF CursorOK
<1> QED BY <1>5, <1>6, <1>7, <1>10, <1>11, MetricsMoves DEF ExportStats, MetricsTo

LEMMA MetricsLenInv ==
    ASSUME Inv, MetricsLen
    PROVE  Inv'
<1>1. /\ MetricsGuardsOK /\ CursorOK /\ cursor \in Cursors
      /\ at[Metrics] = "count" /\ Metrics \in Tasks
      /\ \A q : at' = [at EXCEPT ![Metrics] = q] => at'[Metrics] = q
  BY MetricsPlace DEF MetricsLen, MetricsAt
<1>2. /\ DataTypeOK' /\ DataKept /\ UNCHANGED <<requestVars, hold>>
      /\ GuardsOf(Metrics)' = GuardsOf(Metrics)
      /\ {"count", "sleep"} \subseteq MetricsPlaces
  BY SameData DEF MetricsLen, dataVars, MetricsPlaces, GuardsOf
<1>3. GuardsOf(Metrics) = {}
  BY <1>1 DEF MetricsGuardsOK
<1>4. CASE /\ LET n == First(cursor.shards)
              IN  cursor' = [cursor EXCEPT !.shards = @ \ {n},
                                           !.found = @ \/ Registered(n) # {}]
           /\ UNCHANGED <<at, running>>
  <2>1. cursor' \in Cursors /\ cursor'.sessions = cursor.sessions
        /\ cursor'.peers = cursor.peers /\ cursor'.peer = cursor.peer
        /\ cursor'.session = cursor.session /\ running' \subseteq Tasks
    BY <1>1, <1>4 DEF Cursors, Inv, TypeOK
  <2>2. at' = [at EXCEPT ![Metrics] = "count"] /\ at'[Metrics] = "count"
    BY <1>1, <1>4 DEF Inv, TypeOK
  <2>3. MetricsGuardsOK' /\ CursorOK'
    BY <1>1, <1>2, <1>3, <2>1, <2>2 DEF MetricsGuardsOK, CursorOK
  <2> QED BY <1>2, <2>1, <2>2, <2>3, MetricsMoves
<1>5. CASE /\ cursor' = [cursor EXCEPT !.found = FALSE, !.elapsed = NextElapsed]
           /\ Suspend("sleep")
  <2>1. NextElapsed \in 1 .. Period
    BY <1>1, ServerAssumption DEF NextElapsed, Cursors, ServerAssumption
  <2>2. cursor' \in Cursors /\ cursor'.sessions = cursor.sessions
        /\ cursor'.peers = cursor.peers /\ cursor'.peer = cursor.peer
        /\ cursor'.session = cursor.session /\ running' \subseteq Tasks
    BY <1>1, <1>5, <2>1 DEF Cursors, Inv, TypeOK, Suspend
  <2>3. at' = [at EXCEPT ![Metrics] = "sleep"] /\ at'[Metrics] = "sleep"
    BY <1>1, <1>5 DEF Suspend, MetricsTo
  <2>4. MetricsGuardsOK' /\ CursorOK'
    BY <1>1, <1>2, <1>3, <2>2, <2>3 DEF MetricsGuardsOK, CursorOK
  <2> QED BY <1>2, <2>2, <2>3, <2>4, MetricsMoves
<1> QED BY <1>4, <1>5 DEF MetricsLen

-----------------------------------------------------------------------------
LEMMA InitInv == Init => Inv
<1> SUFFICES ASSUME Init PROVE Inv
  OBVIOUS
<1> USE DEF Init
<1>1. Metrics \notin Requests /\ Period \in Nat \ {0} /\ MaxCreates \in [Requests -> Nat]
  BY ServerAssumption, DataAssumption DEF ServerAssumption, DataAssumption
<1>2. DataTypeOK
  BY DEF DataTypeOK, NoPeerConnections
<1>3. NoScan \in Scans /\ NoCursor \in Cursors /\ Reply("none") \in Replies
  BY <1>1, ReplyTypes DEF NoScan, Scans, NoCursor, Cursors
<1>4. RequestTypeOK
  BY <1>1, <1>3 DEF RequestTypeOK
<1>5. TypeOK
  BY <1>1, <1>2, <1>3, <1>4 DEF TypeOK, Tasks, RequestPlaces, MetricsPlaces
<1>6. \A t \in Tasks : GuardsOf(t) = {}
  BY DEF GuardsOf
<1>7. ASSUME NEW t \in Requests PROVE RequestGuardsOK(t) /\ RequestDataOK(t)
  <2>1. at[t] = "idle" /\ call[t].op = "none" /\ scan[t].locks = {} /\ GuardsOf(t) = {}
    BY <1>1, <1>6 DEF Tasks, NoCall, NoScan
  <2> QED BY <2>1 DEF RequestGuardsOK, RequestGuards, RequestDataOK, ServesPeer, UsesPeer
<1>8. MetricsGuardsOK /\ CursorOK
  <2>1. at[Metrics] = "sleep" /\ GuardsOf(Metrics) = {}
    BY <1>6 DEF Tasks
  <2> QED BY <2>1 DEF MetricsGuardsOK, CursorOK, NoCursor
<1> QED BY <1>5, <1>7, <1>8 DEF Inv, LockDiscipline, Exclusion

LEMMA HandleInv ==
    ASSUME Inv, NEW t \in Requests, Handle(t)
    PROVE  Inv'
BY NewSessionInv, InsertSessionInv, StartSessionInv, StopSessionInv, GetStatsInv,
   StatsLenInv, StatsTallyInv, StatsReplyInv, LookupSessionInv,
   CreatePeerConnectionInv, AddPeerConnectionInv, ObserverInv, GetTransceiversInv,
   CallWebRTCInv, ResumeRequestInv, LockStdoutInv, PrintShardInv, PrintLenInv,
   PrintEndInv, FindTrackPeerInv, PrintPastInv
DEF Handle

LEMMA CollectInv ==
    ASSUME Inv, Collect
    PROVE  Inv'
BY MetricsShardInv, MetricsSessionInv, MetricsPeerShardInv, MetricsPeerInv,
   ExportStatsInv, MetricsLenInv
DEF Collect

LEMMA InvInductive == Inv /\ [Next]_vars => Inv'
BY CallInv, HandleInv, CollectInv, MetricsTickInv, RunInv, CallbackInv, StutterInv
DEF Next

LEMMA InvHolds == Spec => []Inv
BY InitInv, InvInductive, PTL DEF Spec

\* Every variable keeps its type, for any number of clients, shards and workers.
THEOREM TypeCorrect == Spec => []TypeOK
<1>1. Inv => TypeOK
  BY DEF Inv
<1> QED BY <1>1, InvHolds, PTL

\* At every place of the handlers and of start_metrics_collection a task holds
\* exactly the guards, on shards and on stdout, that the code keeps there, the session and the
\* peer connection it looked up are registered, and no lock has a writer beside
\* another guard.
THEOREM LocksDisciplined == Spec => []LockDiscipline
<1>1. Inv => LockDiscipline
  BY DEF Inv
<1> QED BY <1>1, InvHolds, PTL

=============================================================================
