---------------------- MODULE LoadTestServerProperties ----------------------
(***************************************************************************)
(* What the handlers and the metrics collection of LoadTestServer promise. *)
(***************************************************************************)
EXTENDS LoadTestServer

(***************************************************************************)
(* Where the tasks may be and what they may hold there.                    *)
(***************************************************************************)
RequestPlaces == {"idle", "new", "insert", "begin", "stdout", "print", "len",
                  "tally", "peer", "past", "await", "resume"}
MetricsPlaces == {"sleep", "shards", "sessions", "peer_shards", "peers",
                  "await", "resume", "count", "dead"}

Scans == [shards : SUBSET SessionShards, locks : SUBSET (SessionIds \X PeerShards),
          num_peer_connections : Nat, num_sending : Nat, num_not_sending : Nat]
Cursors == [shards : SUBSET SessionShards, sessions : SUBSET SessionIds,
            session : SessionIds \cup {None}, poll : BOOLEAN,
            peer_shards : SUBSET PeerShards, peers : SUBSET PeerConnectionIds,
            peer : PeerConnectionIds \cup {None}, found : BOOLEAN,
            elapsed : 1 .. Period]

DataTypeOK ==
    /\ sessions \in [SessionIds -> Sessions \cup {None}]
    /\ peer_connections \in
           [SessionIds -> [PeerConnectionIds -> PeerConnections \cup {None}]]
    /\ log_level \in LogLevels \cup {"Error"}
    /\ producers \subseteq Births

RequestTypeOK ==
    /\ call \in [Requests -> Calls \cup {NoCall}]
    /\ created \in [Requests -> Nat]
    /\ \A t \in Requests : created[t] <= MaxCreates[t]
    /\ scan \in [Requests -> Scans]
    /\ answer \in [Requests -> Replies]

\* The type invariant.
TypeOK ==
    /\ DataTypeOK
    /\ RequestTypeOK
    /\ at \in [Tasks -> RequestPlaces \cup MetricsPlaces]
    /\ \A t \in Requests : at[t] \in RequestPlaces
    /\ at[Metrics] \in MetricsPlaces
    /\ running \subseteq Tasks
    /\ hold \subseteq [task : Tasks, lock : Locks, mode : {"read", "write"}]
    /\ cursor \in Cursors

\* Request t keeps a Ref to its session, and none to a peer connection yet.
ServesPeer(t) ==
    at[t] = "peer" \/ (at[t] = "insert" /\ call[t].op = "create_peer_connection")

\* Request t keeps a Ref to the peer connection it serves.
UsesPeer(t) == at[t] \in {"past", "await", "resume"}

RequestGuards(t) ==
    CASE at[t] \in {"len", "tally"} -> {Guard(t, SessionRefMut(t))}
      [] ServesPeer(t)              -> {Guard(t, SessionRef(t))}
      [] UsesPeer(t)                -> {Guard(t, SessionRef(t)), Guard(t, PeerRef(t))}
      [] OTHER                      -> {}

RequestGuardsOK(t) ==
    \/ /\ at[t] # "print"
       /\ GuardsOf(t) = RequestGuards(t)
    \/ /\ at[t] = "print"
       /\ \/ GuardsOf(t) = {Guard(t, StdoutRef)} /\ scan[t].locks = {}
          \/ \E n \in SessionShards :
              /\ GuardsOf(t) = {Guard(t, StdoutRef), Guard(t, Get(<<"sessions", n>>))}
              /\ scan[t].locks \subseteq Registered(n) \X PeerShards

\* The call a request serves there, and the registered session and the peer
\* connection it works on.
RequestDataOK(t) ==
    LET s == call[t].session
        p == call[t].peer
    IN  /\ call[t].op = "create_session" => created[t] > 0
        /\ at[t] \in {"len", "tally"} => call[t].op \in SessionOps
        /\ ServesPeer(t) \/ UsesPeer(t) => call[t].op \in PeerOps
        /\ at[t] \notin {"print", "len", "tally"} => scan[t].locks = {}
        /\ at[t] \in {"len", "tally"} \/ ServesPeer(t) => sessions[s] # None
        /\ at[t] \in {"len", "tally"} => scan[t].locks \subseteq PeerLocks(s)
        /\ UsesPeer(t) => sessions[s] # None /\ peer_connections[s][p] # None

\* The collector's guards on shard n of the sessions and on shard n of the peer
\* connections of session s.
InShard(n) == Guard(Metrics, Get(<<"sessions", n>>))
InPeerShard(s, n) == Guard(Metrics, GetMut(<<s, n>>))

MetricsGuardsOK ==
    LET s == cursor.session
        own == GuardsOf(Metrics)
        place == at[Metrics]
    IN  /\ place \in {"sleep", "dead", "count"} => own = {}
        /\ place = "shards" =>
               own = {} \/ \E n \in SessionShards : own = {InShard(n)}
        /\ place = "sessions" =>
               \E n \in SessionShards :
                   own = {InShard(n)} /\ cursor.sessions \subseteq Registered(n)
        /\ place \in {"peer_shards", "peers", "await", "resume"} =>
               s # None /\ cursor.sessions \cup {s} \subseteq Registered(SessionShard[s])
        /\ place = "peer_shards" =>
               \/ own = {InShard(SessionShard[s])}
               \/ \E n \in PeerShards \ cursor.peer_shards :
                   own = {InShard(SessionShard[s]), InPeerShard(s, n)}
        /\ place \in {"peers", "await", "resume"} =>
               \E n \in PeerShards \ cursor.peer_shards :
                   /\ own = {InShard(SessionShard[s]), InPeerShard(s, n)}
                   /\ cursor.peers \subseteq PeersIn(<<s, n>>)
                   /\ place # "peers" => cursor.peer \in PeersIn(<<s, n>>) \ cursor.peers

\* What the collector's iterators have not visited yet is left only where they
\* are alive.
CursorOK ==
    LET place == at[Metrics]
    IN  /\ place \in {"sleep", "dead", "count", "shards"} => cursor.sessions = {}
        /\ place \notin {"peer_shards", "peers", "await", "resume"} => cursor.session = None
        /\ place \notin {"peers", "await", "resume"} => cursor.peers = {}
        /\ place \notin {"await", "resume"} => cursor.peer = None

\* No two guards on a lock but read guards.
Exclusion ==
    \A h1, h2 \in hold :
        h1.lock = h2.lock => h1 = h2 \/ (h1.mode = "read" /\ h2.mode = "read")

\* Every task holds exactly the guards its place in the code calls for, on the
\* data it is working on, and no lock has a writer beside another guard.
LockDiscipline ==
    /\ \A t \in Requests : RequestGuardsOK(t) /\ RequestDataOK(t)
    /\ MetricsGuardsOK
    /\ CursorOK
    /\ Exclusion

-----------------------------------------------------------------------------
(***************************************************************************)
(* The data a task works on across its steps, awaits included: sessions it *)
(* has a Ref to or iterates over, peer connections it has a Ref to, iterates *)
(* over or tallies.                                                        *)
(***************************************************************************)
UsedSessions(t) ==
    IF t = Metrics THEN cursor.sessions \cup ({cursor.session} \ {None})
    ELSE IF at[t] \in {"len", "tally"} \/ ServesPeer(t) \/ UsesPeer(t)
         THEN {call[t].session}
         ELSE {l[1] : l \in scan[t].locks}

UsedPeers(t) ==
    IF t = Metrics
    THEN {cursor.session} \X (cursor.peers \cup ({cursor.peer} \ {None}))
    ELSE CASE at[t] \in {"len", "tally"} -> {call[t].session} \X PeerConnectionIds
           [] UsesPeer(t) -> {<<call[t].session, call[t].peer>>}
           [] OTHER -> {}

UsedDataKept ==
    \A t \in Tasks :
        /\ \A s \in UsedSessions(t) \cap UsedSessions(t)' : sessions'[s] = sessions[s]
        /\ \A u \in UsedPeers(t) \cap UsedPeers(t)' :
               peer_connections'[u[1]][u[2]] = peer_connections[u[1]][u[2]]

\* No step replaces, removes or changes a session or a peer connection that a
\* task goes on working on: what a handler looked up is what it answers for,
\* and what the collector awaits the stats of is what it writes the state to,
\* also when a session or a peer connection of the same id is created meanwhile
\* (Refs kept across the awaits of handlers.rs and data.rs).
UsedDataStable == [][UsedDataKept]_vars

\* The counts in an answer to get_stats add up, although SessionStats::from
\* takes them in two passes over a map that other tasks add to.
StatsSnapshot ==
    \A t \in Requests :
        answer[t].num_sending + answer[t].num_not_sending
            = answer[t].num_peer_connections

-----------------------------------------------------------------------------
(***************************************************************************)
(* Who waits for whom.                                                     *)
(***************************************************************************)
\* The lock that the next step of a task asks for, if any.
RequestWants(t) ==
    LET op == call[t].op
    IN  CASE at[t] = "begin" /\ op \in SessionOps                -> {SessionRefMut(t)}
          [] at[t] = "begin" /\ op \in PeerOps                   -> {SessionRef(t)}
          [] at[t] = "insert" /\ op = "create_session"           -> {SessionInsert(t)}
          [] at[t] = "insert" /\ op = "create_peer_connection"   -> {PeerInsert(t)}
          [] at[t] = "peer" /\ op = "create_peer_connection"     -> {SessionRefAgain(t)}
          [] at[t] = "peer" /\ op = "observer"                   -> {PeerRefMut(t)}
          [] at[t] = "peer" /\ op \in WebRTCOps \cup {"get_transceivers"}
                                                                 -> {PeerRef(t)}
          [] at[t] \in {"stdout", "past"}                        -> {StdoutRef}
          [] at[t] \in {"len", "tally", "print"} /\ scan[t].locks # {}
                                                                 -> {ScanRef(t)}
          [] at[t] = "print" /\ scan[t].locks = {} /\ scan[t].shards # {}
                                                                 -> {PrintRef(t)}
          [] OTHER                                               -> {}
MetricsWants ==
    CASE at[Metrics] \in {"shards", "count"} /\ cursor.shards # {} -> {MetricsRef}
      [] at[Metrics] = "peer_shards" /\ cursor.peer_shards # {} -> {MetricsPeerRefMut}
      [] OTHER -> {}
Wants(t) == IF t = Metrics THEN MetricsWants ELSE RequestWants(t)

WaitsFor(t, u) == \E r \in Wants(t), h \in hold : h.task = u /\ Conflict(h, r)

\* The one circle there is: add_track t keeps a peer connection while it waits to
\* print, add_track u keeps stdout while it prints all data and waits for a shard
\* of peer connections, and the collector keeps that shard while it waits for the
\* peer connection's.
PrintCircle(t, u) ==
    /\ at[t] = "past" /\ at[u] = "print"
    /\ WaitsFor(Metrics, t) /\ WaitsFor(t, u) /\ WaitsFor(u, Metrics)

\* A set of tasks that wait for one another (or one that waits for itself) is one
\* around a print circle, whatever the calls and the shards: nothing but the two
\* prints of add_track (handlers.rs:289 and 292) over the collector's iter_mut
\* (session.rs:143) makes the locks deadlock, neither the guards that handlers
\* keep across shards and awaits nor the second Ref of create_peer_connection.
OnlyPrintsDeadlock ==
    \A C \in (SUBSET Tasks) \ {{}} :
        (\A t \in C : \E u \in C : WaitsFor(t, u)) =>
            Metrics \in C /\ \E t, u \in C : PrintCircle(t, u)

\* A task that keeps a worker thread busy while it waits for a lock.
Spins(t) == t \in running /\ \E u \in Tasks : WaitsFor(t, u)

\* Waiting tasks never have only one another, or a task that nothing will wake, to
\* wait for, but around a print circle: some of them waits for a task outside, which
\* executes on a worker, or is at an await of libwebrtc or woken from it.  Nobody
\* waits for a guard that was kept over the collector's sleep or its panic, or after
\* an answer (Refs of handlers.rs, iterators of start_metrics_collection).
SomeoneProceeds ==
    \A C \in (SUBSET Tasks) \ {{}} :
        (\A t \in C : Spins(t)) =>
            \/ Metrics \in C /\ \E t, u \in C : PrintCircle(t, u)
            \/ \E t \in C, u \in Tasks \ C :
                /\ WaitsFor(t, u)
                /\ u \in running \/ at[u] \in {"await", "resume"}

-----------------------------------------------------------------------------
(***************************************************************************)
(* The calls take effect at once and in isolation: the server implements   *)
(* the service its clients see, though it serves them in several steps.    *)
(***************************************************************************)
Service == INSTANCE SessionService WITH
               sessions <- sessions, peer_connections <- peer_connections,
               call <- call, created <- created, answer <- answer
LinearizableService == Service!Spec

-----------------------------------------------------------------------------
(***************************************************************************)
(* Liveness.                                                               *)
(***************************************************************************)
\* From some moment on the clients make no new call.
ClientsQuiet == <>[][\A t \in Requests : at[t] = "idle" => at'[t] = "idle"]_vars

\* The collector awaits the stats of peer connection p of session s.
Collecting(s, p) == cursor.session = s /\ cursor.peer = p

\* The collector asks every registered peer connection for its stats again and
\* again, and goes on from it again and again.
StatsCollected ==
    \A s \in SessionIds, p \in PeerConnectionIds :
        /\ []<>(peer_connections[s][p] = None \/ Collecting(s, p))
        /\ []<>(peer_connections[s][p] = None \/ ~Collecting(s, p))

\* The locks never deadlock.
NoPrintCircle == [](\A t, u \in Requests : ~PrintCircle(t, u))

\* Every call is answered once the clients make no new ones and unless the prints
\* of add_track deadlock: none waits for ever for a lock that the collector or an
\* abandoned call has kept, and the collector does not starve behind the calls.
CallsAnswered ==
    ClientsQuiet /\ NoPrintCircle => \A t \in Requests : <>[](at[t] = "idle")

\* No session of polling_state_s = 0 is ever registered.
NeverZero == [](\A s \in SessionIds : sessions[s] # None => sessions[s].polling # 0)

\* The stats of every peer connection are collected for ever once the clients are
\* quiet, also when another one fails to give its stats again and again, unless a
\* session that polls every 0 seconds was ever registered or the prints of add_track
\* deadlock.
StatsCollectedUnlessZero ==
    ClientsQuiet /\ NeverZero /\ NoPrintCircle => StatsCollected

(***************************************************************************)
(* What the documents of the server say of it.                             *)
(***************************************************************************)
\* "Once a session is created, it can be started": start_session is answered,
\* also when the clients make no further calls.
SessionCanBeStartedWhenQuiet ==
    ClientsQuiet =>
        \A t \in Requests :
            (at[t] = "begin" /\ call[t].op = "start_session") ~> (at[t] = "idle")

\* "Stats are collected per session": of every session, whatever it polls and
\* whatever its clients have called.
StatsCollectedWhenQuiet == ClientsQuiet => StatsCollected

=============================================================================
