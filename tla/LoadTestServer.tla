--------------------------- MODULE LoadTestServer ---------------------------
(***************************************************************************)
(* The gRPC handlers of the load test server and its metrics collection    *)
(* task, running as tokio tasks on a fixed number of worker threads over   *)
(* the two levels of DashMap they share: the sessions of the server and    *)
(* the peer connections of each session.                                   *)
(*                                                                         *)
(* A DashMap is split into shards, each behind a reader-writer spin lock.  *)
(* A task keeps a guard on a shard as long as it keeps a Ref into it, also *)
(* while it is suspended at an await.  A task that waits for a shard spins *)
(* and keeps its worker thread; so does one that waits for the lock of     *)
(* stdout, which a println! keeps while it formats what it prints.         *)
(***************************************************************************)
EXTENDS ServerData

CONSTANTS
    Metrics,            \* the task spawned by start_metrics_collection
    Workers,            \* the number of tokio worker threads
    SessionShard,       \* the shard of the sessions map an id hashes to
    PeerShard,          \* the shard of a peer_connections map an id hashes to
    Period              \* bound: elapsed is kept in 1..Period, see MetricsLen

ASSUME ServerAssumption ==
    /\ Metrics \notin Requests
    /\ {"sessions", "stdout"} \cap SessionIds = {}
    /\ PeerConnectionIds # {}
    /\ SessionShard \in [SessionIds -> Nat]
    /\ PeerShard \in [PeerConnectionIds -> Nat]
    /\ Workers \in Nat \ {0}
    /\ Period \in Nat \ {0}
    /\ \A k \in Pollings \ {0} : Period % k = 0

VARIABLES
    sessions,          \* Data.sessions: None or the session registered for an id
    peer_connections,  \* Session.peer_connections of the registered sessions
    log_level,         \* the process-wide libwebrtc log level
    producers,         \* the sessions whose frame producer thread runs
    call,              \* the call each request task serves
    created,           \* how many create_session calls each one has taken
    at,                \* where each task is in its code
    scan,              \* the loop over peer_connections shards of a handler
    answer,            \* what each request task last answered
    running,           \* the tasks that occupy a worker thread
    hold,              \* the guards held on shards and on stdout
    cursor             \* the local state of the metrics collection loop

dataVars == <<sessions, peer_connections, log_level, producers>>
vars == <<dataVars, call, created, at, scan, answer, running, hold, cursor>>

Tasks == Requests \cup {Metrics}
SessionShards == {SessionShard[s] : s \in SessionIds}
PeerShards == {PeerShard[p] : p \in PeerConnectionIds}

\* The entries of a map, or the shards of a map, in the order its iterator
\* visits them: a fixed order, which depends on the hash function.
First(S) == CHOOSE x \in S : TRUE

-----------------------------------------------------------------------------
(***************************************************************************)
(* DashMap: the lock of a shard admits readers while no guard is a write   *)
(* guard, and a writer when there is no guard at all.  No queue orders the *)
(* waiting tasks, so a reader may pass a waiting writer.  The lock of      *)
(* stdout has one owner at a time.                                         *)
(***************************************************************************)
SessionLock(s) == <<"sessions", SessionShard[s]>>
PeerLock(s, p) == <<s, PeerShard[p]>>
SessionLocks == {"sessions"} \X SessionShards
PeerLocks(s) == {s} \X PeerShards
StdoutLock == <<"stdout", 0>>
Locks == SessionLocks \cup (SessionIds \X PeerShards) \cup {StdoutLock}

\* A request for a lock, and the guard it gives a task once it is granted.
Get(l) == [lock |-> l, mode |-> "read"]
GetMut(l) == [lock |-> l, mode |-> "write"]
Guard(t, r) == [task |-> t, lock |-> r.lock, mode |-> r.mode]
GuardsOf(t) == {h \in hold : h.task = t}
Conflict(h, r) == h.lock = r.lock /\ "write" \in {h.mode, r.mode}
Granted(r) == \A h \in hold : ~Conflict(h, r)

\* The requests of the handlers: Data::get_session (create_peer_connection has
\* two), call_session!, Data::add_session, Session::get_peer_connection and
\* get_transceivers, observer, Session::add_peer_connection, println!, and the
\* loops over shards.
SessionRef(t) == Get(SessionLock(call[t].session))
SessionRefAgain_Mut(t) == GetMut(SessionLock(call[t].session))
SessionRefAgain(t) == Get(SessionLock(call[t].session))
SessionRefMut_Shared(t) == Get(SessionLock(call[t].session))
SessionRefMut(t) == GetMut(SessionLock(call[t].session))
SessionInsert(t) == GetMut(SessionLock(call[t].session))
PeerRef(t) == Get(PeerLock(call[t].session, call[t].peer))
PeerRefMut(t) == GetMut(PeerLock(call[t].session, call[t].peer))
PeerInsert(t) == GetMut(PeerLock(call[t].session, call[t].peer))
StdoutRef == GetMut(StdoutLock)
ScanRef(t) == Get(First(scan[t].locks))
PrintRef(t) == Get(<<"sessions", First(scan[t].shards)>>)
\* The requests of the metrics collection.
MetricsRef == Get(<<"sessions", First(cursor.shards)>>)
MetricsPeerRefMut_Shared == Get(<<cursor.session, First(cursor.peer_shards)>>)
MetricsPeerRefMut == GetMut(<<cursor.session, First(cursor.peer_shards)>>)

(***************************************************************************)
(* tokio: a task that is ready waits for a free worker thread and keeps it *)
(* until it is suspended or ends.  Waiting for a lock is not a suspension. *)
(***************************************************************************)
Ready(t) == at[t] \notin {"idle", "await", "sleep", "dead"} /\ t \notin running

Run(t) ==
    /\ Ready(t)
    /\ Cardinality(running) < Workers
    /\ running' = running \cup {t}
    /\ UNCHANGED <<dataVars, call, created, at, scan, answer, hold, cursor>>

\* A callback of libwebrtc completes the future the task awaits; or the client
\* resets its call, which wakes the task as well (see ResumeRequest).
Callback(t) ==
    /\ at[t] = "await"
    /\ at' = [at EXCEPT ![t] = "resume"]
    /\ UNCHANGED <<dataVars, call, created, scan, answer, running, hold, cursor>>

-----------------------------------------------------------------------------
(***************************************************************************)
(* Calls and answers.                                                      *)
(***************************************************************************)
NoScan == [shards |-> {}, locks |-> {}, num_peer_connections |-> 0,
           num_sending |-> 0, num_not_sending |-> 0]

\* The first thing the handler of an rpc does that other tasks can notice.
Entry(op) == CASE op = "create_session" -> "new"
               [] op = "add_track"      -> "stdout"
               [] OTHER                 -> "begin"

Call(t) ==
    /\ at[t] = "idle"
    /\ \E c \in Calls :
        /\ c.op = "create_session" => created[t] < MaxCreates[t]
        /\ call' = [call EXCEPT ![t] = c]
        /\ at' = [at EXCEPT ![t] = Entry(c.op)]
        /\ scan' = [scan EXCEPT ![t].shards =
                        IF c.op = "add_track" THEN SessionShards ELSE {}]
        /\ created' = [created EXCEPT ![t] =
                           IF c.op = "create_session" THEN @ + 1 ELSE @]
    /\ answer' = [answer EXCEPT ![t] = Reply("none")]
    /\ UNCHANGED <<dataVars, running, hold, cursor>>

\* The handler returns: its guards are dropped and its worker is free.
Finish(t, reply) ==
    /\ at' = [at EXCEPT ![t] = "idle"]
    /\ call' = [call EXCEPT ![t] = NoCall]
    /\ scan' = [scan EXCEPT ![t] = NoScan]
    /\ answer' = [answer EXCEPT ![t] = reply]
    /\ running' = running \ {t}
    /\ hold' = hold \ GuardsOf(t)
    /\ UNCHANGED <<created, cursor>>

\* Task t is on a worker, at the given place of a handler of one of these rpcs.
Executes(t, place, ops) ==
    /\ t \in running
    /\ at[t] = place
    /\ call[t].op \in ops

-----------------------------------------------------------------------------
(***************************************************************************)
(* create_session.  Session::new sets the log level, starts the frame      *)
(* producer and builds the pool before the session is registered; when the *)
(* pool cannot be built the producer is dropped without a cancel, and      *)
(* whether that stops it is up to libwebrtc.                               *)
(***************************************************************************)
Born(t) == <<t, created[t]>>

NewSession(t) ==
    /\ Executes(t, "new", {"create_session"})
    /\ log_level' = call[t].log_level
    /\ \/ /\ producers' = producers \cup {Born(t)}
          /\ at' = [at EXCEPT ![t] = "insert"]
          /\ UNCHANGED <<call, created, scan, answer, running, hold, cursor>>
       \/ /\ producers' \in {producers, producers \cup {Born(t)}}
          /\ Finish(t, Reply("error"))
    /\ UNCHANGED <<sessions, peer_connections>>

\* add_session: the insert replaces a session of the same id, and the replaced
\* one is dropped, which cancels its frame producer.
InsertSession(t) ==
    LET s == call[t].session
        replaced == IF sessions[s] = None THEN {} ELSE {sessions[s].born}
    IN  /\ Executes(t, "insert", {"create_session"})
        /\ Granted(SessionInsert(t))
        /\ sessions' = [sessions EXCEPT ![s] = NewSessionOf(Born(t), call[t])]
        /\ peer_connections' = [peer_connections EXCEPT ![s] = NoPeerConnections]
        /\ producers' = producers \ replaced
        /\ Finish(t, Reply("ok"))
        /\ UNCHANGED log_level

(***************************************************************************)
(* start_session, stop_session: call_session! takes a write guard for the  *)
(* one call of Session::start or Session::stop.                            *)
(***************************************************************************)
StartSession(t) ==
    LET s == call[t].session
    IN  /\ Executes(t, "begin", {"start_session"})
        /\ Granted(SessionRefMut(t))
        /\ \/ /\ sessions[s] # None /\ sessions[s].state = "Created"
              /\ sessions' = [sessions EXCEPT ![s].state = "Started"]
              /\ Finish(t, Reply("ok"))
           \/ /\ ~(sessions[s] # None /\ sessions[s].state = "Created")
              /\ Finish(t, Reply("error"))
              /\ UNCHANGED sessions
        /\ UNCHANGED <<peer_connections, log_level, producers>>

StopSession(t) ==
    LET s == call[t].session
    IN  /\ Executes(t, "begin", {"stop_session"})
        /\ Granted(SessionRefMut(t))
        /\ \/ /\ sessions[s] # None /\ sessions[s].state = "Started"
              /\ sessions' = [sessions EXCEPT ![s].state = "Stopped"]
              /\ log_level' = "Error"
              /\ Finish(t, Reply("ok"))
           \/ /\ ~(sessions[s] # None /\ sessions[s].state = "Started")
              /\ Finish(t, Reply("error"))
              /\ UNCHANGED <<sessions, log_level>>
        /\ UNCHANGED <<peer_connections, producers>>

(***************************************************************************)
(* get_stats: call_session! keeps the write guard on the session while     *)
(* SessionStats::from counts the peer connections and then tallies their   *)
(* states, locking the shards of the session's map one after the other.    *)
(***************************************************************************)
PeersIn(l) == {p \in PeerConnectionIds :
                   PeerShard[p] = l[2] /\ peer_connections[l[1]][p] # None}

GetStats(t) ==
    LET s == call[t].session
    IN  /\ Executes(t, "begin", {"get_stats"})
        /\ Granted(SessionRefMut(t))
        /\ \/ /\ sessions[s] = None
              /\ Finish(t, Reply("error"))
           \/ /\ sessions[s] # None
              /\ hold' = hold \cup {Guard(t, SessionRefMut(t))}
              /\ scan' = [scan EXCEPT ![t].locks = PeerLocks(s)]
              /\ at' = [at EXCEPT ![t] = "len"]
              /\ UNCHANGED <<call, created, answer, running, cursor>>
        /\ UNCHANGED dataVars

StatsLen(t) ==
    /\ Executes(t, "len", {"get_stats"})
    /\ \/ /\ scan[t].locks = {}
          /\ at' = [at EXCEPT ![t] = "tally"]
          /\ scan' = [scan EXCEPT ![t].locks = PeerLocks(call[t].session)]
       \/ /\ scan[t].locks # {}
          /\ Granted(ScanRef(t))
          /\ LET l == First(scan[t].locks)
             IN  scan' = [scan EXCEPT
                        ![t].locks = @ \ {l},
                        ![t].num_peer_connections = @ + Cardinality(PeersIn(l))]
          /\ UNCHANGED at
    /\ UNCHANGED <<dataVars, call, created, answer, running, hold, cursor>>

StatsTally(t) ==
    /\ Executes(t, "tally", {"get_stats"})
    /\ scan[t].locks # {}
    /\ Granted(ScanRef(t))
    /\ LET l == First(scan[t].locks)
           sending == {p \in PeersIn(l) : peer_connections[l[1]][p].sending}
       IN  scan' = [scan EXCEPT
                  ![t].locks = @ \ {l},
                  ![t].num_sending = @ + Cardinality(sending),
                  ![t].num_not_sending = @ + Cardinality(PeersIn(l) \ sending)]
    /\ UNCHANGED <<dataVars, call, created, at, answer, running, hold, cursor>>

StatsReply(t) ==
    /\ Executes(t, "tally", {"get_stats"})
    /\ scan[t].locks = {}
    /\ Finish(t, [status |-> "ok",
                  num_peer_connections |-> scan[t].num_peer_connections,
                  num_sending |-> scan[t].num_sending,
                  num_not_sending |-> scan[t].num_not_sending])
    /\ UNCHANGED dataVars

-----------------------------------------------------------------------------
(***************************************************************************)
(* The rpcs on a peer connection: a read guard on the session comes first. *)
(***************************************************************************)
KeepSessionRef_Dropped(t) == hold' = hold
KeepSessionRef(t) == hold' = hold \cup {Guard(t, SessionRef(t))}

LookupSession(t) ==
    LET s == call[t].session
    IN  /\ Executes(t, "begin", PeerOps)
        /\ Granted(SessionRef(t))
        /\ \/ /\ sessions[s] = None
              /\ Finish(t, Reply("error"))
           \/ /\ sessions[s] # None
              /\ KeepSessionRef(t)
              /\ at' = [at EXCEPT ![t] = "peer"]
              /\ UNCHANGED <<call, created, scan, answer, running, cursor>>
        /\ UNCHANGED dataVars

\* create_peer_connection reads the session again while it keeps the first guard,
\* for the pool; it drops both together.  The pool creates the peer connection, or
\* fails to; the insert replaces one of the same id.
CreatePeerConnection(t) ==
    /\ Executes(t, "peer", {"create_peer_connection"})
    /\ Granted(SessionRefAgain(t))
    /\ \/ Finish(t, Reply("error"))
       \/ /\ at' = [at EXCEPT ![t] = "insert"]
          /\ UNCHANGED <<call, created, scan, answer, running, hold, cursor>>
    /\ UNCHANGED dataVars

InsertPeer_OrExisting(s, p) ==
    peer_connections' = [peer_connections EXCEPT
                             ![s][p] = IF @ = None THEN NewPeerConnection ELSE @]
InsertPeer(s, p) ==
    peer_connections' = [peer_connections EXCEPT ![s][p] = NewPeerConnection]

AddPeerConnection(t) ==
    LET s == call[t].session
        p == call[t].peer
    IN  /\ Executes(t, "insert", {"create_peer_connection"})
        /\ Granted(PeerInsert(t))
        /\ InsertPeer(s, p)
        /\ Finish(t, Reply("ok"))
        /\ UNCHANGED <<sessions, log_level, producers>>

\* observer: get_mut on the peer connection, whose receivers can be taken once.
Observer(t) ==
    LET s == call[t].session
        p == call[t].peer
        available == peer_connections[s][p] # None
                     /\ ~peer_connections[s][p].observed
    IN  /\ Executes(t, "peer", {"observer"})
        /\ Granted(PeerRefMut(t))
        /\ \/ /\ available
              /\ peer_connections' =
                     [peer_connections EXCEPT ![s][p].observed = TRUE]
              /\ Finish(t, Reply("ok"))
           \/ /\ ~available
              /\ Finish(t, Reply("error"))
              /\ UNCHANGED peer_connections
        /\ UNCHANGED <<sessions, log_level, producers>>

\* get_transceivers: the call into libwebrtc does not suspend the task.
GetTransceivers(t) ==
    LET s == call[t].session
        p == call[t].peer
    IN  /\ Executes(t, "peer", {"get_transceivers"})
        /\ Granted(PeerRef(t))
        /\ Finish(t, Reply(IF peer_connections[s][p] = None THEN "error" ELSE "ok"))
        /\ UNCHANGED dataVars

\* create_offer and the other rpcs that await libwebrtc with both guards held.
\* They fail before the await when the peer connection is unknown, the SDP does
\* not parse or the track cannot be created.
AwaitWebRTC(t) ==
    /\ at' = [at EXCEPT ![t] = "await"]
    /\ running' = running \ {t}
    /\ UNCHANGED <<call, created, scan, answer, cursor>>

CallWebRTC(t) ==
    LET s == call[t].session
        p == call[t].peer
    IN  /\ Executes(t, "peer", WebRTCOps \ {"add_track"})
        /\ Granted(PeerRef(t))
        /\ \/ Finish(t, Reply("error"))
           \/ /\ peer_connections[s][p] # None
              /\ hold' = hold \cup {Guard(t, PeerRef(t))}
              /\ AwaitWebRTC(t)
        /\ UNCHANGED dataVars

\* When the client has reset its call the handler is dropped where it awaits, and
\* its guards with it.
ResumeRequest(t) ==
    /\ Executes(t, "resume", WebRTCOps)
    /\ \E status \in {"ok", "error", "cancelled"} : Finish(t, Reply(status))
    /\ UNCHANGED dataVars

(***************************************************************************)
(* add_track first prints its arguments, and then the whole Data while it  *)
(* keeps the lock of stdout: the iterator keeps a read guard on one shard  *)
(* of the sessions map at a time, and the Debug of a session asks its      *)
(* peer_connections for their number, shard by shard.  It prints once more *)
(* when it has the Refs to the session and to the peer connection.         *)
(***************************************************************************)
Registered(n) == {s \in SessionIds : SessionShard[s] = n /\ sessions[s] # None}

\* The two println! follow each other with no guard kept in between: waiting for
\* stdout twice is waiting for it once.
LockStdout(t) ==
    /\ Executes(t, "stdout", {"add_track"})
    /\ Granted(StdoutRef)
    /\ hold' = hold \cup {Guard(t, StdoutRef)}
    /\ at' = [at EXCEPT ![t] = "print"]
    /\ UNCHANGED <<dataVars, call, created, scan, answer, running, cursor>>

PrintShard(t) ==
    /\ Executes(t, "print", {"add_track"})
    /\ scan[t].locks = {}
    /\ scan[t].shards # {}
    /\ Granted(PrintRef(t))
    /\ hold' = {h \in hold : h.task # t \/ h.lock = StdoutLock}
                   \cup {Guard(t, PrintRef(t))}
    /\ LET n == First(scan[t].shards)
       IN  scan' = [scan EXCEPT ![t].shards = @ \ {n},
                                   ![t].locks = Registered(n) \X PeerShards]
    /\ UNCHANGED <<dataVars, call, created, at, answer, running, cursor>>

PrintLen(t) ==
    /\ Executes(t, "print", {"add_track"})
    /\ scan[t].locks # {}
    /\ Granted(ScanRef(t))
    /\ scan' = [scan EXCEPT ![t].locks = @ \ {First(@)}]
    /\ UNCHANGED <<dataVars, call, created, at, answer, running, hold, cursor>>

PrintEnd(t) ==
    /\ Executes(t, "print", {"add_track"})
    /\ scan[t].locks = {}
    /\ scan[t].shards = {}
    /\ hold' = hold \ GuardsOf(t)
    /\ at' = [at EXCEPT ![t] = "begin"]
    /\ UNCHANGED <<dataVars, call, created, scan, answer, running, cursor>>

FindTrackPeer(t) ==
    LET s == call[t].session
        p == call[t].peer
    IN  /\ Executes(t, "peer", {"add_track"})
        /\ Granted(PeerRef(t))
        /\ \/ /\ peer_connections[s][p] = None
              /\ Finish(t, Reply("error"))
           \/ /\ peer_connections[s][p] # None
              /\ hold' = hold \cup {Guard(t, PeerRef(t))}
              /\ at' = [at EXCEPT ![t] = "past"]
              /\ UNCHANGED <<call, created, scan, answer, running, cursor>>
        /\ UNCHANGED dataVars

\* "got past here?": stdout's lock is taken and released, then the track is created
\* and the task suspended, or neither.
PrintPast(t) ==
    /\ Executes(t, "past", {"add_track"})
    /\ Granted(StdoutRef)
    /\ \/ Finish(t, Reply("error"))
       \/ AwaitWebRTC(t) /\ UNCHANGED hold
    /\ UNCHANGED dataVars

-----------------------------------------------------------------------------
(***************************************************************************)
(* start_metrics_collection.  Every pass visits the shards of the sessions *)
(* map under a read guard, and for each session the shards of its          *)
(* peer_connections under a write guard, which it keeps while it awaits    *)
(* the stats of a peer connection.  An iterator drops the guard of a shard *)
(* only when it has that of the next, or at its end.                       *)
(***************************************************************************)
NoCursor == [shards |-> {}, sessions |-> {}, session |-> None, poll |-> FALSE,
             peer_shards |-> {}, peers |-> {}, peer |-> None,
             found |-> FALSE, elapsed |-> 1]

MetricsAt(place) == Metrics \in running /\ at[Metrics] = place
MetricsTo(place) == at' = [at EXCEPT ![Metrics] = place]
Suspend(place) == MetricsTo(place) /\ running' = running \ {Metrics}

requestVars == <<call, created, scan, answer>>

\* interval.tick() fires.
MetricsTick ==
    /\ at[Metrics] = "sleep"
    /\ MetricsTo("shards")
    /\ cursor' = [cursor EXCEPT !.shards = SessionShards]
    /\ UNCHANGED <<dataVars, requestVars, running, hold>>

\* The iterator over the sessions is dropped, at its end or in a panic.
LeaveSessions_Leaked == hold' = hold
LeaveSessions == hold' = hold \ GuardsOf(Metrics)

MetricsShard ==
    /\ MetricsAt("shards")
    /\ \/ /\ cursor.shards = {}
          /\ LeaveSessions
          /\ cursor' = [cursor EXCEPT !.shards = SessionShards, !.found = FALSE]
          /\ MetricsTo("count")
       \/ /\ cursor.shards # {}
          /\ Granted(MetricsRef)
          /\ hold' = (hold \ GuardsOf(Metrics)) \cup {Guard(Metrics, MetricsRef)}
          /\ LET n == First(cursor.shards)
             IN  cursor' = [cursor EXCEPT !.shards = @ \ {n},
                                             !.sessions = Registered(n)]
          /\ MetricsTo("sessions")
    /\ UNCHANGED <<dataVars, requestVars, running>>

\* elapsed % polling_state_s panics when polling_state_s is 0: the task ends,
\* and its guard is dropped while it unwinds.
MetricsSession ==
    LET s == First(cursor.sessions)
    IN  /\ MetricsAt("sessions")
        /\ \/ /\ cursor.sessions = {}
              /\ MetricsTo("shards")
              /\ UNCHANGED <<running, hold, cursor>>
           \/ /\ cursor.sessions # {}
              /\ sessions[s].polling = 0
              /\ Suspend("dead")
              /\ LeaveSessions
              /\ cursor' = [NoCursor EXCEPT !.elapsed = cursor.elapsed]
           \/ /\ cursor.sessions # {}
              /\ sessions[s].polling # 0
              /\ cursor' = [cursor EXCEPT
                     !.sessions = @ \ {s},
                     !.session = s,
                     !.poll = (cursor.elapsed % sessions[s].polling = 0),
                     !.peer_shards = PeerShards]
              /\ MetricsTo("peer_shards")
              /\ UNCHANGED <<running, hold>>
        /\ UNCHANGED <<dataVars, requestVars>>

MetricsPeerShard ==
    LET s == cursor.session
        n == First(cursor.peer_shards)
        others == {h \in hold : h.task # Metrics \/ h.lock[1] = "sessions"}
    IN  /\ MetricsAt("peer_shards")
        /\ \/ /\ cursor.peer_shards = {}
              /\ hold' = others
              /\ cursor' = [cursor EXCEPT !.session = None, !.poll = FALSE]
              /\ MetricsTo("sessions")
           \/ /\ cursor.peer_shards # {}
              /\ Granted(MetricsPeerRefMut)
              /\ hold' = others \cup {Guard(Metrics, MetricsPeerRefMut)}
              /\ cursor' = [cursor EXCEPT !.peer_shards = @ \ {n},
                                          !.peers = PeersIn(<<s, n>>)]
              /\ MetricsTo("peers")
        /\ UNCHANGED <<dataVars, requestVars, running>>

\* export_stats awaits the stats of the next peer connection of the shard.
MetricsPeer ==
    /\ MetricsAt("peers")
    /\ \/ /\ cursor.peers = {}
          /\ MetricsTo("peer_shards")
          /\ UNCHANGED <<running, cursor>>
       \/ /\ cursor.peers # {}
          /\ Suspend("await")
          /\ cursor' = [cursor EXCEPT !.peers = @ \ {First(@)},
                                      !.peer = First(cursor.peers)]
    /\ UNCHANGED <<dataVars, requestVars, hold>>

\* The rest of export_stats: the send state follows the stats when this pass
\* polls it and the peer connection has a sender; errors are only logged.
ExportStats_Retried ==
    /\ MetricsAt("resume")
    /\ Suspend("await")
    /\ UNCHANGED <<dataVars, requestVars, hold, cursor>>
ExportStats ==
    /\ MetricsAt("resume")
    /\ \/ UNCHANGED peer_connections
       \/ /\ cursor.poll
          /\ \E b \in BOOLEAN :
              peer_connections' = [peer_connections EXCEPT
                  ![cursor.session][cursor.peer].sending = b]
    /\ cursor' = [cursor EXCEPT !.peer = None]
    /\ MetricsTo("peers")
    /\ UNCHANGED <<sessions, log_level, producers, requestVars, running, hold>>

\* data.sessions.len() locks the shards one after the other; elapsed counts
\* the passes while there are sessions.  Only elapsed % polling_state_s is ever
\* used, so elapsed is kept in 1 .. Period, a multiple of every polling value.
NextElapsed_FromZero == IF cursor.found THEN (cursor.elapsed % Period) + 1 ELSE 0
NextElapsed == IF cursor.found THEN (cursor.elapsed % Period) + 1 ELSE 1

MetricsLen ==
    /\ MetricsAt("count")
    /\ \/ /\ cursor.shards # {}
          /\ Granted(MetricsRef)
          /\ LET n == First(cursor.shards)
             IN  cursor' = [cursor EXCEPT !.shards = @ \ {n},
                                             !.found = @ \/ Registered(n) # {}]
          /\ UNCHANGED <<at, running>>
       \/ /\ cursor.shards = {}
          /\ cursor' = [cursor EXCEPT !.found = FALSE, !.elapsed = NextElapsed]
          /\ Suspend("sleep")
    /\ UNCHANGED <<dataVars, requestVars, hold>>

-----------------------------------------------------------------------------
Init ==
    /\ sessions = [s \in SessionIds |-> None]
    /\ peer_connections = [s \in SessionIds |-> NoPeerConnections]
    /\ log_level = "Error"
    /\ producers = {}
    /\ call = [t \in Requests |-> NoCall]
    /\ created = [t \in Requests |-> 0]
    /\ at = [t \in Tasks |-> IF t = Metrics THEN "sleep" ELSE "idle"]
    /\ scan = [t \in Requests |-> NoScan]
    /\ answer = [t \in Requests |-> Reply("none")]
    /\ running = {}
    /\ hold = {}
    /\ cursor = NoCursor

\* The steps of the handler that request task t executes on its worker.
Handle(t) ==
    \/ NewSession(t) \/ InsertSession(t)
    \/ StartSession(t) \/ StopSession(t)
    \/ GetStats(t) \/ StatsLen(t) \/ StatsTally(t) \/ StatsReply(t)
    \/ LookupSession(t) \/ CreatePeerConnection(t) \/ AddPeerConnection(t)
    \/ Observer(t)
    \/ GetTransceivers(t) \/ CallWebRTC(t) \/ ResumeRequest(t)
    \/ LockStdout(t) \/ PrintShard(t) \/ PrintLen(t) \/ PrintEnd(t)
    \/ FindTrackPeer(t) \/ PrintPast(t)

\* The steps of the metrics collection task on its worker.
Collect ==
    \/ MetricsShard \/ MetricsSession \/ MetricsPeerShard
    \/ MetricsPeer \/ ExportStats \/ MetricsLen

Next ==
    \/ \E t \in Requests : Call(t) \/ Handle(t)
    \/ Collect
    \/ MetricsTick
    \/ \E t \in Tasks : Run(t) \/ Callback(t)

Spec == Init /\ [][Next]_vars

(***************************************************************************)
(* Fairness.  tokio gives every ready task a worker once one is free, its  *)
(* timers fire, libwebrtc calls back, and a worker executes its task.  A   *)
(* waiting task retries without pause, so it does not miss a lock that is  *)
(* free over and over again.  Clients need not call.                       *)
(***************************************************************************)
Fairness ==
    /\ \A t \in Requests : SF_vars(Handle(t))
    /\ SF_vars(Collect)
    /\ WF_vars(MetricsTick)
    /\ \A t \in Tasks : WF_vars(Run(t)) /\ WF_vars(Callback(t))

FairSpec == Spec /\ Fairness

=============================================================================
