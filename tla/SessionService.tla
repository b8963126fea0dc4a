--------------------------- MODULE SessionService ---------------------------
(***************************************************************************)
(* What the gRPC service promises its clients: every call takes effect and *)
(* is answered in one step, on the sessions as they are at that moment.    *)
(***************************************************************************)
EXTENDS ServerData

VARIABLES
    sessions,          \* None or the session registered for an id
    peer_connections,  \* None or the peer connection registered for an id
    call,              \* the call each request task serves
    created,           \* how many create_session calls each one has taken
    answer             \* what each one last answered

vars == <<sessions, peer_connections, call, created, answer>>

Init ==
    /\ sessions = [s \in SessionIds |-> None]
    /\ peer_connections = [s \in SessionIds |-> NoPeerConnections]
    /\ call = [t \in Requests |-> NoCall]
    /\ created = [t \in Requests |-> 0]
    /\ answer = [t \in Requests |-> Reply("none")]

Receive(t) ==
    /\ call[t] = NoCall
    /\ \E c \in Calls :
        /\ c.op = "create_session" => created[t] < MaxCreates[t]
        /\ call' = [call EXCEPT ![t] = c]
        /\ created' = [created EXCEPT ![t] =
                           IF c.op = "create_session" THEN @ + 1 ELSE @]
    /\ answer' = [answer EXCEPT ![t] = Reply("none")]
    /\ UNCHANGED <<sessions, peer_connections>>

Serves(t, ops) == call[t].op \in ops

Answer(t, reply) ==
    /\ answer' = [answer EXCEPT ![t] = reply]
    /\ call' = [call EXCEPT ![t] = NoCall]
    /\ UNCHANGED created

Refuse(t) == Answer(t, Reply("error")) /\ UNCHANGED <<sessions, peer_connections>>

CreateSession(t) ==
    LET c == call[t]
    IN  /\ Serves(t, {"create_session"})
        /\ \/ /\ sessions' = [sessions EXCEPT ![c.session] =
                                  NewSessionOf(<<t, created[t]>>, c)]
              /\ peer_connections' =
                     [peer_connections EXCEPT ![c.session] = NoPeerConnections]
              /\ Answer(t, Reply("ok"))
           \/ Refuse(t)

InState(s, state) == sessions[s] # None /\ sessions[s].state = state

Advance(t, op, from, to) ==
    LET s == call[t].session
    IN  /\ Serves(t, {op})
        /\ \/ /\ InState(s, from)
              /\ sessions' = [sessions EXCEPT ![s].state = to]
              /\ Answer(t, Reply("ok"))
              /\ UNCHANGED peer_connections
           \/ /\ ~InState(s, from)
              /\ Refuse(t)

StartSession(t) == Advance(t, "start_session", "Created", "Started")
StopSession(t) == Advance(t, "stop_session", "Started", "Stopped")

\* The tallies are those of one moment.
GetStats(t) ==
    LET s == call[t].session
        peers == {p \in PeerConnectionIds : peer_connections[s][p] # None}
        sending == {p \in peers : peer_connections[s][p].sending}
    IN  /\ Serves(t, {"get_stats"})
        /\ \/ /\ sessions[s] = None
              /\ Refuse(t)
           \/ /\ sessions[s] # None
              /\ Answer(t, [status |-> "ok",
                            num_peer_connections |-> Cardinality(peers),
                            num_sending |-> Cardinality(sending),
                            num_not_sending |-> Cardinality(peers \ sending)])
              /\ UNCHANGED <<sessions, peer_connections>>

CreatePeerConnection(t) ==
    LET c == call[t]
    IN  /\ Serves(t, {"create_peer_connection"})
        /\ \/ /\ sessions[c.session] # None
              /\ peer_connections' = [peer_connections EXCEPT
                                          ![c.session][c.peer] = NewPeerConnection]
              /\ Answer(t, Reply("ok"))
              /\ UNCHANGED sessions
           \/ Refuse(t)

\* The events of a peer connection go to one observer only.
Observer(t) ==
    LET c == call[t]
        pc == peer_connections[c.session][c.peer]
    IN  /\ Serves(t, {"observer"})
        /\ \/ /\ pc # None /\ ~pc.observed
              /\ peer_connections' = [peer_connections EXCEPT
                                          ![c.session][c.peer].observed = TRUE]
              /\ Answer(t, Reply("ok"))
              /\ UNCHANGED sessions
           \/ /\ pc = None \/ pc.observed
              /\ Refuse(t)

\* The other rpcs change nothing but the peer connection inside libwebrtc; they
\* succeed only on one that is registered when they are answered.
UsePeerConnection(t) ==
    LET c == call[t]
    IN  /\ Serves(t, WebRTCOps \cup {"get_transceivers"})
        /\ \/ /\ peer_connections[c.session][c.peer] # None
              /\ Answer(t, Reply("ok"))
              /\ UNCHANGED <<sessions, peer_connections>>
           \/ Refuse(t)
           \/ /\ c.op \in WebRTCOps
              /\ Answer(t, Reply("cancelled"))
              /\ UNCHANGED <<sessions, peer_connections>>

\* The server polls the send state of a peer connection.
PollState(s, p) ==
    /\ peer_connections[s][p] # None
    /\ \E b \in BOOLEAN : peer_connections' =
                              [peer_connections EXCEPT ![s][p].sending = b]
    /\ UNCHANGED <<sessions, call, created, answer>>

Next ==
    \/ \E t \in Requests :
        \/ Receive(t)
        \/ CreateSession(t) \/ StartSession(t) \/ StopSession(t) \/ GetStats(t)
        \/ CreatePeerConnection(t) \/ Observer(t) \/ UsePeerConnection(t)
    \/ \E s \in SessionIds, p \in PeerConnectionIds : PollState(s, p)

Spec == Init /\ [][Next]_vars

=============================================================================
