----------------------------- MODULE ServerData -----------------------------
(***************************************************************************)
(* The data of the load test server that its clients know of: the rpcs,    *)
(* their arguments and answers, the sessions and the peer connections.     *)
(***************************************************************************)
EXTENDS Naturals, FiniteSets

CONSTANTS
    SessionIds,         \* the session ids the clients use
    PeerConnectionIds,  \* the peer connection ids the clients use
    Requests,           \* the tasks that serve gRPC calls, one call at a time
    Ops,                \* the rpcs the clients call
    Pollings,           \* the values of polling_state_s the clients send
    LogLevels,          \* the log levels the clients send
    MaxCreates,         \* bound: the create_session calls of each request task
    None

\* The rpcs that await libwebrtc with a Ref to the peer connection.
WebRTCOps == {"create_offer", "create_answer", "set_local_description",
              "set_remote_description", "add_track", "add_transceiver"}
\* The rpcs on a peer connection.
PeerOps == WebRTCOps \cup
           {"create_peer_connection", "observer", "get_transceivers"}
\* The rpcs that call_session! serves.
SessionOps == {"start_session", "stop_session", "get_stats"}
AllOps == PeerOps \cup SessionOps \cup {"create_session"}

ASSUME DataAssumption ==
    /\ Ops \subseteq AllOps
    /\ Pollings \subseteq Nat
    /\ MaxCreates \in [Requests -> Nat]
    /\ IsFiniteSet(PeerConnectionIds)
    /\ None \notin SessionIds \cup PeerConnectionIds

\* A session is told apart from another of the same id by the create_session
\* call it comes from: the task that served it and the task's count of them.
Births == {b \in Requests \X Nat : b[2] \in 1 .. MaxCreates[b[1]]}

SessionStates == {"Created", "Started", "Stopped"}
Sessions == [born : Births, state : SessionStates,
             polling : Pollings, log_level : LogLevels]
NewSessionOf(birth, c) == [born |-> birth, state |-> "Created",
                           polling |-> c.polling, log_level |-> c.log_level]

\* sending: VideoSendState is Sending; observed: the receivers were taken.
PeerConnections == [sending : BOOLEAN, observed : BOOLEAN]
NewPeerConnection == [sending |-> FALSE, observed |-> FALSE]
NoPeerConnections == [p \in PeerConnectionIds |-> None]

ASSUME NoneAssumption == None \notin Sessions /\ None \notin PeerConnections

Calls ==
    [op : Ops \cap {"create_session"}, session : SessionIds, peer : {None},
     polling : Pollings, log_level : LogLevels]
    \cup [op : Ops \cap SessionOps, session : SessionIds, peer : {None},
          polling : {None}, log_level : {None}]
    \cup [op : Ops \cap PeerOps, session : SessionIds,
          peer : PeerConnectionIds, polling : {None}, log_level : {None}]
NoCall == [op |-> "none", session |-> None, peer |-> None,
           polling |-> None, log_level |-> None]

Replies == [status : {"none", "ok", "error", "cancelled"},
            num_peer_connections : Nat, num_sending : Nat, num_not_sending : Nat]
Reply(status) == [status |-> status, num_peer_connections |-> 0,
                  num_sending |-> 0, num_not_sending |-> 0]

=============================================================================
