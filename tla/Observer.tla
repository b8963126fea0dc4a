------------------------------ MODULE Observer ------------------------------
(***************************************************************************)
(* The events of one peer connection: libwebrtc puts them into bounded     *)
(* channels, and the stream that the observer rpc hands out takes them     *)
(* from there.  The stream is polled by a task on a worker thread; tokio's *)
(* channels make a task give its worker up after a budget of receives.     *)
(***************************************************************************)
EXTENDS Naturals, Sequences

CONSTANTS
    Capacity,   \* of each channel (CONNECTION_STATE_BUFFERING and the others)
    Budget,     \* the receives that tokio grants a task between suspensions
    MaxEvents   \* bound: the events of each kind that libwebrtc has

ASSUME ObserverAssumption ==
    Capacity \in Nat /\ Budget \in Nat \ {0} /\ MaxEvents \in Nat

\* The events that the stream selects from; those of the third channel of a
\* peer connection are never received (_connection_state_rx).
Kinds == {"video_track", "ice_candidate"}
Channels == Kinds \cup {"connection_state"}

VARIABLES
    alive,      \* the peer connection has not been replaced or dropped
    emitted,    \* the number of events of each kind so far
    channel,    \* the buffered events of each kind, by their number
    refused,    \* the events that found their channel full
    stream,     \* "none" yet, "open" or "gone" with its client
    on_worker,  \* the task that polls the stream has a worker thread
    budget,     \* what is left of its budget
    received    \* history: the events that the client got

peerVars == <<alive, emitted, refused>>
taskVars == <<on_worker, budget>>
vars == <<peerVars, channel, stream, taskVars, received>>

Empty == [k \in Channels |-> <<>>]

Init ==
    /\ alive = TRUE
    /\ emitted = [k \in Channels |-> 0]
    /\ channel = Empty
    /\ refused = [k \in Channels |-> {}]
    /\ stream = "none"
    /\ on_worker = FALSE
    /\ budget = Budget
    /\ received = [k \in Kinds |-> <<>>]

-----------------------------------------------------------------------------
\* A callback of libwebrtc sends an event; the receivers are gone with the stream.
Emit(k) ==
    LET e == emitted[k] + 1
        closed == k \in Kinds /\ stream = "gone"
        full == Len(channel[k]) >= Capacity
    IN  /\ alive
        /\ emitted[k] < MaxEvents
        /\ emitted' = [emitted EXCEPT ![k] = e]
        /\ \/ ~closed /\ ~full /\ channel' = [channel EXCEPT ![k] = Append(@, e)]
           \/ (closed \/ full) /\ UNCHANGED channel
        /\ refused' = IF full /\ ~closed THEN [refused EXCEPT ![k] = @ \cup {e}]
                                         ELSE refused
        /\ UNCHANGED <<alive, stream, taskVars, received>>

\* It is replaced by one of the same id, or its session is: the senders are
\* dropped with it, and receivers that nobody took.
DropPeerConnection ==
    /\ alive
    /\ alive' = FALSE
    /\ \/ stream # "none" /\ UNCHANGED <<stream, channel>>
       \/ stream = "none" /\ stream' = "gone" /\ channel' = Empty
    /\ UNCHANGED <<emitted, refused, taskVars, received>>

\* observer takes both receivers; another call after that is refused.
TakeReceivers ==
    /\ alive
    /\ stream = "none"
    /\ stream' = "open"
    /\ UNCHANGED <<peerVars, channel, taskVars, received>>

\* hyper drops the stream when the client has cancelled the call.
ClientLeaves ==
    /\ stream = "open"
    /\ ~on_worker
    /\ stream' = "gone"
    /\ channel' = [k \in Channels |-> IF k \in Kinds THEN <<>> ELSE channel[k]]
    /\ UNCHANGED <<peerVars, taskVars, received>>

-----------------------------------------------------------------------------
\* The task is woken by an event or a closed channel, or, out of budget, by itself.
Wake ==
    /\ stream = "open"
    /\ ~on_worker
    /\ ~alive \/ \E k \in Kinds : channel[k] # <<>>
    /\ on_worker' = TRUE
    /\ budget' = Budget
    /\ UNCHANGED <<peerVars, channel, stream, received>>

\* The loop of the stream: select! takes an event of one channel and leaves the
\* other as it is, and the stream yields the event.
Recv_OnlyAlive(k) ==
    /\ on_worker /\ budget > 0
    /\ alive
    /\ channel[k] # <<>>
    /\ received' = [received EXCEPT ![k] = Append(@, Head(channel[k]))]
    /\ channel' = [channel EXCEPT ![k] = Tail(@)]
    /\ budget' = budget - 1
    /\ UNCHANGED <<peerVars, stream, on_worker>>
Recv_BothBranches(k) ==
    /\ on_worker /\ budget > 0
    /\ channel[k] # <<>>
    /\ received' = [received EXCEPT ![k] = Append(@, Head(channel[k]))]
    /\ channel' = [j \in Channels |-> IF j \in Kinds /\ channel[j] # <<>>
                                      THEN Tail(channel[j]) ELSE channel[j]]
    /\ budget' = budget - 1
    /\ UNCHANGED <<peerVars, stream, on_worker>>
Recv(k) ==
    /\ on_worker /\ budget > 0
    /\ channel[k] # <<>>
    /\ received' = [received EXCEPT ![k] = Append(@, Head(channel[k]))]
    /\ channel' = [channel EXCEPT ![k] = Tail(@)]
    /\ budget' = budget - 1
    /\ UNCHANGED <<peerVars, stream, on_worker>>

\* A closed channel gives None at once: the stream logs it and goes on, forever.
RecvNone_NotCounted(k) == on_worker /\ ~alive /\ channel[k] = <<>> /\ UNCHANGED vars
RecvNone(k) ==
    /\ on_worker /\ budget > 0
    /\ ~alive
    /\ channel[k] = <<>>
    /\ budget' = budget - 1
    /\ UNCHANGED <<peerVars, channel, stream, on_worker, received>>

\* No branch of select! is ready, or tokio says so for lack of budget.
Suspend ==
    /\ on_worker
    /\ budget = 0 \/ (alive /\ \A k \in Kinds : channel[k] = <<>>)
    /\ on_worker' = FALSE
    /\ UNCHANGED <<peerVars, channel, stream, budget, received>>

Poll == Suspend \/ \E k \in Kinds : Recv(k) \/ RecvNone(k)

Next ==
    \/ \E k \in Channels : Emit(k)
    \/ DropPeerConnection \/ TakeReceivers \/ ClientLeaves
    \/ Wake \/ Poll

Spec == Init /\ [][Next]_vars

(***************************************************************************)
(* Fairness.  A task that is woken gets a worker, which executes it, and   *)
(* select! polls its branches from a random one on, so it takes from each  *)
(* channel that has an event again and again.                              *)
(***************************************************************************)
Fairness ==
    /\ WF_vars(Wake) /\ WF_vars(Poll)
    /\ \A k \in Kinds : SF_vars(Recv(k))

FairSpec == Spec /\ Fairness

-----------------------------------------------------------------------------
Numbers == 1 .. MaxEvents

\* The type invariant.
TypeOK ==
    /\ alive \in BOOLEAN
    /\ emitted \in [Channels -> 0 .. MaxEvents]
    /\ channel \in [Channels -> Seq(Numbers)]
    /\ refused \in [Channels -> SUBSET Numbers]
    /\ stream \in {"none", "open", "gone"}
    /\ on_worker \in BOOLEAN
    /\ budget \in 0 .. Budget
    /\ received \in [Kinds -> Seq(Numbers)]

\* The stream implements the service that observer promises: no event that a
\* channel has taken is lost, repeated or overtaken by another of its kind, also
\* when select! abandons a receive or the peer connection is gone before the
\* client has all of them (observer).
Promise == INSTANCE EventStream WITH
               Events <- Numbers,
               client <- stream,
               waiting <- [k \in Kinds |-> channel[k]]
StreamImplemented == Promise!Spec

InOrder(s) == \A i, j \in DOMAIN s : i < j => s[i] < s[j]
Elements(s) == {s[i] : i \in DOMAIN s}

\* While the client stays, what it got and what it is still to get are exactly
\* the events that were not refused, in the order they happened.
NoEventMissing ==
    stream # "gone" => \A k \in Kinds :
        LET s == received[k] \o channel[k]
        IN  /\ InOrder(s)
            /\ Elements(s) = (1 .. emitted[k]) \ refused[k]

\* Every event that a channel has taken reaches the client in the end, unless it
\* leaves: neither events of the other kind nor a closed channel, which is always
\* ready, keep select! from it.
EventsReachClient ==
    \A k \in Kinds, e \in Numbers :
        (stream = "open" /\ e \in Elements(channel[k]))
            ~> (e \in Elements(received[k]) \/ stream = "gone")

\* The task gives up its worker again and again, even when the peer connection is
\* gone and the loop of its stream never ends nor waits.
WorkerReleased == []<>~on_worker

=============================================================================
