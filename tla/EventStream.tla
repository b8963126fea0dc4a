----------------------------- MODULE EventStream -----------------------------
(***************************************************************************)
(* What observer promises to a client: the events of each kind come in     *)
(* order, each one once and none left out, from the moment a buffer has    *)
(* taken them until the client leaves.                                     *)
(***************************************************************************)
EXTENDS Sequences

CONSTANTS
    Kinds,      \* the kinds of events that an observer is told of
    Events      \* the events of each kind

VARIABLES
    client,     \* "none" yet, "open" or "gone"
    waiting,    \* the events of each kind that the client has not got
    received    \* the events of each kind that it has got

vars == <<client, waiting, received>>

Init ==
    /\ client = "none"
    /\ waiting = [k \in Kinds |-> <<>>]
    /\ received = [k \in Kinds |-> <<>>]

Take(k) ==
    /\ \E e \in Events : waiting' = [waiting EXCEPT ![k] = Append(@, e)]
    /\ UNCHANGED <<client, received>>

Open ==
    /\ client = "none"
    /\ client' = "open"
    /\ UNCHANGED <<waiting, received>>

Deliver(k) ==
    /\ client = "open"
    /\ waiting[k] # <<>>
    /\ received' = [received EXCEPT ![k] = Append(@, Head(waiting[k]))]
    /\ waiting' = [waiting EXCEPT ![k] = Tail(@)]
    /\ UNCHANGED client

\* The client leaves, or the events are dropped before one has come.
Leave ==
    /\ client \in {"none", "open"}
    /\ client' = "gone"
    /\ waiting' = [k \in Kinds |-> <<>>]
    /\ UNCHANGED received

Next == (\E k \in Kinds : Take(k) \/ Deliver(k)) \/ Open \/ Leave

Spec == Init /\ [][Next]_vars

=============================================================================
