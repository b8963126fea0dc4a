----------------------------- MODULE WebRTCPool -----------------------------
(***************************************************************************)
(* How the create_peer_connection calls on one session share out the       *)
(* factories of its WebRTCPool.  The calls run in parallel on the workers: *)
(* they hold read guards only, and each load and each fetch_add on a count *)
(* is atomic while min_by as a whole is not.                               *)
(***************************************************************************)
EXTENDS Integers, Sequences, FiniteSets

CONSTANTS
    Creators,   \* the tasks that serve create_peer_connection
    Factories,  \* the factories of the pool, one for each cpu
    Order,      \* the order in which the iterator of factory_list visits them
    MaxCount    \* bound: no call begins once a count is MaxCount

ASSUME PoolAssumption ==
    /\ IsFiniteSet(Creators)
    /\ Factories # {}
    /\ Order \in Seq(Factories)
    /\ Factories = {Order[i] : i \in 1 .. Len(Order)}
    /\ MaxCount \in Nat

VARIABLES
    count,      \* WebRTCPoolItem.count of each factory
    item,       \* the factory that a call's min_by prefers so far
    next,       \* the position in Order of the one it compares with, 0 if idle
    x_count     \* what the comparison has loaded of the count of item, or -1

vars == <<count, item, next, x_count>>

Init ==
    /\ count = [f \in Factories |-> 0]
    /\ item = [t \in Creators |-> Order[1]]
    /\ next = [t \in Creators |-> 0]
    /\ x_count = [t \in Creators |-> -1]

\* min_by starts from the first factory that the iterator gives.
Iterate(t) ==
    /\ next[t] = 0
    /\ \A f \in Factories : count[f] < MaxCount
    /\ item' = [item EXCEPT ![t] = Order[1]]
    /\ next' = [next EXCEPT ![t] = 2]
    /\ UNCHANGED <<count, x_count>>

LoadX(t) ==
    /\ next[t] \in 2 .. Len(Order)
    /\ x_count[t] = -1
    /\ x_count' = [x_count EXCEPT ![t] = count[item[t]]]
    /\ UNCHANGED <<count, item, next>>

\* min_by keeps the earlier of two factories with the same count.
Preferred_Greater(t, y) == IF x_count[t] < count[y] THEN y ELSE item[t]
Preferred(t, y) == IF x_count[t] > count[y] THEN y ELSE item[t]

LoadY(t) ==
    /\ next[t] \in 2 .. Len(Order)
    /\ x_count[t] # -1
    /\ item' = [item EXCEPT ![t] = Preferred(t, Order[next[t]])]
    /\ x_count' = [x_count EXCEPT ![t] = -1]
    /\ next' = [next EXCEPT ![t] = @ + 1]
    /\ UNCHANGED count

\* The count is never taken back, not when the peer connection cannot be
\* created, nor when it is replaced or its session is dropped.
FetchAdd(t) ==
    /\ next[t] = Len(Order) + 1
    /\ count' = [count EXCEPT ![item[t]] = @ + 1]
    /\ next' = [next EXCEPT ![t] = 0]
    /\ UNCHANGED <<item, x_count>>

Next == \E t \in Creators : Iterate(t) \/ LoadX(t) \/ LoadY(t) \/ FetchAdd(t)

Spec == Init /\ [][Next]_vars

-----------------------------------------------------------------------------
\* The counts of two factories never differ by more than the number of calls
\* that run at once, although every call decides on counts that the others are
\* changing, each one loaded at another moment (create_peer_connection_manager).
Balanced ==
    \A f, g \in Factories : count[f] - count[g] <= Cardinality(Creators)

=============================================================================
