-------------------------- MODULE WebRTCPoolProofs --------------------------
(***************************************************************************)
(* Proof that the factories of a WebRTCPool are shared out evenly, for any *)
(* number of factories and of calls that run at once.                      *)
(***************************************************************************)
EXTENDS WebRTCPool, FiniteSetTheorems, TLAPS

PoolTypes ==
    /\ count \in [Factories -> Nat]
    /\ item \in [Creators -> Factories]
    /\ next \in [Creators -> 0 .. Len(Order) + 1]
    /\ x_count \in [Creators -> Nat \cup {-1}]

\* What min_by has loaded of the count of item can only have become too low.
LoadedOK ==
    \A t \in Creators : x_count[t] # -1 =>
        next[t] \in 2 .. Len(Order) /\ x_count[t] <= count[item[t]]

\* The min_by of t can no longer choose g while the count of g is at most m: it
\* has compared g, or is about to and has loaded a count that is as low.
Decided(t, g, m) ==
    \E i \in 1 .. Len(Order) :
        /\ Order[i] = g
        /\ i < next[t] \/ (i = next[t] /\ x_count[t] \in 0 .. m)

\* The calls that will pass over g, counted m, for a factory counted k already.
Ahead(g, m, k) == {t \in Creators : Decided(t, g, m) /\ count[item[t]] >= k}

Calls == Cardinality(Creators)

AtMost(A, d) == A = {} \/ Cardinality(A) + d <= Calls

\* The higher a count is above that of g, the fewer calls will still raise it:
\* to bring it there, others of them have had to pass over g.
FewAhead ==
    \A g \in Factories : \A m, k \in Nat :
        count[g] <= m /\ m < k => AtMost(Ahead(g, m, k), k - m)

Inv == PoolTypes /\ LoadedOK /\ FewAhead /\ Balanced

LEMMA OrderHasFirst == Len(Order) \in Nat /\ 1 <= Len(Order) /\ Order[1] \in Factories
BY PoolAssumption

LEMMA OrderOfAll ==
    /\ \A i \in 1 .. Len(Order) : Order[i] \in Factories
    /\ \A g \in Factories : \E i \in 1 .. Len(Order) : Order[i] = g
BY PoolAssumption

LEMMA FiniteCalls == IsFiniteSet(Creators)
BY PoolAssumption

LEMMA CallsNat ==
    /\ Calls \in Nat
    /\ \A t \in Creators : Calls >= 1 /\ Cardinality(Creators \ {t}) = Calls - 1
BY FiniteCalls, FS_CardinalityType, FS_RemoveElement, FS_EmptySet DEF Calls

LEMMA FewerAhead ==
    ASSUME NEW B \in SUBSET Creators, NEW A \in SUBSET B, NEW d \in Nat, AtMost(B, d)
    PROVE  AtMost(A, d)
<1>1. IsFiniteSet(B)
  BY FiniteCalls, FS_Subset
<1>2. Cardinality(A) <= Cardinality(B) /\ Cardinality(A) \in Nat /\ Cardinality(B) \in Nat
  BY <1>1, FS_Subset, FS_CardinalityType
<1>3. CASE B = {}
  BY <1>3 DEF AtMost
<1>4. CASE Cardinality(B) + d <= Calls
  BY <1>2, <1>4, CallsNat DEF AtMost
<1> QED
  BY <1>3, <1>4 DEF AtMost

LEMMA InvInit == Init => Inv
<1> SUFFICES ASSUME Init
             PROVE  Inv
  OBVIOUS
<1>1. PoolTypes
  BY OrderHasFirst DEF Init, PoolTypes
<1>2. LoadedOK
  BY DEF Init, LoadedOK
<1>3. FewAhead
  <2>1. \A g, m, k : Ahead(g, m, k) = {}
    BY OrderHasFirst DEF Init, Ahead, Decided
  <2> QED
    BY <2>1 DEF FewAhead, AtMost
<1>4. Balanced
  <2>1. \A f \in Factories : count[f] = 0
    BY DEF Init
  <2> QED
    BY <2>1, CallsNat DEF Balanced, Calls
<1> QED
  BY <1>1, <1>2, <1>3, <1>4 DEF Inv

\* A step that changes no count, and adds no call to those ahead.
LEMMA NoneNewAhead ==
    ASSUME Inv, count' = count,
           \A g \in Factories : \A m, k \in Nat :
               count[g] <= m /\ m < k => Ahead(g, m, k)' \subseteq Ahead(g, m, k)
    PROVE  FewAhead' /\ Balanced'
<1>1. FewAhead'
  <2> SUFFICES ASSUME NEW g \in Factories, NEW m \in Nat, NEW k \in Nat,
                      count[g] <= m, m < k
               PROVE  AtMost(Ahead(g, m, k)', k - m)
    BY DEF FewAhead, AtMost, Calls
  <2>1. AtMost(Ahead(g, m, k), k - m)
    BY DEF Inv, FewAhead
  <2>2. Ahead(g, m, k)' \subseteq Ahead(g, m, k) /\ Ahead(g, m, k) \subseteq Creators
    BY DEF Ahead
  <2>3. k - m \in Nat
    OBVIOUS
  <2> QED
    BY <2>1, <2>2, <2>3, FewerAhead
<1>2. Balanced'
  BY DEF Inv, Balanced
<1> QED
  BY <1>1, <1>2

LEMMA IterateKeeps ==
    ASSUME Inv, NEW t \in Creators, Iterate(t)
    PROVE  Inv'
<1> USE DEF Inv
<1>1. /\ x_count[t] = -1 /\ count' = count /\ x_count' = x_count
      /\ next'[t] = 2 /\ item'[t] = Order[1]
      /\ \A u \in Creators \ {t} : next'[u] = next[u] /\ item'[u] = item[u]
  BY DEF Iterate, PoolTypes, LoadedOK
<1>2. PoolTypes'
  BY OrderHasFirst DEF Iterate, PoolTypes
<1>3. LoadedOK'
  BY <1>1 DEF LoadedOK
<1>4. ASSUME NEW g \in Factories, NEW m \in Nat, NEW k \in Nat, count[g] <= m, m < k,
             NEW u \in Creators, u \in Ahead(g, m, k)'
      PROVE  u \in Ahead(g, m, k)
  <2>1. CASE u = t
    <3>1. PICK i \in 1 .. Len(Order) :
              /\ Order[i] = g
              /\ i < next'[t] \/ (i = next'[t] /\ x_count'[t] \in 0 .. m)
      BY <1>4, <2>1 DEF Ahead, Decided
    <3>2. i = 1
      BY <1>1, <3>1, OrderHasFirst
    <3>3. count[g] >= k
      BY <1>1, <1>4, <2>1, <3>1, <3>2 DEF Ahead
    <3> QED
      BY <1>4, <3>3 DEF PoolTypes
  <2>2. CASE u # t
    BY <1>1, <1>4, <2>2 DEF Ahead, Decided
  <2> QED
    BY <2>1, <2>2
<1>5. \A g \in Factories : \A m, k \in Nat :
          count[g] <= m /\ m < k => Ahead(g, m, k)' \subseteq Ahead(g, m, k)
  BY <1>4 DEF Ahead
<1> QED
  BY <1>1, <1>2, <1>3, <1>5, NoneNewAhead

LEMMA LoadXKeeps ==
    ASSUME Inv, NEW t \in Creators, LoadX(t)
    PROVE  Inv'
<1> USE DEF Inv
<1>1. /\ next[t] \in 2 .. Len(Order)
      /\ count' = count /\ item' = item /\ next' = next
      /\ x_count'[t] = count[item[t]]
      /\ \A u \in Creators \ {t} : x_count'[u] = x_count[u]
  BY DEF LoadX, PoolTypes
<1>2. PoolTypes'
  BY DEF LoadX, PoolTypes
<1>3. LoadedOK'
  BY <1>1 DEF LoadedOK, PoolTypes
<1>4. ASSUME NEW g \in Factories, NEW m \in Nat, NEW k \in Nat, count[g] <= m, m < k,
             NEW u \in Creators, u \in Ahead(g, m, k)'
      PROVE  u \in Ahead(g, m, k)
  <2>1. count[item[u]] >= k
    BY <1>1, <1>4 DEF Ahead
  <2>2. CASE u = t
    <3>1. x_count'[t] \notin 0 .. m
      BY <1>1, <1>4, <2>1, <2>2 DEF PoolTypes
    <3> QED
      BY <1>1, <1>4, <2>1, <2>2, <3>1 DEF Ahead, Decided
  <2>3. CASE u # t
    BY <1>1, <1>4, <2>1, <2>3 DEF Ahead, Decided
  <2> QED
    BY <2>2, <2>3
<1>5. \A g \in Factories : \A m, k \in Nat :
          count[g] <= m /\ m < k => Ahead(g, m, k)' \subseteq Ahead(g, m, k)
  BY <1>4 DEF Ahead
<1> QED
  BY <1>1, <1>2, <1>3, <1>5, NoneNewAhead

LEMMA LoadYKeeps ==
    ASSUME Inv, NEW t \in Creators, LoadY(t)
    PROVE  Inv'
<1> DEFINE y == Order[next[t]]
<1> USE DEF Inv
<1>1. /\ next[t] \in 2 .. Len(Order) /\ y \in Factories /\ count' = count
      /\ x_count[t] # -1 /\ x_count'[t] = -1 /\ next'[t] = next[t] + 1
      /\ item'[t] = Preferred(t, y)
      /\ \A u \in Creators \ {t} :
             x_count'[u] = x_count[u] /\ next'[u] = next[u] /\ item'[u] = item[u]
  BY OrderHasFirst, OrderOfAll DEF LoadY, PoolTypes
<1>2. PoolTypes'
  BY <1>1, OrderHasFirst DEF LoadY, PoolTypes, Preferred
<1>3. LoadedOK'
  BY <1>1 DEF LoadedOK
<1>4. ASSUME NEW g \in Factories, NEW m \in Nat, NEW k \in Nat, count[g] <= m, m < k,
             NEW u \in Creators, u \in Ahead(g, m, k)'
      PROVE  u \in Ahead(g, m, k)
  <2>1. CASE u = t
    <3>1. PICK i \in 1 .. Len(Order) :
              /\ Order[i] = g
              /\ i < next'[t] \/ (i = next'[t] /\ x_count'[t] \in 0 .. m)
      BY <1>4, <2>1 DEF Ahead, Decided
    <3>2. i <= next[t]
      BY <1>1, <3>1
    <3>3. count[Preferred(t, y)] >= k
      BY <1>1, <1>4, <2>1 DEF Ahead
    <3>4. x_count[t] \in Nat /\ x_count[t] <= count[item[t]] /\ count[item[t]] \in Nat
          /\ count[y] \in Nat
      BY <1>1 DEF LoadedOK, PoolTypes
    <3>5. CASE x_count[t] > count[y]
      <4>1. count[y] >= k
        BY <3>3, <3>5 DEF Preferred
      <4>2. count[item[t]] >= k
        BY <3>4, <3>5, <4>1
      <4>3. g # y
        BY <1>4, <3>4, <4>1
      <4>4. i < next[t]
        BY <1>1, <3>1, <3>2, <4>3
      <4> QED
        BY <2>1, <3>1, <4>2, <4>4 DEF Ahead, Decided
    <3>6. CASE ~(x_count[t] > count[y])
      <4>1. count[item[t]] >= k
        BY <3>3, <3>6 DEF Preferred
      <4>2. i = next[t] => x_count[t] \in 0 .. m
        BY <1>4, <3>1, <3>4, <3>6
      <4>3. i < next[t] \/ i = next[t]
        BY <1>1, <3>2
      <4> QED
        BY <2>1, <3>1, <4>1, <4>2, <4>3 DEF Ahead, Decided
    <3> QED
      BY <3>5, <3>6
  <2>2. CASE u # t
    BY <1>1, <1>4, <2>2 DEF Ahead, Decided
  <2> QED
    BY <2>1, <2>2
<1>5. \A g \in Factories : \A m, k \in Nat :
          count[g] <= m /\ m < k => Ahead(g, m, k)' \subseteq Ahead(g, m, k)
  BY <1>4 DEF Ahead
<1> QED
  BY <1>1, <1>2, <1>3, <1>5, NoneNewAhead

\* A call that raises a count leaves those ahead of every other factory.
LEMMA FetchAddKeeps ==
    ASSUME Inv, NEW t \in Creators, FetchAdd(t)
    PROVE  Inv'
<1> DEFINE f == item[t]
           c == count[f]
<1> USE DEF Inv
<1>1. /\ next[t] = Len(Order) + 1 /\ next'[t] = 0 /\ item' = item /\ x_count' = x_count
      /\ f \in Factories /\ c \in Nat
      /\ \A u \in Creators \ {t} : next'[u] = next[u]
      /\ count[f] = c /\ count'[f] = c + 1
      /\ \A g \in Factories \ {f} : count'[g] = count[g]
  BY DEF FetchAdd, PoolTypes
<1>2. PoolTypes'
  BY OrderHasFirst DEF FetchAdd, PoolTypes
<1>3. LoadedOK'
  <2>1. x_count[t] = -1
    BY <1>1, OrderHasFirst DEF LoadedOK
  <2>2. \A g \in Factories : count[g] \in Nat /\ count'[g] \in Nat /\ count'[g] >= count[g]
    BY <1>1 DEF PoolTypes
  <2> QED
    BY <1>1, <2>1, <2>2 DEF LoadedOK, PoolTypes
<1>4. \A g \in Factories, m \in Nat : Decided(t, g, m) /\ ~Decided(t, g, m)'
  BY <1>1, OrderHasFirst, OrderOfAll DEF Decided
<1>5. \A u \in Creators \ {t}, g \in Factories, m \in Nat :
          Decided(u, g, m)' <=> Decided(u, g, m)
  BY <1>1 DEF Decided
<1> HIDE DEF f, c
<1>6. FewAhead'
  <2> SUFFICES ASSUME NEW g \in Factories, NEW m \in Nat, NEW k \in Nat,
                      count'[g] <= m, m < k
               PROVE  AtMost(Ahead(g, m, k)', k - m)
    BY DEF FewAhead, AtMost, Calls
  <2>0. \A x \in Factories : count[x] \in Nat
    BY DEF PoolTypes
  <2>1. count[g] <= m /\ k - m \in Nat
    <3>1. CASE g = f
      BY <1>1, <3>1
    <3>2. CASE g # f
      BY <1>1, <3>2
    <3> QED
      BY <3>1, <3>2
  <2>2. \A u \in Ahead(g, m, k)' :
            /\ u \in Creators \ {t} /\ Decided(u, g, m) /\ item[u] \in Factories
            /\ count'[item[u]] >= k
    BY <1>1, <1>4, <1>5 DEF Ahead, PoolTypes
  <2>3. CASE k # c + 1
    <3>1. ASSUME NEW u \in Ahead(g, m, k)' PROVE u \in Ahead(g, m, k)
      <4>1. count[item[u]] >= k
        <5>1. CASE item[u] = f
          BY <1>1, <2>2, <2>3, <5>1
        <5>2. CASE item[u] # f
          BY <1>1, <2>2, <5>2
        <5> QED
          BY <5>1, <5>2
      <4> QED
        BY <2>2, <4>1 DEF Ahead
    <3>2. AtMost(Ahead(g, m, k), k - m)
      BY <2>1 DEF FewAhead
    <3> QED
      BY <2>1, <3>1, <3>2, FewerAhead DEF Ahead
  <2>4. CASE k = c + 1 /\ m < c
    <3> DEFINE B == Ahead(g, m, c)
    <3>1. t \in B
      BY <1>1, <1>4 DEF Ahead, f, c
    <3>2. ASSUME NEW u \in Ahead(g, m, k)' PROVE u \in B \ {t}
      <4>1. count[item[u]] >= c
        BY <1>1, <2>0, <2>2, <2>4
      <4> QED
        BY <2>2, <4>1 DEF Ahead
    <3>3. AtMost(B, c - m)
      BY <1>1, <2>1, <2>4 DEF FewAhead
    <3>4. B \in SUBSET Creators /\ IsFiniteSet(B)
      BY FiniteCalls, FS_Subset DEF Ahead
    <3> HIDE DEF B
    <3>5. Cardinality(B \ {t}) = Cardinality(B) - 1 /\ Cardinality(B) \in Nat
      BY <3>1, <3>4, FS_RemoveElement, FS_CardinalityType
    <3>6. Cardinality(B) + (c - m) <= Calls
      BY <3>1, <3>3 DEF AtMost
    <3>7. AtMost(B \ {t}, k - m)
      BY <1>1, <2>4, <3>5, <3>6, CallsNat DEF AtMost
    <3> QED
      BY <2>1, <3>2, <3>4, <3>7, FewerAhead
  <2>5. CASE k = c + 1 /\ m = c
    <3>1. AtMost(Creators \ {t}, k - m)
      BY <1>1, <2>5, CallsNat DEF AtMost
    <3>2. Ahead(g, m, k)' \subseteq Creators \ {t}
      BY <2>2
    <3> QED
      BY <2>1, <3>1, <3>2, FewerAhead
  <2> QED
    BY <1>1, <2>3, <2>4, <2>5
<1>7. Balanced'
  <2> SUFFICES ASSUME NEW a \in Factories, NEW g \in Factories
               PROVE  count'[a] - count'[g] <= Calls
    BY DEF Balanced, Calls
  <2>1. /\ count[a] \in Nat /\ count[g] \in Nat /\ Calls \in Nat
        /\ count[a] - count[g] <= Calls
    BY CallsNat DEF Balanced, Calls, PoolTypes
  <2>2. CASE a # f \/ g = f
    BY <1>1, <2>1, <2>2, CallsNat
  <2>3. CASE a = f /\ g # f /\ count[g] < c
    <3>1. t \in Ahead(g, count[g], c)
      BY <1>1, <1>4, <2>1 DEF Ahead, f, c
    <3>2. AtMost(Ahead(g, count[g], c), c - count[g])
      BY <1>1, <2>1, <2>3 DEF FewAhead
    <3>3. IsFiniteSet(Ahead(g, count[g], c))
      BY FiniteCalls, FS_Subset DEF Ahead
    <3>4. Cardinality(Ahead(g, count[g], c)) \in Nat \ {0}
      BY <3>1, <3>3, FS_CardinalityType, FS_EmptySet
    <3>5. Cardinality(Ahead(g, count[g], c)) + (c - count[g]) <= Calls
      BY <3>1, <3>2 DEF AtMost
    <3> QED
      BY <1>1, <2>1, <2>3, <3>4, <3>5
  <2>4. CASE a = f /\ g # f /\ count[g] >= c
    <3>1. Calls >= 1
      BY CallsNat
    <3> QED
      BY <1>1, <2>1, <2>4, <3>1
  <2> QED
    BY <1>1, <2>1, <2>2, <2>3, <2>4
<1> QED
  BY <1>2, <1>3, <1>6, <1>7

LEMMA InvNext == Inv /\ [Next]_vars => Inv'
<1> SUFFICES ASSUME Inv, [Next]_vars
             PROVE  Inv'
  OBVIOUS
<1>1. CASE UNCHANGED vars
  BY <1>1 DEF vars, Inv, PoolTypes, LoadedOK, FewAhead, Balanced, AtMost, Calls, Ahead, Decided
<1>2. ASSUME NEW t \in Creators, Iterate(t) \/ LoadX(t) \/ LoadY(t) \/ FetchAdd(t)
      PROVE  Inv'
  BY <1>2, IterateKeeps, LoadXKeeps, LoadYKeeps, FetchAddKeeps
<1> QED
  BY <1>1, <1>2 DEF Next

\* The counts of two factories never differ by more than the number of calls that
\* run at once, for any pool and any number of them.
THEOREM SharedOut == Spec => []Balanced
<1>1. Inv => Balanced
  BY DEF Inv
<1> QED
  BY <1>1, InvInit, InvNext, PTL DEF Spec

=============================================================================
