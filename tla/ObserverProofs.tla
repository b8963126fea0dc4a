--------------------------- MODULE ObserverProofs ---------------------------
(***************************************************************************)
(* Proofs about Observer, for any capacity of the channels, any budget and *)
(* any number of events.                                                   *)
(***************************************************************************)
EXTENDS Observer, TLAPS

USE ObserverAssumption

\* The task polls the stream only while the client is there.
OpenOnWorker == on_worker => stream = "open"

\* Only events that have happened were refused.
RefusedPast == \A k \in Channels : refused[k] \subseteq 1 .. emitted[k]

Inv == TypeOK /\ OpenOnWorker /\ RefusedPast

LEMMA KindsAreChannels == Kinds \subseteq Channels
BY DEF Channels

LEMMA InvInit == Init => Inv
<1> SUFFICES ASSUME Init
             PROVE  Inv
  OBVIOUS
<1>1. emitted \in [Channels -> 0 .. MaxEvents] /\ budget \in 0 .. Budget
  BY DEF Init
<1>2. channel \in [Channels -> Seq(Numbers)] /\ received \in [Kinds -> Seq(Numbers)]
  BY DEF Init, Empty
<1>3. refused \in [Channels -> SUBSET Numbers]
  BY DEF Init
<1>4. alive \in BOOLEAN /\ on_worker \in BOOLEAN /\ stream \in {"none", "open", "gone"}
  BY DEF Init
<1> QED
  BY <1>1, <1>2, <1>3, <1>4 DEF Init, Inv, TypeOK, OpenOnWorker, RefusedPast

\* A received event is one that was in its channel.
LEMMA HeadAndTail ==
    ASSUME NEW s \in Seq(Numbers), s # <<>>
    PROVE  Head(s) \in Numbers /\ Tail(s) \in Seq(Numbers)
OBVIOUS

LEMMA InvNext == Inv /\ [Next]_vars => Inv'
<1> SUFFICES ASSUME Inv, [Next]_vars
             PROVE  Inv'
  OBVIOUS
<1> USE DEF Inv
<1>1. ASSUME NEW k \in Channels, Emit(k)
      PROVE  Inv'
  <2>1. emitted[k] \in 0 .. MaxEvents /\ emitted[k] + 1 \in Numbers
    BY <1>1 DEF Emit, TypeOK, Numbers
  <2>2. channel' \in [Channels -> Seq(Numbers)]
    <3>1. Append(channel[k], emitted[k] + 1) \in Seq(Numbers)
      BY <2>1 DEF TypeOK
    <3> QED
      BY <1>1, <3>1 DEF Emit, TypeOK
  <2>3. refused' \in [Channels -> SUBSET Numbers]
    BY <1>1, <2>1 DEF Emit, TypeOK
  <2>4. emitted' \in [Channels -> 0 .. MaxEvents]
    BY <1>1, <2>1 DEF Emit, TypeOK, Numbers
  <2>5. RefusedPast'
    BY <1>1, <2>1 DEF Emit, TypeOK, RefusedPast
  <2> QED
    BY <1>1, <2>2, <2>3, <2>4, <2>5 DEF Emit, TypeOK, OpenOnWorker, taskVars
<1>2. CASE DropPeerConnection
  <2>1. Empty \in [Channels -> Seq(Numbers)]
    BY DEF Empty
  <2>2. channel' \in [Channels -> Seq(Numbers)]
    BY <1>2, <2>1 DEF DropPeerConnection, TypeOK
  <2> QED
    BY <1>2, <2>2 DEF DropPeerConnection, TypeOK, OpenOnWorker, RefusedPast, taskVars
<1>3. CASE TakeReceivers
  BY <1>3 DEF TakeReceivers, TypeOK, OpenOnWorker, RefusedPast, peerVars, taskVars
<1>4. CASE ClientLeaves
  BY <1>4, KindsAreChannels DEF ClientLeaves, TypeOK, OpenOnWorker, RefusedPast, peerVars, taskVars
<1>5. CASE Wake
  BY <1>5 DEF Wake, TypeOK, OpenOnWorker, RefusedPast, peerVars
<1>6. ASSUME NEW k \in Kinds, Recv(k)
      PROVE  Inv'
  <2>1. Head(channel[k]) \in Numbers /\ Tail(channel[k]) \in Seq(Numbers)
    BY <1>6, HeadAndTail, KindsAreChannels DEF Recv, TypeOK
  <2>2. received' \in [Kinds -> Seq(Numbers)]
    BY <1>6, <2>1 DEF Recv, TypeOK
  <2>3. channel' \in [Channels -> Seq(Numbers)]
    BY <1>6, <2>1 DEF Recv, TypeOK
  <2>4. budget' \in 0 .. Budget
    BY <1>6 DEF Recv, TypeOK
  <2> QED
    BY <1>6, <2>2, <2>3, <2>4 DEF Recv, TypeOK, OpenOnWorker, RefusedPast, peerVars
<1>7. ASSUME NEW k \in Kinds, RecvNone(k)
      PROVE  Inv'
  <2>1. budget' \in 0 .. Budget
    BY <1>7 DEF RecvNone, TypeOK
  <2> QED
    BY <1>7, <2>1 DEF RecvNone, TypeOK, OpenOnWorker, RefusedPast, peerVars
<1>8. CASE Suspend
  BY <1>8 DEF Suspend, TypeOK, OpenOnWorker, RefusedPast, peerVars
<1>9. CASE UNCHANGED vars
  BY <1>9 DEF vars, TypeOK, OpenOnWorker, RefusedPast, peerVars, taskVars
<1> QED
  BY <1>1, <1>2, <1>3, <1>4, <1>5, <1>6, <1>7, <1>8, <1>9 DEF Next, Poll

LEMMA InvAlways == Spec => []Inv
BY InvInit, InvNext, PTL DEF Spec

-----------------------------------------------------------------------------
\* The events that the client of EventStream has not got.
Waiting == [k \in Kinds |-> channel[k]]

LEMMA PromiseInit == Init => Promise!Init
<1> SUFFICES ASSUME Init
             PROVE  Promise!Init
  OBVIOUS
<1>1. Waiting = [k \in Kinds |-> <<>>]
  BY KindsAreChannels DEF Init, Empty, Waiting
<1> QED
  BY <1>1 DEF Init, Promise!Init, Waiting

\* A callback adds to what waits, or finds no room; leaving drops what waits; a
\* receive delivers the first event of its kind; no other step is visible.
LEMMA PromiseNext == Inv /\ [Next]_vars => [Promise!Next]_(Promise!vars)
<1> SUFFICES ASSUME Inv, [Next]_vars
             PROVE  Promise!Next \/ UNCHANGED <<stream, Waiting, received>>
  BY DEF Promise!vars, Waiting
<1> USE DEF Inv
<1>1. ASSUME NEW k \in Channels, Emit(k)
      PROVE  Promise!Next \/ UNCHANGED <<stream, Waiting, received>>
  <2>1. CASE channel' = channel
    BY <1>1, <2>1 DEF Emit, Waiting
  <2>2. CASE channel' # channel /\ k \notin Kinds
    <3>1. \A j \in Kinds : channel'[j] = channel[j]
      BY <1>1, <2>2, KindsAreChannels DEF Emit, TypeOK
    <3> QED
      BY <1>1, <3>1 DEF Emit, Waiting
  <2>3. CASE channel' # channel /\ k \in Kinds
    <3>1. emitted[k] + 1 \in Numbers
      BY <1>1 DEF Emit, TypeOK, Numbers
    <3>2. Waiting' = [Waiting EXCEPT ![k] = Append(@, emitted[k] + 1)]
      BY <1>1, <2>3, KindsAreChannels DEF Emit, TypeOK, Waiting
    <3>3. Promise!Take(k)
      BY <1>1, <3>1, <3>2 DEF Emit, Promise!Take, Waiting
    <3> QED
      BY <2>3, <3>3 DEF Promise!Next
  <2> QED
    BY <2>1, <2>2, <2>3
<1>2. ASSUME stream' = "gone", stream \in {"none", "open"}, received' = received,
             \A k \in Kinds : channel'[k] = <<>>
      PROVE  Promise!Next
  <2>1. Waiting' = [k \in Kinds |-> <<>>]
    BY <1>2 DEF Waiting
  <2>2. Promise!Leave
    BY <1>2, <2>1 DEF Promise!Leave, Waiting
  <2> QED
    BY <2>2 DEF Promise!Next
<1>3. CASE DropPeerConnection
  <2>1. CASE stream # "none"
    BY <1>3, <2>1 DEF DropPeerConnection, Waiting
  <2>2. CASE stream = "none"
    <3>1. stream' = "gone" /\ received' = received
      BY <1>3, <2>2 DEF DropPeerConnection
    <3>2. \A k \in Kinds : channel'[k] = <<>>
      BY <1>3, <2>2, KindsAreChannels DEF DropPeerConnection, Empty
    <3> QED
      BY <1>2, <2>2, <3>1, <3>2
  <2> QED
    BY <2>1, <2>2
<1>4. CASE TakeReceivers
  <2>1. Promise!Open
    BY <1>4 DEF TakeReceivers, Promise!Open, Waiting
  <2> QED
    BY <2>1 DEF Promise!Next
<1>5. CASE ClientLeaves
  <2>1. stream = "open" /\ stream' = "gone" /\ received' = received
    BY <1>5 DEF ClientLeaves
  <2>2. \A k \in Kinds : channel'[k] = <<>>
    BY <1>5, KindsAreChannels DEF ClientLeaves
  <2> QED
    BY <1>2, <2>1, <2>2
<1>6. CASE Wake
  BY <1>6 DEF Wake, Waiting
<1>7. ASSUME NEW k \in Kinds, Recv(k)
      PROVE  Promise!Next
  <2>1. stream = "open" /\ stream' = stream
    BY <1>7 DEF Recv, OpenOnWorker
  <2>2. Waiting[k] = channel[k] /\ Waiting[k] # <<>>
    BY <1>7 DEF Recv, Waiting
  <2>3. Waiting' = [Waiting EXCEPT ![k] = Tail(@)]
    BY <1>7, KindsAreChannels DEF Recv, TypeOK, Waiting
  <2>4. received' = [received EXCEPT ![k] = Append(@, Head(Waiting[k]))]
    BY <1>7, <2>2 DEF Recv
  <2>5. Promise!Deliver(k)
    BY <2>1, <2>2, <2>3, <2>4 DEF Promise!Deliver, Waiting
  <2> QED
    BY <2>5 DEF Promise!Next
<1>8. ASSUME NEW k \in Kinds, RecvNone(k)
      PROVE  UNCHANGED <<stream, Waiting, received>>
  BY <1>8 DEF RecvNone, Waiting
<1>9. CASE Suspend
  BY <1>9 DEF Suspend, Waiting
<1>10. CASE UNCHANGED vars
  BY <1>10 DEF vars, Waiting
<1> QED
  BY <1>1, <1>3, <1>4, <1>5, <1>6, <1>7, <1>8, <1>9, <1>10 DEF Next, Poll

\* The stream that observer returns implements EventStream: from a channel to the
\* client no event is lost, repeated or overtaken, whatever becomes of the client
\* and of the peer connection (observer).
THEOREM StreamKeepsPromise == Spec => StreamImplemented
<1>1. Spec => Promise!Init /\ [][Promise!Next]_(Promise!vars)
  BY PromiseInit, PromiseNext, InvAlways, PTL DEF Spec
<1> QED
  BY <1>1 DEF StreamImplemented, Promise!Spec

-----------------------------------------------------------------------------
(***************************************************************************)
(* No event is missing: what the client of kind k got and is to get.       *)
(***************************************************************************)
Told(k) == received[k] \o channel[k]

ToldOK(k) ==
    /\ InOrder(Told(k))
    /\ Elements(Told(k)) = (1 .. emitted[k]) \ refused[k]

LEMMA MoveHead ==
    ASSUME NEW r \in Seq(Numbers), NEW c \in Seq(Numbers), c # <<>>
    PROVE  Append(r, Head(c)) \o Tail(c) = r \o c
OBVIOUS

LEMMA ConcatAppend ==
    ASSUME NEW r \in Seq(Numbers), NEW c \in Seq(Numbers), NEW e \in Numbers
    PROVE  r \o Append(c, e) = Append(r \o c, e)
OBVIOUS

\* A number above all others can be added at the end.
LEMMA AppendNext ==
    ASSUME NEW s \in Seq(Numbers), NEW e \in Numbers, InOrder(s),
           \A n \in Elements(s) : n < e
    PROVE  InOrder(Append(s, e)) /\ Elements(Append(s, e)) = Elements(s) \cup {e}
<1> DEFINE t == Append(s, e)
<1>1. /\ DOMAIN t = 1 .. (Len(s) + 1) /\ DOMAIN s = 1 .. Len(s) /\ Len(s) \in Nat
      /\ \A i \in 1 .. Len(s) : t[i] = s[i]
      /\ t[Len(s) + 1] = e
  OBVIOUS
<1>2. InOrder(t)
  <2> SUFFICES ASSUME NEW i \in DOMAIN t, NEW j \in DOMAIN t, i < j
               PROVE  t[i] < t[j]
    BY DEF InOrder
  <2>1. CASE j = Len(s) + 1
    BY <1>1, <2>1 DEF Elements
  <2>2. CASE j # Len(s) + 1
    BY <1>1, <2>2 DEF InOrder
  <2> QED
    BY <2>1, <2>2
<1>3. Elements(t) = Elements(s) \cup {e}
  BY <1>1 DEF Elements
<1> QED
  BY <1>2, <1>3

\* What is true of the events of a kind stays so when only what concerns others
\* is changed.
LEMMA ToldFrame ==
    ASSUME NEW k \in Kinds, ToldOK(k), received'[k] = received[k],
           channel'[k] = channel[k], emitted'[k] = emitted[k],
           refused'[k] = refused[k]
    PROVE  ToldOK(k)'
<1>1. Told(k)' = Told(k)
  BY DEF Told
<1> QED
  BY <1>1 DEF ToldOK

LEMMA NoneMissingInit == Init => NoEventMissing
<1> SUFFICES ASSUME Init, NEW k \in Kinds
             PROVE  ToldOK(k)
  BY DEF NoEventMissing, ToldOK, Told
<1>1. Told(k) = <<>>
  BY KindsAreChannels DEF Init, Empty, Told
<1>2. emitted[k] = 0 /\ refused[k] = {}
  BY KindsAreChannels DEF Init
<1> QED
  BY <1>1, <1>2 DEF ToldOK, InOrder, Elements

\* A new event is either refused or comes last; a receive moves the first event
\* that waits behind those that were got.
LEMMA NoneMissingNext ==
    Inv /\ NoEventMissing /\ [Next]_vars => NoEventMissing'
<1> SUFFICES ASSUME Inv, [Next]_vars, stream' # "gone", NEW k \in Kinds,
                    stream # "gone" => ToldOK(k)
             PROVE  ToldOK(k)'
  BY DEF NoEventMissing, ToldOK, Told
<1> USE DEF Inv
<1>0. stream # "gone"
  BY DEF Next, Poll, Emit, DropPeerConnection, TakeReceivers, ClientLeaves, Wake,
         Recv, RecvNone, Suspend, vars
<1>k. k \in Channels
  BY KindsAreChannels
<1>1. ASSUME NEW j \in Channels, Emit(j)
      PROVE  ToldOK(k)'
  <2>1. CASE j # k
    <3>1. /\ received'[k] = received[k] /\ channel'[k] = channel[k]
          /\ emitted'[k] = emitted[k] /\ refused'[k] = refused[k]
      BY <1>1, <1>k, <2>1 DEF Emit, TypeOK
    <3> QED
      BY <1>0, <3>1, ToldFrame
  <2>2. CASE j = k
    <3> DEFINE e == emitted[k] + 1
    <3>1. /\ emitted[k] \in Nat /\ e \in Numbers /\ emitted'[k] = e
          /\ received' = received
      BY <1>1, <1>k, <2>2 DEF Emit, TypeOK, Numbers
    <3>2. received[k] \in Seq(Numbers) /\ channel[k] \in Seq(Numbers)
      BY <1>k DEF TypeOK
    <3>3. Elements(Told(k)) = (1 .. emitted[k]) \ refused[k] /\ InOrder(Told(k))
      BY <1>0 DEF ToldOK
    <3>4. CASE Len(channel[k]) >= Capacity
      <4>1. channel'[k] = channel[k] /\ refused'[k] = refused[k] \cup {e}
        BY <1>0, <1>1, <1>k, <2>2, <3>4 DEF Emit, TypeOK
      <4>2. Told(k)' = Told(k)
        BY <3>1, <4>1 DEF Told
      <4>3. (1 .. e) \ (refused[k] \cup {e}) = (1 .. emitted[k]) \ refused[k]
        BY <3>1
      <4> QED
        BY <3>1, <3>3, <4>1, <4>2, <4>3 DEF ToldOK
    <3>5. CASE ~(Len(channel[k]) >= Capacity)
      <4>1. channel'[k] = Append(channel[k], e) /\ refused'[k] = refused[k]
        BY <1>0, <1>1, <1>k, <2>2, <3>5 DEF Emit, TypeOK
      <4>2. Told(k)' = Append(Told(k), e)
        BY <3>1, <3>2, <4>1, ConcatAppend DEF Told
      <4>3. Told(k) \in Seq(Numbers)
        BY <3>2 DEF Told
      <4>4. \A n \in Elements(Told(k)) : n < e
        BY <3>1, <3>3
      <4>5. /\ InOrder(Told(k)')
            /\ Elements(Told(k)') = Elements(Told(k)) \cup {e}
        BY <3>1, <3>3, <4>2, <4>3, <4>4, AppendNext
      <4>6. e \notin refused[k]
        BY <1>k, <3>1 DEF RefusedPast
      <4>7. Elements(Told(k)') = (1 .. e) \ refused[k]
        BY <3>1, <3>3, <4>5, <4>6
      <4> QED
        BY <3>1, <4>1, <4>5, <4>7 DEF ToldOK
    <3> QED
      BY <3>4, <3>5
  <2> QED
    BY <2>1, <2>2
<1>2. ASSUME NEW j \in Kinds, Recv(j)
      PROVE  ToldOK(k)'
  <2>1. CASE j # k
    <3>1. /\ received'[k] = received[k] /\ channel'[k] = channel[k]
          /\ emitted'[k] = emitted[k] /\ refused'[k] = refused[k]
      BY <1>2, <1>k, <2>1 DEF Recv, TypeOK, peerVars
    <3> QED
      BY <1>0, <3>1, ToldFrame
  <2>2. CASE j = k
    <3>1. /\ received'[k] = Append(received[k], Head(channel[k]))
          /\ channel'[k] = Tail(channel[k]) /\ channel[k] # <<>>
          /\ emitted' = emitted /\ refused' = refused
      BY <1>2, <1>k, <2>2 DEF Recv, TypeOK, peerVars
    <3>2. Told(k)' = Told(k)
      BY <1>k, <3>1, MoveHead DEF Told, TypeOK
    <3> QED
      BY <1>0, <3>1, <3>2 DEF ToldOK
  <2> QED
    BY <2>1, <2>2
<1>3. ASSUME UNCHANGED <<received, channel, emitted, refused>>
      PROVE  ToldOK(k)'
  BY <1>0, <1>3, ToldFrame
<1>4. CASE DropPeerConnection
  BY <1>3, <1>4 DEF DropPeerConnection
<1>5. CASE TakeReceivers \/ Wake \/ Suspend \/ UNCHANGED vars \/ (\E j \in Kinds : RecvNone(j))
  BY <1>3, <1>5 DEF TakeReceivers, Wake, Suspend, RecvNone, vars, peerVars
<1>6. CASE ClientLeaves
  BY <1>6 DEF ClientLeaves
<1> QED
  BY <1>1, <1>2, <1>4, <1>5, <1>6 DEF Next, Poll

\* While the client stays it gets all events but those that found their channel
\* full, in their order (observer, PeerConnectionManager::new).
THEOREM NoneMissing == Spec => []NoEventMissing
BY NoneMissingInit, NoneMissingNext, InvAlways, PTL DEF Spec

=============================================================================
