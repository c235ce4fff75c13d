------------------------- MODULE ZbSubscribeProofs -------------------------
(***************************************************************************)
(* What holds of the event bus whoever uses it: an invariant that every    *)
(* operation of the bus preserves, and the properties that follow from it. *)
(***************************************************************************)
EXTENDS ZbSubscribe, TLAPS

IsQueue(q) == \E S : q \in Seq(S)

BusTyped ==
    /\ BusTypeOK
    /\ IsQueue(queue)
    /\ emitted \in Nat
    /\ DOMAIN due = Callbacks

\* The queue holds events in the order they were emitted in.
QueueOrdered ==
    \A i \in DOMAIN queue : \A j \in DOMAIN queue : i < j => queue[i].n < queue[j].n

\* The event in delivery is older than those that wait, and what is left of its
\* row is as in the table, which nobody can change meanwhile.
InDelivery ==
    /\ evt # NoEvent =>
           /\ evt.type \in Types /\ evt.n \in 1 .. emitted
           /\ \A i \in DOMAIN queue : evt.n < queue[i].n
    /\ locked => evt # NoEvent
    /\ ~locked => todo = NoRow
    /\ \A i \in 1 .. Slots : todo[i] # Free => todo[i] = table[evt.type][i]

\* Where the events are that a callback is still to be called with.
Waits(e) == \E i \in DOMAIN queue : queue[i] = e
IsCalled(cb) == evt # NoEvent /\ (locked => \E i \in 1 .. Slots : todo[i] = cb)
DueOnWay == \A cb \in Callbacks : \A e \in due[cb] :
    /\ Waits(e) \/ (e = evt /\ IsCalled(cb))
    /\ Subscribed(cb, e.type)

BusInv == BusTyped /\ QueueOrdered /\ InDelivery /\ DueOnWay

-----------------------------------------------------------------------------
(* Queues *)

LEMMA QueueShape ==
    ASSUME NEW q, IsQueue(q)
    PROVE  Len(q) \in Nat /\ DOMAIN q = 1 .. Len(q)
  BY DEF IsQueue

LEMMA QueueAppend ==
    ASSUME NEW q, IsQueue(q), NEW e
    PROVE  /\ IsQueue(Append(q, e))
           /\ Len(Append(q, e)) = Len(q) + 1
           /\ DOMAIN Append(q, e) = 1 .. Len(q) + 1
           /\ \A i \in 1 .. Len(q) : Append(q, e)[i] = q[i]
           /\ Append(q, e)[Len(q) + 1] = e
<1>1. PICK S : q \in Seq(S)
  BY DEF IsQueue
<1>2. q \in Seq(S \cup {e}) /\ e \in S \cup {e}
  BY <1>1
<1>3. Append(q, e) \in Seq(S \cup {e})
  BY <1>2
<1>. QED  BY <1>2, <1>3 DEF IsQueue

LEMMA QueueTail ==
    ASSUME NEW q, IsQueue(q), q # <<>>
    PROVE  /\ IsQueue(Tail(q))
           /\ Len(q) >= 1 /\ Head(q) = q[1]
           /\ Len(Tail(q)) = Len(q) - 1
           /\ DOMAIN Tail(q) = 1 .. Len(q) - 1
           /\ \A i \in 1 .. Len(q) - 1 : Tail(q)[i] = q[i + 1]
<1>1. PICK S : q \in Seq(S)
  BY DEF IsQueue
<1>2. Tail(q) \in Seq(S)
  BY <1>1
<1>. QED  BY <1>1, <1>2 DEF IsQueue

-----------------------------------------------------------------------------
(* Each operation preserves the invariant *)

LEMMA BusStarts == ASSUME BusInit PROVE BusInv
<1>. USE BusAssumption DEF BusInit
<1>1. IsQueue(queue) /\ Len(queue) = 0 /\ DOMAIN queue = {}
  BY DEF IsQueue
<1>2. BusTyped
  <2>1. NoRow \in [1 .. Slots -> Callbacks \cup {Free}]
    BY DEF NoRow
  <2>2. table \in [Types -> [1 .. Slots -> Callbacks \cup {Free}]]
    BY <2>1
  <2>3. Len(queue) <= QueueDepth
    BY <1>1
  <2>4. DOMAIN due = Callbacks /\ emitted \in Nat
    OBVIOUS
  <2>5. todo \in [1 .. Slots -> Callbacks \cup {Free}] /\ locked \in BOOLEAN
    BY <2>1
  <2>6. BusTypeOK
    BY <1>1, <2>2, <2>3, <2>5, Zenon DEF BusTypeOK
  <2>. QED  BY <1>1, <2>4, <2>6, Zenon DEF BusTyped
<1>3. QueueOrdered /\ InDelivery /\ DueOnWay
  BY <1>1 DEF QueueOrdered, InDelivery, DueOnWay, NoRow
<1>. QED  BY <1>2, <1>3 DEF BusInv

LEMMA BusSubscribe ==
    ASSUME BusInv, NEW cb \in Callbacks, NEW t \in Types, Subscribe(cb, t)
    PROVE  BusInv'
<1>. USE BusAssumption DEF BusInv, Subscribe
<1>1. /\ table' \in [Types -> [1 .. Slots -> Callbacks \cup {Free}]]
      /\ \A u \in Types : \A i \in 1 .. Slots :
             table[u][i] # Free => table'[u][i] = table[u][i]
  <2>1. table \in [Types -> [1 .. Slots -> Callbacks \cup {Free}]]
    BY DEF BusTyped, BusTypeOK
  <2>2. CASE UNCHANGED table
    BY <2>1, <2>2
  <2>3. CASE ~ UNCHANGED table
    <3>1. PICK i \in 1 .. Slots :
              table[t][i] = Free /\ table' = [table EXCEPT ![t][i] = cb]
      BY <2>3
    <3>. QED  BY <2>1, <3>1
  <2>. QED  BY <2>2, <2>3
<1>2. BusTyped'
  BY <1>1 DEF BusTyped, BusTypeOK
<1>3. InDelivery'
  BY <1>1 DEF InDelivery, NoRow, BusTyped, BusTypeOK
<1>4. ASSUME NEW ca \in Callbacks, NEW e \in due[ca]
      PROVE  Subscribed(ca, e.type)' /\ (Waits(e) \/ (e = evt /\ IsCalled(ca)))'
  <2>1. e.type \in Types
    BY DEF DueOnWay, Waits, IsCalled, InDelivery, BusTyped, BusTypeOK
  <2>. QED  BY <1>1, <2>1 DEF DueOnWay, Waits, IsCalled, Subscribed
<1>. QED  BY <1>2, <1>3, <1>4 DEF QueueOrdered, DueOnWay

LEMMA BusUnsubscribe ==
    ASSUME BusInv, NEW cb \in Callbacks, NEW t \in Types, Unsubscribe(cb, t)
    PROVE  BusInv'
<1>. USE BusAssumption DEF BusInv, Unsubscribe
<1>1. /\ table' \in [Types -> [1 .. Slots -> Callbacks \cup {Free}]]
      /\ \A u \in Types : \A i \in 1 .. Slots :
             (table[u][i] = cb /\ u = t) \/ table'[u][i] = table[u][i]
  BY DEF BusTyped, BusTypeOK
<1>2. BusTyped'
  BY <1>1 DEF BusTyped, BusTypeOK
<1>3. InDelivery'
  BY <1>1 DEF InDelivery, NoRow, BusTyped, BusTypeOK
<1>4. ASSUME NEW ca \in Callbacks, NEW e \in due'[ca]
      PROVE  Subscribed(ca, e.type)' /\ (Waits(e) \/ (e = evt /\ IsCalled(ca)))'
  <2>1. e \in due[ca] /\ (ca = cb => e.type # t)
    BY DEF BusTyped
  <2>2. e.type \in Types
    BY <2>1 DEF DueOnWay, Waits, IsCalled, InDelivery, BusTyped, BusTypeOK
  <2>. QED  BY <1>1, <2>1, <2>2 DEF DueOnWay, Waits, IsCalled, Subscribed
<1>. QED  BY <1>2, <1>3, <1>4 DEF QueueOrdered, DueOnWay

LEMMA BusEmit ==
    ASSUME BusInv, NEW t \in Types, NEW d, Emit(t, d)
    PROVE  BusInv'
<1>. USE BusAssumption DEF BusInv
<1>. DEFINE e == Event(t, emitted + 1, d)
<1>0. e.type = t /\ e.n = emitted + 1
  BY DEF Event
<1>1. UNCHANGED <<table, locked, evt, todo>> /\ emitted' = emitted + 1 /\ emitted \in Nat
  BY DEF Emit, BusTyped
<1>s. Len(queue) \in Nat /\ DOMAIN queue = 1 .. Len(queue) /\ IsQueue(queue)
  BY QueueShape DEF BusTyped
<1>2. CASE Len(queue) < QueueDepth
  <2>1. /\ queue' = Append(queue, e)
        /\ due' = [cb \in Callbacks |->
                      IF Subscribed(cb, t) THEN due[cb] \cup {e} ELSE due[cb]]
    BY <1>2 DEF Emit
  <2>. HIDE DEF e
  <2>2. /\ IsQueue(queue') /\ Len(queue') = Len(queue) + 1
        /\ DOMAIN queue' = 1 .. Len(queue) + 1
        /\ \A i \in 1 .. Len(queue) : queue'[i] = queue[i]
        /\ queue'[Len(queue) + 1] = e
    BY <1>s, <2>1, QueueAppend
  <2>3. BusTyped'
    BY <1>0, <1>1, <1>2, <1>s, <2>1, <2>2 DEF BusTyped, BusTypeOK
  <2>4. QueueOrdered'
    BY <1>0, <1>1, <1>s, <2>2 DEF QueueOrdered, BusTyped, BusTypeOK
  <2>5. InDelivery'
    BY <1>0, <1>1, <1>s, <2>2 DEF InDelivery, BusTyped, BusTypeOK
  <2>6. DueOnWay'
    <3>. SUFFICES ASSUME NEW cb \in Callbacks, NEW f \in due'[cb]
                  PROVE  Subscribed(cb, f.type)' /\ (Waits(f) \/ (f = evt /\ IsCalled(cb)))'
      BY DEF DueOnWay
    <3>1. (f = e /\ Subscribed(cb, t)) \/ f \in due[cb]
      BY <2>1
    <3>2. CASE f = e /\ Subscribed(cb, t)
      BY <1>0, <1>1, <1>s, <2>2, <3>2 DEF Waits, Subscribed
    <3>3. CASE f \in due[cb]
      BY <1>1, <1>s, <2>2, <3>3 DEF DueOnWay, Waits, IsCalled, Subscribed
    <3>. QED  BY <3>1, <3>2, <3>3
  <2>. QED  BY <2>3, <2>4, <2>5, <2>6
<1>3. CASE ~ (Len(queue) < QueueDepth)
  <2>1. UNCHANGED <<queue, due>>
    BY <1>3 DEF Emit
  <2>2. BusTyped' /\ QueueOrdered' /\ InDelivery'
    BY <1>1, <1>s, <2>1 DEF BusTyped, BusTypeOK, QueueOrdered, InDelivery
  <2>3. DueOnWay'
    BY <1>1, <2>1 DEF DueOnWay, Waits, IsCalled, Subscribed
  <2>. QED  BY <2>2, <2>3
<1>. QED  BY <1>2, <1>3

LEMMA BusTakeEvent == ASSUME BusInv, TakeEvent PROVE BusInv'
<1>. USE BusAssumption DEF BusInv, TakeEvent
<1>s. Len(queue) \in Nat /\ DOMAIN queue = 1 .. Len(queue) /\ IsQueue(queue)
  BY QueueShape DEF BusTyped
<1>1. /\ IsQueue(queue') /\ Len(queue) >= 1 /\ Len(queue') = Len(queue) - 1
      /\ DOMAIN queue' = 1 .. Len(queue) - 1
      /\ \A i \in 1 .. Len(queue) - 1 : queue'[i] = queue[i + 1]
      /\ evt' = queue[1]
  BY <1>s, QueueTail
<1>2. evt'.type \in Types /\ evt'.n \in 1 .. emitted /\ evt' # NoEvent
  BY <1>s, <1>1 DEF BusTyped, BusTypeOK, NoEvent, Event
<1>3. ~locked /\ ~locked' /\ todo = NoRow
  BY DEF InDelivery
<1>4. BusTyped'
  BY <1>s, <1>1 DEF BusTyped, BusTypeOK
<1>5. QueueOrdered'
  BY <1>s, <1>1 DEF QueueOrdered, BusTyped, BusTypeOK
<1>6. InDelivery'
  BY <1>s, <1>1, <1>2, <1>3 DEF InDelivery, QueueOrdered, NoRow
<1>7. ASSUME NEW cb \in Callbacks, NEW e \in due[cb]
      PROVE  Subscribed(cb, e.type)' /\ (Waits(e) \/ (e = evt /\ IsCalled(cb)))'
  <2>1. PICK i \in 1 .. Len(queue) : queue[i] = e
    BY <1>s DEF DueOnWay, Waits, IsCalled
  <2>2. CASE i = 1
    BY <1>1, <1>2, <1>3, <2>1, <2>2 DEF IsCalled, DueOnWay, Subscribed
  <2>3. CASE i # 1
    <3>1. i - 1 \in DOMAIN queue' /\ queue'[i - 1] = e
      BY <1>s, <1>1, <2>1, <2>3
    <3>. QED  BY <3>1 DEF Waits, DueOnWay, Subscribed
  <2>. QED  BY <2>2, <2>3
<1>. QED  BY <1>4, <1>5, <1>6, <1>7 DEF DueOnWay

LEMMA BusLock == ASSUME BusInv, Lock PROVE BusInv'
<1>. USE BusAssumption DEF BusInv, Lock
<1>1. BusTyped'
  BY DEF BusTyped, BusTypeOK, InDelivery
<1>2. QueueOrdered' /\ InDelivery'
  BY DEF QueueOrdered, InDelivery
<1>3. DueOnWay'
  BY DEF DueOnWay, Waits, IsCalled, Subscribed
<1>. QED  BY <1>1, <1>2, <1>3

LEMMA BusCalled == ASSUME BusInv, NEW cb \in Callbacks, Called(cb) PROVE BusInv'
<1>. USE BusAssumption DEF BusInv
<1>1. PICK i \in 1 .. Slots : todo[i] = cb /\ todo' = [todo EXCEPT ![i] = Free]
  BY DEF Called
<1>2. /\ UNCHANGED <<table, locked, queue, evt, emitted>>
      /\ due' = [due EXCEPT ![cb] = @ \ {evt}]
  BY DEF Called
<1>3. /\ todo' \in [1 .. Slots -> Callbacks \cup {Free}]
      /\ \A j \in 1 .. Slots : todo[j] = cb \/ todo'[j] = todo[j]
      /\ \A j \in 1 .. Slots : todo'[j] # Free => todo'[j] = todo[j]
  BY <1>1 DEF BusTyped, BusTypeOK
<1>4. locked
  BY <1>1 DEF InDelivery, NoRow
<1>5. BusTyped'
  BY <1>2, <1>3 DEF BusTyped, BusTypeOK
<1>6. QueueOrdered' /\ InDelivery'
  BY <1>2, <1>3, <1>4 DEF QueueOrdered, InDelivery
<1>7. ASSUME NEW ca \in Callbacks, NEW e \in due'[ca]
      PROVE  Subscribed(ca, e.type)' /\ (Waits(e) \/ (e = evt /\ IsCalled(ca)))'
  <2>1. e \in due[ca] /\ (ca = cb => e # evt)
    BY <1>2 DEF BusTyped
  <2>2. CASE Waits(e)
    BY <1>2, <2>1, <2>2 DEF Waits, DueOnWay, Subscribed
  <2>3. CASE ~Waits(e)
    <3>1. ca # cb /\ e = evt /\ evt # NoEvent
      BY <2>1, <2>3 DEF DueOnWay, IsCalled
    <3>2. PICK j \in 1 .. Slots : todo[j] = ca
      BY <1>4, <2>1, <2>3 DEF DueOnWay, IsCalled
    <3>3. todo'[j] = ca
      BY <1>3, <3>1, <3>2
    <3>. QED  BY <1>2, <2>1, <3>1, <3>3 DEF IsCalled, DueOnWay, Subscribed
  <2>. QED  BY <2>2, <2>3
<1>. QED  BY <1>5, <1>6, <1>7 DEF DueOnWay

LEMMA BusUnlock == ASSUME BusInv, Unlock PROVE BusInv'
<1>. USE BusAssumption DEF BusInv, Unlock
<1>1. BusTyped'
  BY DEF BusTyped, BusTypeOK
<1>2. QueueOrdered' /\ InDelivery'
  BY DEF QueueOrdered, InDelivery, NoRow
<1>3. ASSUME NEW cb \in Callbacks, NEW e \in due[cb]
      PROVE  Waits(e) /\ Subscribed(cb, e.type)
  BY <1>3 DEF DueOnWay, IsCalled, NoRow
<1>4. DueOnWay'
  BY <1>3 DEF DueOnWay, Waits, Subscribed
<1>. QED  BY <1>1, <1>2, <1>4

LEMMA BusStutters == ASSUME BusInv, UNCHANGED busVars PROVE BusInv'
<1>. USE DEF BusInv, busVars
<1>1. BusTyped' /\ QueueOrdered' /\ InDelivery'
  BY DEF BusTyped, BusTypeOK, QueueOrdered, InDelivery
<1>2. DueOnWay'
  BY DEF DueOnWay, Waits, IsCalled, Subscribed
<1>. QED  BY <1>1, <1>2

-----------------------------------------------------------------------------
(* What users of the bus rely on *)

\* Whatever zb_subscribe(), zb_unsubscribe(), zb_event_emit() and notify_task()
\* do, in any order and with any callbacks.
BusStep ==
    \/ \E cb \in Callbacks : Called(cb) \/ \E t \in Types : Subscribe(cb, t) \/ Unsubscribe(cb, t)
    \/ \E t \in Types : \E d : Emit(t, d)
    \/ TakeEvent \/ Lock \/ Unlock

\* Every operation of zb_subscribe.c preserves the invariant of the bus.
THEOREM BusPreserved ==
    ASSUME BusInv, BusStep \/ UNCHANGED busVars
    PROVE  BusInv'
  BY BusSubscribe, BusUnsubscribe, BusEmit, BusTakeEvent, BusLock, BusCalled, BusUnlock,
     BusStutters DEF BusStep

\* A bus in order has called everybody with what they were due once it is
\* empty, calls each callback with the oldest event it is due, and calls only
\* those that are subscribed.
THEOREM BusDelivers ==
    ASSUME BusInv
    PROVE  AllHear /\ HeardInOrder /\ NoCallUnsubscribed
<1>. USE BusAssumption DEF BusInv
<1>1. AllHear
  BY DEF AllHear, Settled, DueOnWay, Waits, IsCalled
<1>2. ASSUME NEW i \in 1 .. Slots, todo[i] # Free
      PROVE  todo[i] \in Callbacks /\ evt.type \in Types /\ evt.n \in Nat /\ locked
  BY <1>2 DEF BusTyped, BusTypeOK, InDelivery, NoRow
<1>3. ASSUME NEW i \in 1 .. Slots, todo[i] # Free, NEW e \in due[todo[i]]
      PROVE  evt.n <= e.n
  <2>1. Waits(e) \/ e = evt
    BY <1>2, <1>3 DEF DueOnWay
  <2>2. CASE Waits(e)
    BY <1>2, <1>3, <2>2 DEF Waits, InDelivery, BusTyped, BusTypeOK
  <2>. QED  BY <1>2, <1>3, <2>1, <2>2
<1>4. HeardInOrder
  BY <1>3 DEF HeardInOrder
<1>5. NoCallUnsubscribed
  BY <1>2 DEF NoCallUnsubscribed, Subscribed, InDelivery
<1>. QED  BY <1>1, <1>4, <1>5
=============================================================================
