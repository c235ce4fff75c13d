---------------------------- MODULE ZbSubscribe ----------------------------
(***************************************************************************)
(* The event bus (zb_subscribe.c): a table of subscribers per event type   *)
(* under a mutex, a queue, and the task that calls the subscribers back    *)
(* while it holds the mutex.                                               *)
(***************************************************************************)
EXTENDS Integers, Sequences, FiniteSets

CONSTANTS
    Types,          \* zb_event_type_t
    Callbacks,
    Slots,          \* MAX_EVENT_SUBSCRIBERS
    QueueDepth,     \* NOTIFY_QUEUE_DEPTH
    Free            \* an inactive slot

VARIABLES
    table,          \* s_table
    locked,         \* notify_task holds s_mutex
    queue,          \* s_notify_queue
    evt, todo,      \* the event in delivery, its row of the table still to go
    emitted,        \* events emitted
    due             \* events in the bus that a callback has subscribed to

busVars == <<table, locked, queue, evt, todo, emitted, due>>

ASSUME BusAssumption ==
    /\ Slots \in Nat \ {0} /\ QueueDepth \in Nat \ {0} /\ Free \notin Callbacks

\* An event has a type, a number in the order of emission, and what it says.
Event(t, n, d) == [type |-> t, n |-> n, data |-> d]
NoEvent == Event("NONE", 0, "NONE")

Subscribed(cb, t) == \E i \in 1 .. Slots : table[t][i] = cb
NoRow == [i \in 1 .. Slots |-> Free]

-----------------------------------------------------------------------------

\* zb_subscribe(): the first free slot, if there is one.
Subscribe(cb, t) ==
    /\ ~locked
    /\ \/ \E i \in 1 .. Slots :
            /\ table[t][i] = Free
            /\ \A j \in 1 .. i - 1 : table[t][j] # Free
            /\ table' = [table EXCEPT ![t][i] = cb]
       \/ /\ \A i \in 1 .. Slots : table[t][i] # Free
          /\ UNCHANGED table
    /\ UNCHANGED <<locked, queue, evt, todo, emitted, due>>

\* zb_unsubscribe(): its first slot.
Unsubscribe(cb, t) ==
    /\ ~locked
    /\ \E i \in 1 .. Slots :
        /\ table[t][i] = cb
        /\ \A j \in 1 .. i - 1 : table[t][j] # cb
        /\ table' = [table EXCEPT ![t][i] = Free]
    /\ due' = [due EXCEPT ![cb] = {e \in @ : e.type # t}]
    /\ UNCHANGED <<locked, queue, evt, todo, emitted>>

\* A bug: an event is put in front of those that wait.
EmitInFront(t, d) ==
    LET e == Event(t, emitted + 1, d)
    IN  /\ emitted' = emitted + 1
        /\ IF Len(queue) < QueueDepth
           THEN /\ queue' = <<e>> \o queue
                /\ due' = [cb \in Callbacks |->
                             IF Subscribed(cb, t) THEN due[cb] \cup {e} ELSE due[cb]]
           ELSE UNCHANGED <<queue, due>>
        /\ UNCHANGED <<table, locked, evt, todo>>

\* A bug: the queue takes every event.
EmitUnbounded(t, d) ==
    LET e == Event(t, emitted + 1, d)
    IN  /\ emitted' = emitted + 1
        /\ queue' = Append(queue, e)
        /\ due' = [cb \in Callbacks |->
                     IF Subscribed(cb, t) THEN due[cb] \cup {e} ELSE due[cb]]
        /\ UNCHANGED <<table, locked, evt, todo>>

\* zb_event_emit() drops an event that finds the queue full.
Emit(t, d) ==
    LET e == Event(t, emitted + 1, d)
    IN  /\ emitted' = emitted + 1
        /\ IF Len(queue) < QueueDepth
           THEN /\ queue' = Append(queue, e)
                /\ due' = [cb \in Callbacks |->
                             IF Subscribed(cb, t) THEN due[cb] \cup {e} ELSE due[cb]]
           ELSE UNCHANGED <<queue, due>>
        /\ UNCHANGED <<table, locked, evt, todo>>

-----------------------------------------------------------------------------
(* notify_task() *)

TakeEvent ==
    /\ evt = NoEvent
    /\ queue # <<>>
    /\ evt' = Head(queue)
    /\ queue' = Tail(queue)
    /\ UNCHANGED <<table, locked, todo, emitted, due>>

\* A bug: the callbacks are called after the mutex has been given back.
LockBriefly ==
    /\ evt # NoEvent /\ ~locked /\ todo = NoRow
    /\ \/ table[evt.type] # NoRow /\ todo' = table[evt.type] /\ UNCHANGED evt
       \/ table[evt.type] = NoRow /\ evt' = NoEvent /\ UNCHANGED todo
    /\ UNCHANGED <<table, locked, queue, emitted, due>>

\* The table does not change until the mutex is given back.
Lock ==
    /\ evt # NoEvent /\ ~locked
    /\ locked' = TRUE
    /\ todo' = table[evt.type]
    /\ UNCHANGED <<table, queue, evt, emitted, due>>

\* The callback of the next active slot returns; what it does is its own.
Called(cb) ==
    /\ \E i \in 1 .. Slots :
        /\ todo[i] = cb
        /\ \A j \in 1 .. i - 1 : todo[j] = Free
        /\ todo' = [todo EXCEPT ![i] = Free]
    /\ due' = [due EXCEPT ![cb] = @ \ {evt}]
    /\ UNCHANGED <<table, locked, queue, evt, emitted>>

\* A bug: only the first subscriber is called.
UnlockEarly ==
    /\ locked /\ (todo = NoRow \/ todo # table[evt.type])
    /\ locked' = FALSE
    /\ evt' = NoEvent
    /\ todo' = NoRow
    /\ UNCHANGED <<table, queue, emitted, due>>

Unlock ==
    /\ locked /\ todo = NoRow
    /\ locked' = FALSE
    /\ evt' = NoEvent
    /\ UNCHANGED <<table, queue, todo, emitted, due>>

\* zb_subscribe_init()
BusInit ==
    /\ table = [t \in Types |-> NoRow]
    /\ locked = FALSE /\ queue = <<>> /\ evt = NoEvent /\ todo = NoRow
    /\ emitted = 0
    /\ due = [cb \in Callbacks |-> {}]

-----------------------------------------------------------------------------
(* Properties *)

BusTypeOK ==
    /\ table \in [Types -> [1 .. Slots -> Callbacks \cup {Free}]]
    /\ locked \in BOOLEAN
    /\ Len(queue) <= QueueDepth
    /\ \A i \in DOMAIN queue : queue[i].type \in Types /\ queue[i].n \in 1 .. emitted
    /\ todo \in [1 .. Slots -> Callbacks \cup {Free}]

\* No event is in the bus.
Settled == queue = <<>> /\ evt = NoEvent

\* The task of FR-5.8 leaves nothing out: a callback is called with every event
\* it had subscribed to when it was emitted, unless the queue was full or it has
\* unsubscribed, while others subscribe and unsubscribe.
AllHear == Settled => \A cb \in Callbacks : due[cb] = {}

\* Events are heard in the order they were emitted in, across their types: a
\* callback is called with the oldest of those it is due.
HeardInOrder == \A i \in 1 .. Slots :
    todo[i] # Free => \A e \in due[todo[i]] : evt.n <= e.n

\* No callback is called once zb_unsubscribe() has returned: who calls it may
\* free what the callback uses.
NoCallUnsubscribed == \A i \in 1 .. Slots :
    todo[i] # Free => Subscribed(todo[i], evt.type)
=============================================================================
