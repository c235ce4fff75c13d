-------------------------- MODULE HubEventsProofs --------------------------
(***************************************************************************)
(* What holds of the event bus and its users whatever the depth of the     *)
(* queues, the number of slots and the reports of devices.                 *)
(***************************************************************************)
EXTENDS HubEvents, ZbSubscribeProofs

\* The application's callbacks stay subscribed, in the order of app_main().
SubscribedInv ==
    /\ mainpc <= 1 => table["READY"] = NoRow
    /\ mainpc >= 2 => Subscribed(OnNetwork, "READY")
    /\ mainpc <= 2 => table["LOST"] = NoRow
    /\ \A t \in Types : Subscribed(OnCap, t) => t = "CAP"

\* The events of the network that on_network_event is still to hear.
Status == IF fwpc = "serving" THEN "READY" ELSE "LOST"
OfNetwork(e) == e.type \in {"READY", "LOST"}
NetworkWaits == \E i \in DOMAIN queue : OfNetwork(queue[i])
NetworkCalled == OfNetwork(evt) /\ (locked => \E i \in 1 .. Slots : todo[i] = OnNetwork)

\* If none was lost, the last of them tells how the network is.
LastTells == \A i \in DOMAIN queue :
    /\ OfNetwork(queue[i])
    /\ \A j \in DOMAIN queue : j > i => ~OfNetwork(queue[j])
    => queue[i].type = Status
KnownInv ==
    /\ ~netLost =>
           /\ LastTells
           /\ NetworkCalled /\ ~NetworkWaits => evt.type = Status
           /\ ~NetworkCalled /\ ~NetworkWaits => known \in {"unknown", Status}
           /\ evt.type = "LOST" \/ (\E i \in DOMAIN queue : queue[i].type = "LOST")
                  => Subscribed(OnNetwork, "LOST")
    /\ known # "unknown" => Subscribed(OnNetwork, "READY")

\* A READY that main has subscribed to is in the queue, in delivery to
\* on_network_event or in its command, until the network has been opened.
ReadyIn == \/ \E i \in DOMAIN queue : queue[i].type = "READY"
           \/ evt.type = "READY" /\ (locked => \E i \in 1 .. Slots : todo[i] = OnNetwork)
ReadyOnWay == cmds > 0 \/ ReadyIn
OpenInv ==
    /\ heardReady => Subscribed(OnNetwork, "READY")
    /\ fwpc = "serving" /\ heardReady /\ ~asked => ReadyOnWay

\* Reports of cluster c, and events that tell its value.
ReportsOf(f, c) == f.cmd = "REPORT" /\ f.cluster = c
TellsOf(e, c) == e.type = "CAP" /\ e.data.cluster = c
InAir(c) == \E i \in DOMAIN air : ReportsOf(air[i], c)
InQueue(c) == \E i \in DOMAIN queue : TellsOf(queue[i], c)
InCall(c) == TellsOf(evt, c) /\ (locked => \E i \in 1 .. Slots : todo[i] = OnCap)

Newest(f) == LET r == f.records[Len(f.records)] IN Meaning(r.dtype, r.value)
Told(e, c) == Reads(e.data, ShownField[c])

\* Frames are in order: a report has records, and those of a cluster that is
\* shown say its value.
FrameOk(f) ==
    /\ f = Frame(f.cmd, f.cluster, f.records)
    /\ f.cmd = "REPORT" =>
           /\ f.records \in Seq(Attributes) /\ f.records # <<>>
           /\ \A i \in DOMAIN f.records :
                  /\ Fits(f.records[i])
                  /\ f.cluster \in ShownClusters => Says(f.cluster, f.records[i])
    /\ f.cmd = "STATUS_CHANGE" => f.cluster = "IASZone"
FramesOk ==
    /\ IsQueue(air)
    /\ \A i \in DOMAIN air : FrameOk(air[i])
    /\ FrameOk(frame)
    /\ frame = NoFrame \/ frame.cmd = "REPORT"

\* The last report of c that waits, and the last event that tells c's value, tell v.
AirLast(c, v) == \A i \in DOMAIN air :
    /\ ReportsOf(air[i], c)
    /\ \A j \in DOMAIN air : j > i => ~ReportsOf(air[j], c)
    => Newest(air[i]) = v
QueueLast(c, v) == \A i \in DOMAIN queue :
    /\ TellsOf(queue[i], c)
    /\ \A j \in DOMAIN queue : j > i => ~TellsOf(queue[j], c)
    => Told(queue[i], c) = v

\* What the device of a shown cluster reported last is what comes last on the way
\* to main.
AirTells(c) == AirLast(c, told[c])
FrameTells(c) == ~InAir(c) /\ ReportsOf(frame, c) => Newest(frame) = told[c]
QueueTells(c) == ~InAir(c) /\ ~ReportsOf(frame, c) => QueueLast(c, told[c])
CallTells(c) ==
    ~InAir(c) /\ ~ReportsOf(frame, c) /\ ~InQueue(c) /\ InCall(c) => Told(evt, c) = told[c]
ShownTells(c) ==
    ~InAir(c) /\ ~ReportsOf(frame, c) /\ ~InQueue(c) /\ ~InCall(c) => shown[c] = told[c]
LastComesLast(c) ==
    AirTells(c) /\ FrameTells(c) /\ QueueTells(c) /\ CallTells(c) /\ ShownTells(c)
CapHeard ==
    evt.type = "CAP" \/ (\E i \in DOMAIN queue : queue[i].type = "CAP")
        => Subscribed(OnCap, "CAP")
ShownInv == ~capLost =>
    /\ FramesOk /\ CapHeard
    /\ \A c \in ShownClusters : LastComesLast(c)

\* A value for each cluster.
ByCluster(f) == f = [c \in ShownClusters |-> f[c]]

Inv ==
    /\ BusInv /\ TypeOK /\ SubscribedInv /\ KnownInv /\ OpenInv /\ ShownInv
    /\ ByCluster(shown) /\ ByCluster(told)

-----------------------------------------------------------------------------
(* The capability layer on the clusters that main shows *)

LEMMA ShownAre ==
    /\ ShownClusters = {"OnOff", "LevelControl", "Temperature", "Humidity"}
    /\ ShownField["OnOff"] = "on_off" /\ ShownField["LevelControl"] = "level"
    /\ ShownField["Temperature"] = "temperature_hundredths"
    /\ ShownField["Humidity"] = "humidity_hundredths"
  BY DEF ShownClusters, ShownField

LEMMA Sizes ==
    /\ TypeSize["boolean"] = 1 /\ TypeSize["uint8"] = 1
    /\ TypeSize["int16"] = 2 /\ TypeSize["uint16"] = 2
  BY DEF TypeSize

\* A record that says the value of a shown cluster has the cluster's attribute
\* and its data type.
LEMMA SaysWhat ==
    ASSUME NEW c \in ShownClusters, NEW r, Says(c, r)
    PROVE  \/ c = "OnOff" /\ r.attr = "0000" /\ r.dtype = "boolean"
           \/ c = "LevelControl" /\ r.attr = "0000" /\ r.dtype = "uint8"
           \/ c = "Temperature" /\ r.attr = "0000" /\ r.dtype = "int16"
           \/ c = "Humidity" /\ r.attr = "0000" /\ r.dtype = "uint16"
<1>1. PICK s \in Standard : s[1] = c /\ s[2] = r.attr /\ s[3] = r.dtype
  BY DEF Says
<1>. QED  BY <1>1, ShownAre DEF Standard

\* One row of the table is for each of these clusters.
LEMMA OneRow ==
    ASSUME NEW row \in Translation
    PROVE  /\ row.cluster = "OnOff" => row = Row("OnOff", AnyAttr, 0, 1, "flag", "on_off")
           /\ row.cluster = "LevelControl" =>
                  row = Row("LevelControl", AnyAttr, 0, 1, "unsigned", "level")
           /\ row.cluster = "Temperature" =>
                  row = Row("Temperature", AnyAttr, 2, 2, "signed", "temperature_hundredths")
           /\ row.cluster = "Humidity" =>
                  row = Row("Humidity", AnyAttr, 2, 2, "unsigned", "humidity_hundredths")
  BY DEF Translation, Row

LEMMA TranslateByRow ==
    ASSUME NEW c, NEW r, NEW b \in Translation, b.cluster = c, b.attr = AnyAttr,
           TypeSize[r.dtype] >= b.least,
           \A row \in Translation : row.cluster = c => row = b
    PROVE  Translate(c, r) = Typed(b.field, Convert(b, r.value))
<1>. DEFINE rows == {row \in Translation : row.cluster = c}
            fits(row) == row.attr \in {AnyAttr, r.attr} /\ TypeSize[r.dtype] >= row.least
<1>1. rows = {b} /\ fits(b)
  OBVIOUS
<1>2. (CHOOSE row \in rows : fits(row)) = b
  <2>1. \E row \in rows : fits(row)
    BY <1>1
  <2>2. (CHOOSE row \in rows : fits(row)) \in rows
    BY <2>1
  <2>. QED  BY <1>1, <2>2
<1>3. Translate(c, r) = IF rows = {} THEN Typed("raw", r.value)
                        ELSE IF ~ \E row \in rows : fits(row) THEN Nothing
                        ELSE LET row == CHOOSE row \in rows : fits(row)
                             IN  Typed(row.field, Convert(row, r.value))
  BY DEF Translate
<1>. HIDE DEF rows, fits
<1>. QED  BY <1>1, <1>2, <1>3

LEMMA TwoBytes == \A v \in Nat : v < 65536 => v % 65536 = v
  OBVIOUS

\* What a subscriber reads of a shown cluster is what the record means.
LEMMA ReadsMeaning ==
    ASSUME NEW c \in ShownClusters, NEW r \in Attributes, Says(c, r), Fits(r)
    PROVE  /\ TypeSize[r.dtype] > 0
           /\ Reads(CapEvent(c, Translate(c, r)), ShownField[c]) = Meaning(r.dtype, r.value)
<1>. USE DEF Row
<1>0. r.value \in Nat /\ Span[1] = 256 /\ Span[2] = 65536
  BY DEF Attributes, Span
<1>1. ASSUME NEW f, NEW v
      PROVE  CapEvent(c, Typed(f, v)).field = f /\ CapEvent(c, Typed(f, v)).value = v
  BY DEF CapEvent, Typed
<1>2. CASE c = "OnOff" /\ r.dtype = "boolean"
  <2>. DEFINE b == Row("OnOff", AnyAttr, 0, 1, "flag", "on_off")
  <2>1. b \in Translation /\ TypeSize[r.dtype] >= b.least
    BY <1>2, Sizes DEF Translation
  <2>2. Translate(c, r) = Typed("on_off", Convert(b, r.value))
    BY <1>2, <2>1, TranslateByRow, OneRow
  <2>3. r.value \in {0, 1}
    BY <1>0, <1>2 DEF Fits
  <2>4. Convert(b, r.value) = r.value
    BY <1>0, <2>3 DEF Convert, Low
  <2>5. Meaning(r.dtype, r.value) = r.value
    BY <1>2 DEF Meaning
  <2>. QED  BY <1>1, <1>2, <2>2, <2>4, <2>5, ShownAre, Sizes DEF Reads
<1>3. CASE c = "LevelControl" /\ r.dtype = "uint8"
  <2>. DEFINE b == Row("LevelControl", AnyAttr, 0, 1, "unsigned", "level")
  <2>1. b \in Translation /\ TypeSize[r.dtype] >= b.least
    BY <1>3, Sizes DEF Translation
  <2>2. Translate(c, r) = Typed("level", Convert(b, r.value))
    BY <1>3, <2>1, TranslateByRow, OneRow
  <2>3. r.value \in 0 .. 255
    BY <1>0, <1>3, Sizes DEF Fits
  <2>4. Convert(b, r.value) = r.value
    BY <1>0, <2>3 DEF Convert, Low
  <2>5. Meaning(r.dtype, r.value) = r.value
    BY <1>3 DEF Meaning
  <2>. QED  BY <1>1, <1>3, <2>2, <2>4, <2>5, ShownAre, Sizes DEF Reads
<1>4. CASE c = "Temperature" /\ r.dtype = "int16"
  <2>. DEFINE b == Row("Temperature", AnyAttr, 2, 2, "signed", "temperature_hundredths")
  <2>1. b \in Translation /\ TypeSize[r.dtype] >= b.least
    BY <1>4, Sizes DEF Translation
  <2>2. Translate(c, r) = Typed("temperature_hundredths", Convert(b, r.value))
    BY <1>4, <2>1, TranslateByRow, OneRow
  <2>3. r.value \in Nat /\ r.value < 65536
    <3>1. TypeSize[r.dtype] = 2
      BY <1>4, Sizes
    <3>. QED  BY <1>0, <3>1 DEF Fits
  <2>4. Convert(b, r.value) = AsSigned(r.value, 2)
    BY <1>0, <2>3, TwoBytes DEF Convert, Low
  <2>5. Meaning(r.dtype, r.value) = AsSigned(r.value, 2)
    BY <1>4, Sizes DEF Meaning
  <2>. QED  BY <1>1, <1>4, <2>2, <2>4, <2>5, ShownAre, Sizes DEF Reads
<1>5. CASE c = "Humidity" /\ r.dtype = "uint16"
  <2>. DEFINE b == Row("Humidity", AnyAttr, 2, 2, "unsigned", "humidity_hundredths")
  <2>1. b \in Translation /\ TypeSize[r.dtype] >= b.least
    BY <1>5, Sizes DEF Translation
  <2>2. Translate(c, r) = Typed("humidity_hundredths", Convert(b, r.value))
    BY <1>5, <2>1, TranslateByRow, OneRow
  <2>3. r.value \in Nat /\ r.value < 65536
    <3>1. TypeSize[r.dtype] = 2
      BY <1>5, Sizes
    <3>. QED  BY <1>0, <3>1 DEF Fits
  <2>4. Convert(b, r.value) = r.value
    BY <1>0, <2>3, TwoBytes DEF Convert, Low
  <2>5. Meaning(r.dtype, r.value) = r.value
    BY <1>5 DEF Meaning
  <2>. QED  BY <1>1, <1>5, <2>2, <2>4, <2>5, ShownAre, Sizes DEF Reads
<1>. QED  BY <1>2, <1>3, <1>4, <1>5, SaysWhat

-----------------------------------------------------------------------------
(* What the operations of the bus do to its queue and its table *)

LEMMA EmitShape ==
    ASSUME BusInv, NEW t, NEW d, Emit(t, d)
    PROVE  /\ UNCHANGED <<table, locked, evt, todo>>
           /\ Len(queue) \in Nat /\ DOMAIN queue = 1 .. Len(queue)
           /\ Full => UNCHANGED queue
           /\ ~Full => /\ DOMAIN queue' = 1 .. Len(queue) + 1
                       /\ \A i \in 1 .. Len(queue) : queue'[i] = queue[i]
                       /\ queue'[Len(queue) + 1].type = t
                       /\ queue'[Len(queue) + 1].data = d
<1>1. Len(queue) \in Nat /\ DOMAIN queue = 1 .. Len(queue) /\ IsQueue(queue)
  BY QueueShape DEF BusInv, BusTyped
<1>2. UNCHANGED <<table, locked, evt, todo>>
  BY DEF Emit
<1>3. CASE Full
  BY <1>1, <1>2, <1>3, BusAssumption DEF Full, Emit
<1>4. CASE ~Full
  <2>0. Len(queue) <= QueueDepth /\ QueueDepth \in Nat
    BY BusAssumption, Zenon DEF BusInv, BusTyped, BusTypeOK
  <2>. DEFINE len == Len(queue)
  <2>1. len \in Nat /\ len # QueueDepth
    BY <1>1, <1>4, Zenon DEF Full
  <2>2. len <= QueueDepth
    BY <2>0
  <2>3. Len(queue) < QueueDepth
    <3>. HIDE DEF len
    <3>1. len < QueueDepth
      BY <2>0, <2>1, <2>2
    <3>. QED  BY <3>1 DEF len
  <2>4. queue' = Append(queue, Event(t, emitted + 1, d))
    BY <2>3 DEF Emit
  <2>5. Event(t, emitted + 1, d).type = t /\ Event(t, emitted + 1, d).data = d
    BY DEF Event
  <2>6. /\ DOMAIN queue' = 1 .. Len(queue) + 1
        /\ \A i \in 1 .. Len(queue) : queue'[i] = queue[i]
        /\ queue'[Len(queue) + 1] = Event(t, emitted + 1, d)
    BY <1>1, <2>4, QueueAppend
  <2>. QED  BY <1>1, <1>2, <1>4, <2>5, <2>6
<1>. QED  BY <1>3, <1>4

LEMMA TakeShape ==
    ASSUME BusInv, TakeEvent
    PROVE  /\ UNCHANGED <<table, locked, todo>> /\ evt = NoEvent /\ ~locked
           /\ Len(queue) \in Nat /\ DOMAIN queue = 1 .. Len(queue)
           /\ Len(queue) >= 1 /\ evt' = queue[1]
           /\ DOMAIN queue' = 1 .. Len(queue) - 1
           /\ \A i \in 1 .. Len(queue) - 1 : queue'[i] = queue[i + 1]
<1>1. Len(queue) \in Nat /\ DOMAIN queue = 1 .. Len(queue) /\ IsQueue(queue)
  BY QueueShape DEF BusInv, BusTyped
<1>2. queue # <<>> /\ evt' = Head(queue) /\ queue' = Tail(queue)
  BY DEF TakeEvent
<1>3. UNCHANGED <<table, locked, todo>> /\ evt = NoEvent /\ ~locked
  BY DEF TakeEvent, BusInv, InDelivery
<1>. QED  BY <1>1, <1>2, <1>3, QueueTail

LEMMA SubscribeKeeps ==
    ASSUME BusInv, NEW cb \in Callbacks, NEW t \in Types, Subscribe(cb, t)
    PROVE  /\ UNCHANGED <<locked, queue, evt, todo>> /\ ~locked
           /\ \A u \in Types \ {t} : table'[u] = table[u]
           /\ \A u \in Types : \A ca \in Callbacks :
                  Subscribed(ca, u) => Subscribed(ca, u)'
           /\ \A u \in Types : \A ca \in Callbacks :
                  Subscribed(ca, u)' => Subscribed(ca, u) \/ (ca = cb /\ u = t)
           /\ table[t] = NoRow => Subscribed(cb, t)'
<1>1. UNCHANGED <<locked, queue, evt, todo>> /\ ~locked
  BY DEF Subscribe
<1>2. table \in [Types -> [1 .. Slots -> Callbacks \cup {Free}]]
  BY DEF BusInv, BusTyped, BusTypeOK
<1>3. CASE UNCHANGED table /\ \A i \in 1 .. Slots : table[t][i] # Free
  BY <1>1, <1>2, <1>3, BusAssumption DEF Subscribed, NoRow
<1>4. CASE \E i \in 1 .. Slots : table[t][i] = Free /\ table' = [table EXCEPT ![t][i] = cb]
  <2>1. PICK i \in 1 .. Slots : table[t][i] = Free /\ table' = [table EXCEPT ![t][i] = cb]
    BY <1>4
  <2>2. /\ \A u \in Types \ {t} : table'[u] = table[u]
        /\ table'[t][i] = cb
        /\ \A j \in 1 .. Slots : j # i => table'[t][j] = table[t][j]
    BY <1>2, <2>1
  <2>. QED  BY <1>1, <1>2, <2>1, <2>2, BusAssumption DEF Subscribed, NoRow
<1>. QED  BY <1>3, <1>4 DEF Subscribe

LEMMA UnsubscribeKeeps ==
    ASSUME BusInv, NEW cb \in Callbacks, NEW t \in Types, Unsubscribe(cb, t)
    PROVE  /\ UNCHANGED <<locked, queue, evt, todo>>
           /\ \A u \in Types \ {t} : table'[u] = table[u]
           /\ \A u \in Types : \A ca \in Callbacks \ {cb} :
                  Subscribed(ca, u)' <=> Subscribed(ca, u)
<1>1. table \in [Types -> [1 .. Slots -> Callbacks \cup {Free}]]
  BY DEF BusInv, BusTyped, BusTypeOK
<1>2. PICK i \in 1 .. Slots : table[t][i] = cb /\ table' = [table EXCEPT ![t][i] = Free]
  BY DEF Unsubscribe
<1>3. /\ \A u \in Types \ {t} : table'[u] = table[u]
      /\ table'[t][i] = Free
      /\ \A j \in 1 .. Slots : j # i => table'[t][j] = table[t][j]
  BY <1>1, <1>2
<1>. QED  BY <1>1, <1>2, <1>3, BusAssumption DEF Unsubscribe, Subscribed

LEMMA CalledShape ==
    ASSUME BusInv, NEW cb \in Callbacks, Called(cb)
    PROVE  /\ UNCHANGED <<table, locked, queue, evt>> /\ locked
           /\ evt # NoEvent /\ evt.type \in Types
           /\ Subscribed(cb, evt.type)
           /\ \E i \in 1 .. Slots : todo[i] = cb
           /\ \A ca \in Callbacks \ {cb} :
                  (\E i \in 1 .. Slots : todo'[i] = ca) <=> \E i \in 1 .. Slots : todo[i] = ca
           /\ \A i \in 1 .. Slots : todo'[i] \in {todo[i], Free}
<1>1. PICK i \in 1 .. Slots : todo[i] = cb /\ todo' = [todo EXCEPT ![i] = Free]
  BY DEF Called
<1>2. todo \in [1 .. Slots -> Callbacks \cup {Free}]
  BY DEF BusInv, BusTyped, BusTypeOK
<1>3. UNCHANGED <<table, locked, queue, evt>>
  BY DEF Called
<1>4. locked /\ evt # NoEvent /\ evt.type \in Types /\ table[evt.type][i] = cb
  BY <1>1, BusAssumption DEF BusInv, InDelivery, NoRow
<1>5. /\ todo'[i] = Free
      /\ \A j \in 1 .. Slots : j # i => todo'[j] = todo[j]
  BY <1>1, <1>2
<1>. QED  BY <1>1, <1>2, <1>3, <1>4, <1>5, BusAssumption DEF Subscribed

LEMMA LockShape ==
    ASSUME BusInv, Lock
    PROVE  /\ UNCHANGED <<table, queue, evt>> /\ ~locked /\ locked' /\ todo' = table[evt.type]
           /\ evt # NoEvent /\ evt.type \in Types
  BY DEF Lock, BusInv, InDelivery

LEMMA UnlockShape ==
    ASSUME BusInv, Unlock
    PROVE  /\ UNCHANGED <<table, queue, todo>> /\ locked /\ ~locked' /\ todo = NoRow
           /\ evt' = NoEvent /\ evt'.type = "NONE"
           /\ \A i \in 1 .. Slots : \A cb \in Callbacks : todo[i] # cb
  BY BusAssumption DEF Unlock, BusInv, NoEvent, Event, NoRow

-----------------------------------------------------------------------------
(* The steps of the system, and the bus *)

LEMMA NextCases ==
    ASSUME Next
    PROVE  \/ SetReady \/ EmitReady \/ RunCmd \/ Restart \/ TakeFrame \/ ParseRecord
           \/ EmitDevice \/ EmitLost \/ ZoneChanges
           \/ (\E rep \in Reports : DeviceReports(rep)) \/ (\E c : GetCap(c))
           \/ MainSeesReady \/ MainSubscribes
           \/ (TakeEvent \/ Lock \/ Unlock) /\ UNCHANGED <<hubVars, mainVars, ghosts, happened>>
           \/ CallNetwork \/ CallCap \/ CallGuest \/ GuestComes \/ GuestGoes
  BY DEF Next, Framework, Environment, Main, Notify, SetCap

LEMMA EventTypes ==
    /\ Types = {"READY", "LOST", "JOINED", "LEFT", "CAP"}
    /\ OnNetwork \in Callbacks /\ OnCap \in Callbacks /\ Guest \in Callbacks
    /\ OnNetwork # OnCap /\ Guest # OnNetwork /\ Guest # OnCap
    /\ CmdDepth \in Nat /\ CmdDepth >= 1 /\ MaxHappens \in Nat
  BY EventsAssumption DEF NetworkEvents

LEMMA MainSubscribesTo ==
    ASSUME MainSubscribes
    PROVE  /\ mainpc \in 1 .. 5 /\ mainpc' = mainpc + 1
           /\ UNCHANGED <<hubVars, known, shown, ghosts, happened>>
           /\ \/ mainpc = 1 /\ Subscribe(OnNetwork, "READY")
              \/ mainpc = 2 /\ Subscribe(OnNetwork, "LOST")
              \/ mainpc = 3 /\ Subscribe(OnNetwork, "JOINED")
              \/ mainpc = 4 /\ Subscribe(OnNetwork, "LEFT")
              \/ mainpc = 5 /\ Subscribe(OnCap, "CAP")
<1>1. /\ DOMAIN Subscriptions = 1 .. 5
      /\ Subscriptions[1][1] = "READY" /\ Subscriptions[1][2] = OnNetwork
      /\ Subscriptions[2][1] = "LOST" /\ Subscriptions[2][2] = OnNetwork
      /\ Subscriptions[3][1] = "JOINED" /\ Subscriptions[3][2] = OnNetwork
      /\ Subscriptions[4][1] = "LEFT" /\ Subscriptions[4][2] = OnNetwork
      /\ Subscriptions[5][1] = "CAP" /\ Subscriptions[5][2] = OnCap
  BY DEF Subscriptions
<1>2. /\ mainpc \in 1 .. 5 /\ mainpc' = mainpc + 1
      /\ UNCHANGED <<hubVars, known, shown, ghosts, happened>>
      /\ Subscribe(Subscriptions[mainpc][2], Subscriptions[mainpc][1])
  BY <1>1 DEF MainSubscribes
<1>3. mainpc \in {1, 2, 3, 4, 5}
  BY <1>2
<1>. QED  BY <1>1, <1>2, <1>3, Zenon

LEMMA HubBus ==
    ASSUME BusInv, [Next]_vars
    PROVE  BusInv'
<1>. USE EventTypes
<1>1. CASE SetReady \/ RunCmd \/ Restart \/ MainSeesReady \/ ZoneChanges
      \/ (\E rep \in Reports : DeviceReports(rep)) \/ (\E c : GetCap(c)) \/ UNCHANGED vars
  <2>1. UNCHANGED busVars
    BY <1>1 DEF SetReady, RunCmd, Restart, MainSeesReady, ZoneChanges, DeviceReports, GetCap,
                Send, vars
  <2>. QED  BY <2>1, BusPreserved
<1>2. CASE EmitReady \/ EmitDevice \/ EmitLost \/ TakeFrame \/ ParseRecord
  <2>1. (\E t \in Types : \E d : Emit(t, d)) \/ UNCHANGED busVars
    BY <1>2 DEF EmitReady, EmitDevice, EmitLost, TakeFrame, ParseRecord, Dispatch
  <2>. QED  BY <2>1, BusPreserved DEF BusStep
<1>3. CASE MainSubscribes
  <2>1. \E cb \in Callbacks : \E t \in Types : Subscribe(cb, t)
    BY <1>3, MainSubscribesTo
  <2>. QED  BY <2>1, BusPreserved DEF BusStep
<1>4. CASE TakeEvent \/ Lock \/ Unlock
  BY <1>4, BusPreserved DEF BusStep
<1>5. CASE CallNetwork \/ CallCap \/ CallGuest
  <2>1. \E cb \in Callbacks : Called(cb)
    BY <1>5 DEF CallNetwork, CallCap, CallGuest
  <2>. QED  BY <2>1, BusPreserved DEF BusStep
<1>6. CASE GuestComes \/ GuestGoes
  <2>1. \E cb \in Callbacks : \E t \in Types : Subscribe(cb, t) \/ Unsubscribe(cb, t)
    BY <1>6 DEF GuestComes, GuestGoes
  <2>. QED  BY <2>1, BusPreserved DEF BusStep
<1>. QED  BY <1>1, <1>2, <1>3, <1>4, <1>5, <1>6, NextCases

LEMMA HubTypes ==
    ASSUME TypeOK, BusInv, [Next]_vars
    PROVE  TypeOK'
<1>. USE EventTypes DEF hubVars, mainVars, ghosts
<1>1. BusTypeOK'
  BY HubBus DEF BusInv, BusTyped
<1>. DEFINE TypeRest ==
              /\ fwpc \in {"starting", "announcing", "serving", "leaving"}
              /\ s_state \in {"ZNP_INIT", "READY"}
              /\ cmds \in 0 .. CmdDepth /\ mainpc \in 0 .. 6
              /\ known \in {"unknown", "READY", "LOST"}
              /\ DOMAIN shown = ShownClusters /\ DOMAIN told = ShownClusters
              /\ heardReady \in BOOLEAN /\ asked \in BOOLEAN
              /\ netLost \in BOOLEAN /\ capLost \in BOOLEAN
              /\ happened \in 0 .. MaxHappens
<1>2. TypeRest
  BY DEF TypeOK
<1>3. TypeRest'
  <2>1. CASE SetReady \/ RunCmd \/ Restart \/ MainSeesReady \/ GuestComes \/ GuestGoes
             \/ UNCHANGED vars
    <3>1. CASE RunCmd
      BY <1>2, <3>1 DEF RunCmd
    <3>2. CASE Restart
      BY <1>2, <3>2 DEF Restart
    <3>3. CASE MainSeesReady
      BY <1>2, <3>3 DEF MainSeesReady
    <3>4. CASE SetReady \/ GuestComes \/ GuestGoes \/ UNCHANGED vars
      BY <1>2, <3>4 DEF SetReady, GuestComes, GuestGoes, vars
    <3>. QED  BY <2>1, <3>1, <3>2, <3>3, <3>4
  <2>2. CASE EmitReady
    BY <1>2, <2>2 DEF EmitReady, NetworkTold
  <2>3. CASE EmitDevice \/ EmitLost
    <3>1. CASE EmitDevice
      BY <1>2, <3>1 DEF EmitDevice, NetworkTold, Happens
    <3>2. CASE EmitLost
      <4>1. netLost' \in BOOLEAN
        BY <3>2, Zenon DEF EmitLost, NetworkTold
      <4>2. /\ fwpc' = "leaving" /\ heardReady' = FALSE /\ asked' = FALSE
            /\ happened < MaxHappens /\ happened' = happened + 1
            /\ UNCHANGED <<s_state, cmds, mainVars, told, capLost>>
        BY <3>2, Zenon DEF EmitLost, Happens
      <4>3. happened' \in 0 .. MaxHappens
        BY <1>2, <4>2
      <4>. QED  BY <1>2, <4>1, <4>2, <4>3
    <3>. QED  BY <2>3, <3>1, <3>2
  <2>4. CASE TakeFrame \/ ParseRecord
    BY <1>2, <2>4 DEF TakeFrame, ParseRecord, Dispatch, NetworkTold, CapTold
  <2>5. CASE ZoneChanges \/ (\E c : GetCap(c))
    BY <1>2, <2>5 DEF ZoneChanges, GetCap, Send, Happens
  <2>6. CASE \E rep \in Reports : DeviceReports(rep)
    BY <1>2, <2>6 DEF DeviceReports, Send, Happens
  <2>7. CASE MainSubscribes
    BY <1>2, <2>7, MainSubscribesTo
  <2>8. CASE (TakeEvent \/ Lock \/ Unlock) /\ UNCHANGED <<hubVars, mainVars, ghosts, happened>>
    BY <1>2, <2>8
  <2>9. CASE CallNetwork \/ CallGuest
    BY <1>2, <2>9 DEF CallNetwork, CallGuest
  <2>10. CASE CallCap
    BY <1>2, <2>10 DEF CallCap
  <2>. QED  BY <2>1, <2>2, <2>3, <2>4, <2>5, <2>6, <2>7, <2>8, <2>9, <2>10, NextCases
<1>. QED  BY <1>1, <1>3 DEF TypeOK

LEMMA HubSubscribed ==
    ASSUME TypeOK, BusInv, SubscribedInv, [Next]_vars
    PROVE  SubscribedInv'
<1>. USE EventTypes DEF SubscribedInv
<1>1. CASE UNCHANGED <<table, mainpc>>
  BY <1>1 DEF Subscribed
<1>2. CASE MainSeesReady
  BY <1>2 DEF MainSeesReady, busVars, Subscribed
<1>3. CASE MainSubscribes
  BY <1>3, MainSubscribesTo, SubscribeKeeps
<1>4. CASE GuestComes
  BY <1>4, SubscribeKeeps DEF GuestComes, mainVars
<1>5. CASE GuestGoes
  BY <1>5, UnsubscribeKeeps DEF GuestGoes, mainVars
<1>6. MainSeesReady \/ MainSubscribes \/ GuestComes \/ GuestGoes \/ UNCHANGED <<table, mainpc>>
  BY NextCases
     DEF SetReady, EmitReady, RunCmd, Restart, TakeFrame, ParseRecord, Dispatch, EmitDevice,
         EmitLost, ZoneChanges, DeviceReports, GetCap, Send, Emit, TakeEvent, Lock, Unlock,
         CallNetwork, CallCap, CallGuest, Called, busVars, mainVars, vars
<1>. QED  BY <1>1, <1>2, <1>3, <1>4, <1>5, <1>6

-----------------------------------------------------------------------------
(* What main knows of the network *)

LEMMA KnownStays ==
    ASSUME KnownInv, UNCHANGED <<table, locked, queue, evt, todo, known, netLost>>,
           Status' = Status
    PROVE  KnownInv'
  BY DEF KnownInv, LastTells, NetworkCalled, NetworkWaits, OfNetwork, Subscribed

LEMMA KnownEmit ==
    ASSUME BusInv, KnownInv, NEW t \in Types, NEW d, Emit(t, d), NetworkTold(t),
           known' = known, Status' = IF t \in {"READY", "LOST"} THEN t ELSE Status
    PROVE  KnownInv'
<1>. USE EventTypes
<1>1. /\ UNCHANGED <<table, locked, evt, todo>>
      /\ \A cb : \A u : Subscribed(cb, u)' <=> Subscribed(cb, u)
  BY EmitShape DEF Subscribed
<1>2. CASE netLost'
  BY <1>1, <1>2 DEF KnownInv
<1>3. CASE ~netLost'
  <2>1. ~netLost /\ ~Full /\ (t = "LOST" => Subscribed(OnNetwork, "LOST"))
    BY <1>3 DEF NetworkTold
  <2>. DEFINE n == Len(queue)
  <2>2. /\ n \in Nat /\ DOMAIN queue = 1 .. n /\ DOMAIN queue' = 1 .. n + 1
        /\ \A i \in 1 .. n : queue'[i] = queue[i]
        /\ queue'[n + 1].type = t
    BY <2>1, EmitShape
  <2>. HIDE DEF n
  <2>3. CASE t \in {"READY", "LOST"}
    <3>1. NetworkWaits' /\ Status' = t
      BY <2>2, <2>3 DEF NetworkWaits, OfNetwork
    <3>2. LastTells'
      BY <2>2, <2>3, <3>1 DEF LastTells, OfNetwork
    <3>3. evt'.type = "LOST" \/ (\E i \in DOMAIN queue' : queue'[i].type = "LOST")
              => Subscribed(OnNetwork, "LOST")
      BY <1>1, <2>1, <2>2 DEF KnownInv
    <3>. QED  BY <1>1, <1>3, <2>1, <3>1, <3>2, <3>3 DEF KnownInv
  <2>4. CASE t \notin {"READY", "LOST"}
    <3>1. (NetworkWaits' <=> NetworkWaits) /\ (NetworkCalled' <=> NetworkCalled)
      BY <1>1, <2>2, <2>4 DEF NetworkWaits, OfNetwork, NetworkCalled
    <3>2. LastTells'
      BY <2>1, <2>2, <2>4 DEF KnownInv, LastTells, OfNetwork
    <3>3. evt'.type = "LOST" \/ (\E i \in DOMAIN queue' : queue'[i].type = "LOST")
              => Subscribed(OnNetwork, "LOST")
      BY <1>1, <2>1, <2>2, <2>4 DEF KnownInv
    <3>. QED  BY <1>1, <1>3, <2>1, <2>4, <3>1, <3>2, <3>3 DEF KnownInv
  <2>. QED  BY <2>3, <2>4
<1>. QED  BY <1>2, <1>3

LEMMA KnownTake ==
    ASSUME BusInv, KnownInv, TakeEvent, UNCHANGED <<known, netLost>>, Status' = Status
    PROVE  KnownInv'
<1>. DEFINE n == Len(queue)
<1>1. /\ UNCHANGED <<table, locked, todo>> /\ evt.type = "NONE" /\ ~locked
      /\ n \in Nat /\ n >= 1 /\ DOMAIN queue = 1 .. n /\ DOMAIN queue' = 1 .. n - 1
      /\ \A i \in 1 .. n - 1 : queue'[i] = queue[i + 1]
      /\ evt' = queue[1]
  BY TakeShape DEF NoEvent, Event
<1>. HIDE DEF n
<1>2. \A i \in 2 .. n : i - 1 \in 1 .. n - 1 /\ queue'[i - 1] = queue[i]
  BY <1>1
<1>3. NetworkWaits <=> NetworkWaits' \/ NetworkCalled'
  <2>1. NetworkCalled' <=> OfNetwork(queue[1])
    BY <1>1 DEF NetworkCalled, OfNetwork
  <2>2. NetworkWaits' <=> \E i \in 1 .. n - 1 : OfNetwork(queue[i + 1])
    BY <1>1 DEF NetworkWaits, OfNetwork
  <2>3. NetworkWaits <=> \E i \in 1 .. n : OfNetwork(queue[i])
    BY <1>1 DEF NetworkWaits
  <2>4. ASSUME NEW i \in 1 .. n, OfNetwork(queue[i])
        PROVE  OfNetwork(queue[1]) \/ \E k \in 1 .. n - 1 : OfNetwork(queue[k + 1])
    <3>1. i = 1 \/ (i - 1 \in 1 .. n - 1 /\ (i - 1) + 1 = i)
      BY <1>1
    <3>. QED  BY <2>4, <3>1, Zenon
  <2>5. /\ 1 \in 1 .. n
        /\ \A k \in 1 .. n - 1 : k + 1 \in 1 .. n
    BY <1>1
  <2>. QED  BY <2>1, <2>2, <2>3, <2>4, <2>5, Zenon
<1>4. LastTells => LastTells'
  <2>. SUFFICES ASSUME LastTells, NEW i \in 1 .. n - 1, OfNetwork(queue'[i]),
                       \A j \in 1 .. n - 1 : j > i => ~OfNetwork(queue'[j])
                PROVE  queue'[i].type = Status
    BY <1>1 DEF LastTells, OfNetwork
  <2>1. \A j \in 1 .. n : j > i + 1 => ~OfNetwork(queue[j])
    BY <1>1, <1>2
  <2>. QED  BY <1>1, <2>1 DEF LastTells
<1>5. LastTells /\ NetworkCalled' /\ ~NetworkWaits' => evt'.type = Status
  <2>. SUFFICES ASSUME LastTells, NetworkCalled', ~NetworkWaits'
                PROVE  queue[1].type = Status
    BY <1>1
  <2>1. OfNetwork(queue[1])
    BY <1>1 DEF NetworkCalled, OfNetwork
  <2>2. \A i \in 1 .. n - 1 : ~OfNetwork(queue'[i])
    BY <1>1 DEF NetworkWaits, OfNetwork
  <2>3. \A i \in 2 .. n : ~OfNetwork(queue[i])
    BY <1>2, <2>2
  <2>4. 1 \in DOMAIN queue /\ \A j \in DOMAIN queue : j > 1 => ~OfNetwork(queue[j])
    BY <1>1, <2>3
  <2>. QED  BY <2>1, <2>4 DEF LastTells
<1>6. ~NetworkCalled
  BY <1>1 DEF NetworkCalled, OfNetwork
<1>7. ASSUME evt'.type = "LOST" \/ (\E i \in DOMAIN queue' : queue'[i].type = "LOST")
      PROVE  \E i \in DOMAIN queue : queue[i].type = "LOST"
  BY <1>1, <1>7
<1>. QED  BY <1>1, <1>3, <1>4, <1>5, <1>6, <1>7 DEF KnownInv, Subscribed

\* An event that on_network_event has not subscribed to tells it nothing, and if
\* none was lost it has heard nothing yet.
LEMMA KnownLock ==
    ASSUME BusInv, KnownInv, Lock, UNCHANGED <<known, netLost>>, Status' = Status
    PROVE  KnownInv'
<1>1. /\ UNCHANGED <<table, queue, evt>> /\ ~locked /\ locked' /\ todo' = table[evt.type]
      /\ \A cb : \A u : Subscribed(cb, u)' <=> Subscribed(cb, u)
  BY LockShape DEF Subscribed
<1>2. NetworkCalled' <=> OfNetwork(evt) /\ Subscribed(OnNetwork, evt.type)
  BY <1>1 DEF NetworkCalled, OfNetwork, Subscribed
<1>3. NetworkCalled <=> OfNetwork(evt)
  BY <1>1 DEF NetworkCalled
<1>4. NetworkWaits' <=> NetworkWaits
  BY <1>1 DEF NetworkWaits, OfNetwork
<1>5. LastTells' <=> LastTells
  BY <1>1 DEF LastTells, OfNetwork
<1>6. CASE netLost
  BY <1>1, <1>6 DEF KnownInv
<1>7. CASE ~netLost
  <2>1. ASSUME ~NetworkCalled', ~NetworkWaits'
        PROVE  known \in {"unknown", Status}
    <3>1. CASE ~OfNetwork(evt)
      BY <1>3, <1>4, <1>7, <2>1, <3>1 DEF KnownInv
    <3>2. CASE OfNetwork(evt)
      BY <1>2, <1>7, <2>1, <3>2 DEF KnownInv, OfNetwork
    <3>. QED  BY <3>1, <3>2
  <2>2. NetworkCalled' /\ ~NetworkWaits' => evt.type = Status
    BY <1>2, <1>3, <1>4, <1>7 DEF KnownInv
  <2>. QED  BY <1>1, <1>5, <1>7, <2>1, <2>2 DEF KnownInv
<1>. QED  BY <1>6, <1>7

LEMMA KnownUnlock ==
    ASSUME BusInv, KnownInv, Unlock, UNCHANGED <<known, netLost>>, Status' = Status
    PROVE  KnownInv'
<1>1. /\ UNCHANGED <<table, queue, todo>> /\ locked /\ evt'.type = "NONE"
      /\ \A i \in 1 .. Slots : todo[i] # OnNetwork
      /\ \A cb : \A u : Subscribed(cb, u)' <=> Subscribed(cb, u)
  BY UnlockShape, EventTypes DEF Subscribed
<1>2. ~NetworkCalled /\ ~NetworkCalled'
  BY <1>1 DEF NetworkCalled, OfNetwork
<1>3. (NetworkWaits' <=> NetworkWaits) /\ (LastTells' <=> LastTells)
  BY <1>1 DEF NetworkWaits, LastTells, OfNetwork
<1>. QED  BY <1>1, <1>2, <1>3 DEF KnownInv

LEMMA KnownSubscribe ==
    ASSUME BusInv, KnownInv, NEW cb \in Callbacks, NEW t \in Types,
           Subscribe(cb, t) \/ (Unsubscribe(cb, t) /\ cb = Guest),
           UNCHANGED <<known, netLost>>, Status' = Status
    PROVE  KnownInv'
<1>1. /\ UNCHANGED <<locked, queue, evt, todo>>
      /\ Subscribed(OnNetwork, "LOST") => Subscribed(OnNetwork, "LOST")'
      /\ Subscribed(OnNetwork, "READY") => Subscribed(OnNetwork, "READY")'
  BY SubscribeKeeps, UnsubscribeKeeps, EventTypes
<1>2. (NetworkWaits' <=> NetworkWaits) /\ (LastTells' <=> LastTells)
      /\ (NetworkCalled' <=> NetworkCalled)
  BY <1>1 DEF NetworkWaits, LastTells, OfNetwork, NetworkCalled
<1>. QED  BY <1>1, <1>2 DEF KnownInv

LEMMA KnownCalled ==
    ASSUME BusInv, SubscribedInv, mainpc \in 0 .. 6, KnownInv, NEW cb \in Callbacks, Called(cb),
           netLost' = netLost, Status' = Status,
           known' = IF cb = OnNetwork /\ evt.type \in {"READY", "LOST"} THEN evt.type ELSE known
    PROVE  KnownInv'
<1>. USE EventTypes
<1>1. /\ UNCHANGED <<table, locked, queue, evt>> /\ locked /\ evt.type \in Types
      /\ Subscribed(cb, evt.type)
      /\ \E i \in 1 .. Slots : todo[i] = cb
      /\ \A i \in 1 .. Slots : todo'[i] = OnNetwork => todo[i] = OnNetwork
      /\ cb # OnNetwork =>
             ((\E i \in 1 .. Slots : todo'[i] = OnNetwork)
                  <=> \E i \in 1 .. Slots : todo[i] = OnNetwork)
      /\ \A ca : \A u : Subscribed(ca, u)' <=> Subscribed(ca, u)
  <2>1. OnNetwork # Free
    BY BusAssumption
  <2>. QED  BY <2>1, CalledShape, Zenon DEF Subscribed
<1>2. (NetworkWaits' <=> NetworkWaits) /\ (LastTells' <=> LastTells)
  BY <1>1 DEF NetworkWaits, LastTells, OfNetwork
<1>3. known' # "unknown" => Subscribed(OnNetwork, "READY")
  <2>1. CASE cb = OnNetwork /\ evt.type = "LOST"
    BY <1>1, <2>1, BusAssumption DEF SubscribedInv, Subscribed, NoRow
  <2>2. CASE ~(cb = OnNetwork /\ evt.type = "LOST")
    BY <1>1, <2>2 DEF KnownInv
  <2>. QED  BY <2>1, <2>2
<1>4. NetworkCalled' => NetworkCalled
  BY <1>1 DEF NetworkCalled, OfNetwork
<1>5. ASSUME ~netLost, ~NetworkCalled', ~NetworkWaits'
      PROVE  known' \in {"unknown", Status}
  <2>1. CASE cb = OnNetwork /\ OfNetwork(evt)
    BY <1>1, <1>2, <1>5, <2>1 DEF KnownInv, NetworkCalled, OfNetwork
  <2>2. CASE ~(cb = OnNetwork /\ OfNetwork(evt))
    <3>1. ~NetworkCalled
      BY <1>1, <1>5, <2>2 DEF NetworkCalled, OfNetwork
    <3>. QED  BY <1>2, <1>5, <2>2, <3>1 DEF KnownInv, OfNetwork
  <2>. QED  BY <2>1, <2>2
<1>. QED  BY <1>1, <1>2, <1>3, <1>4, <1>5 DEF KnownInv

LEMMA HubKnown ==
    ASSUME TypeOK, BusInv, SubscribedInv, KnownInv, [Next]_vars
    PROVE  KnownInv'
<1>. USE EventTypes DEF hubVars, mainVars, ghosts
<1>0. mainpc \in 0 .. 6
  BY DEF TypeOK
<1>1. CASE SetReady \/ RunCmd \/ Restart \/ MainSeesReady \/ ZoneChanges
           \/ (\E rep \in Reports : DeviceReports(rep)) \/ (\E c : GetCap(c)) \/ UNCHANGED vars
  <2>1. UNCHANGED <<busVars, known, netLost>> /\ Status' = Status
    BY <1>1 DEF SetReady, RunCmd, Restart, MainSeesReady, ZoneChanges, DeviceReports, GetCap,
                Send, vars, Status
  <2>. QED  BY <2>1, KnownStays DEF busVars
<1>2. CASE EmitReady
  <2>1. Emit("READY", "NONE") /\ NetworkTold("READY") /\ known' = known /\ Status' = "READY"
    BY <1>2 DEF EmitReady, Status
  <2>. QED  BY <2>1, KnownEmit
<1>3. CASE EmitDevice
  <2>1. PICK t \in {"JOINED", "LEFT"} : Emit(t, "NONE") /\ NetworkTold(t)
    BY <1>3 DEF EmitDevice
  <2>2. known' = known /\ Status' = Status
    BY <1>3 DEF EmitDevice, Status
  <2>. QED  BY <2>1, <2>2, KnownEmit
<1>4. CASE EmitLost
  <2>1. Emit("LOST", "NONE") /\ NetworkTold("LOST") /\ known' = known /\ Status' = "LOST"
    BY <1>4 DEF EmitLost, Status
  <2>. QED  BY <2>1, KnownEmit
<1>5. CASE TakeFrame \/ ParseRecord
  <2>1. known' = known /\ Status' = Status
    BY <1>5 DEF TakeFrame, ParseRecord, Status
  <2>2. (\E d : Emit("CAP", d) /\ NetworkTold("CAP")) \/ UNCHANGED <<busVars, netLost>>
    BY <1>5 DEF TakeFrame, ParseRecord, Dispatch
  <2>. QED  BY <2>1, <2>2, KnownEmit, KnownStays DEF busVars
<1>6. CASE MainSubscribes
  <2>1. known' = known /\ netLost' = netLost /\ Status' = Status
    BY <1>6, MainSubscribesTo DEF Status
  <2>. QED  BY <1>6, <2>1, MainSubscribesTo, KnownSubscribe
<1>7. CASE (TakeEvent \/ Lock \/ Unlock) /\ UNCHANGED <<hubVars, mainVars, ghosts, happened>>
  <2>1. known' = known /\ netLost' = netLost /\ Status' = Status
    BY <1>7 DEF Status
  <2>. QED  BY <1>7, <2>1, KnownTake, KnownLock, KnownUnlock
<1>8. CASE CallNetwork
  <2>1. /\ Called(OnNetwork) /\ netLost' = netLost /\ Status' = Status
        /\ known' = IF evt.type \in {"READY", "LOST"} THEN evt.type ELSE known
    BY <1>8 DEF CallNetwork, Status
  <2>. QED  BY <1>0, <2>1, KnownCalled
<1>9. CASE CallCap \/ CallGuest
  <2>1. /\ Called(OnCap) \/ Called(Guest)
        /\ netLost' = netLost /\ Status' = Status /\ known' = known
    BY <1>9 DEF CallCap, CallGuest, Status
  <2>. QED  BY <1>0, <2>1, KnownCalled
<1>10. CASE GuestComes \/ GuestGoes
  <2>1. /\ Subscribe(Guest, "CAP") \/ Unsubscribe(Guest, "CAP")
        /\ netLost' = netLost /\ Status' = Status /\ known' = known
    BY <1>10 DEF GuestComes, GuestGoes, Status
  <2>. QED  BY <2>1, KnownSubscribe
<1>. QED  BY <1>1, <1>2, <1>3, <1>4, <1>5, <1>6, <1>7, <1>8, <1>9, <1>10, NextCases

-----------------------------------------------------------------------------
(* Opening the network *)

\* A READY on its way to on_network_event stays so until it is called.
LEMMA ReadyStays ==
    ASSUME BusInv, BusInv', Subscribed(OnNetwork, "READY"), ReadyIn,
           \/ UNCHANGED busVars
           \/ \E t \in Types : \E d : Emit(t, d)
           \/ \E cb \in Callbacks : \E t \in Types : Subscribe(cb, t) \/ Unsubscribe(cb, t)
           \/ \E cb \in Callbacks : Called(cb) /\ (cb = OnNetwork => evt.type # "READY")
           \/ TakeEvent \/ Lock \/ Unlock
    PROVE  ReadyIn'
<1>. USE EventTypes
<1>1. CASE UNCHANGED busVars
  BY <1>1 DEF busVars, ReadyIn
<1>2. ASSUME NEW t \in Types, NEW d, Emit(t, d)
      PROVE  ReadyIn'
  BY <1>2, EmitShape DEF ReadyIn
<1>3. ASSUME NEW cb \in Callbacks, NEW t \in Types, Subscribe(cb, t) \/ Unsubscribe(cb, t)
      PROVE  ReadyIn'
  BY <1>3, SubscribeKeeps, UnsubscribeKeeps DEF ReadyIn
<1>4. ASSUME NEW cb \in Callbacks, Called(cb), cb = OnNetwork => evt.type # "READY"
      PROVE  ReadyIn'
  BY <1>4, CalledShape DEF ReadyIn
<1>5. CASE TakeEvent
  <2>1. PICK i \in DOMAIN queue : queue[i].type = "READY"
    BY <1>5, TakeShape DEF ReadyIn, NoEvent, Event
  <2>2. CASE i = 1
    BY <1>5, <2>1, <2>2, TakeShape DEF ReadyIn
  <2>3. CASE i # 1
    <3>1. i - 1 \in DOMAIN queue' /\ queue'[i - 1] = queue[i]
      BY <1>5, <2>1, <2>3, TakeShape
    <3>. QED  BY <2>1, <3>1 DEF ReadyIn
  <2>. QED  BY <2>2, <2>3
<1>6. CASE Lock
  BY <1>6, LockShape DEF ReadyIn, Subscribed
<1>7. CASE Unlock
  BY <1>7, UnlockShape DEF ReadyIn
<1>. QED  BY <1>1, <1>2, <1>3, <1>4, <1>5, <1>6, <1>7

LEMMA NetworkStays ==
    ASSUME BusInv,
           \/ UNCHANGED table
           \/ \E cb \in Callbacks : \E t \in Types : Subscribe(cb, t)
           \/ Unsubscribe(Guest, "CAP")
    PROVE  Subscribed(OnNetwork, "READY") => Subscribed(OnNetwork, "READY")'
<1>. USE EventTypes
<1>1. CASE UNCHANGED table
  BY <1>1 DEF Subscribed
<1>. QED  BY <1>1, SubscribeKeeps, UnsubscribeKeeps

LEMMA HubOpens ==
    ASSUME TypeOK, BusInv, OpenInv, [Next]_vars
    PROVE  OpenInv'
<1>. USE EventTypes DEF hubVars, mainVars, ghosts
<1>0. BusInv' /\ CmdDepth >= 1 /\ cmds \in 0 .. CmdDepth /\ CmdDepth \in Nat
  BY HubBus DEF TypeOK
<1>1. Subscribed(OnNetwork, "READY") => Subscribed(OnNetwork, "READY")'
  <2>1. \/ UNCHANGED table
        \/ \E cb \in Callbacks : \E t \in Types : Subscribe(cb, t)
        \/ Unsubscribe(Guest, "CAP")
    BY NextCases, MainSubscribesTo
       DEF SetReady, EmitReady, RunCmd, Restart, TakeFrame, ParseRecord, Dispatch, EmitDevice,
           EmitLost, ZoneChanges, DeviceReports, GetCap, Send, Emit, TakeEvent, Lock, Unlock,
           CallNetwork, CallCap, CallGuest, Called, GuestComes, GuestGoes, MainSeesReady,
           busVars, vars
  <2>. QED  BY <2>1, NetworkStays
<1>2. CASE EmitReady
  <2>1. heardReady' => Subscribed(OnNetwork, "READY")' /\ ~Full
    BY <1>1, <1>2 DEF EmitReady
  <2>2. heardReady' => ReadyIn'
    BY <1>2, <2>1, EmitShape DEF EmitReady, ReadyIn
  <2>. QED  BY <2>1, <2>2 DEF OpenInv, ReadyOnWay
<1>3. CASE EmitLost
  BY <1>3 DEF EmitLost, OpenInv
<1>4. CASE RunCmd
  BY <1>1, <1>4 DEF RunCmd, OpenInv
<1>5. CASE CallNetwork /\ evt.type = "READY"
  <2>1. cmds' >= 1
    BY <1>0, <1>5 DEF CallNetwork
  <2>. QED  BY <1>1, <1>5, <2>1 DEF CallNetwork, OpenInv, ReadyOnWay
<1>6. ASSUME \/ SetReady \/ Restart \/ TakeFrame \/ ParseRecord \/ EmitDevice \/ ZoneChanges
             \/ (\E rep \in Reports : DeviceReports(rep)) \/ (\E c : GetCap(c))
             \/ MainSeesReady \/ MainSubscribes
             \/ (TakeEvent \/ Lock \/ Unlock) /\ UNCHANGED <<hubVars, mainVars, ghosts, happened>>
             \/ (CallNetwork /\ evt.type # "READY") \/ CallCap \/ CallGuest
             \/ GuestComes \/ GuestGoes \/ UNCHANGED vars
      PROVE  OpenInv'
  <2>1. /\ \/ UNCHANGED busVars
           \/ \E t \in Types : \E d : Emit(t, d)
           \/ \E cb \in Callbacks : \E t \in Types : Subscribe(cb, t) \/ Unsubscribe(cb, t)
           \/ \E cb \in Callbacks : Called(cb) /\ (cb = OnNetwork => evt.type # "READY")
           \/ TakeEvent \/ Lock \/ Unlock
        /\ UNCHANGED <<heardReady, asked, cmds>>
        /\ fwpc' = "serving" => fwpc = "serving"
    <3>1. CASE MainSubscribes
      BY <3>1, MainSubscribesTo
    <3>2. CASE \/ SetReady \/ Restart \/ MainSeesReady \/ ZoneChanges
               \/ (\E rep \in Reports : DeviceReports(rep)) \/ (\E c : GetCap(c))
               \/ UNCHANGED vars
      BY <3>2 DEF SetReady, Restart, ZoneChanges, DeviceReports, GetCap, Send, MainSeesReady, vars
    <3>3. CASE TakeFrame \/ ParseRecord \/ EmitDevice
      BY <3>3 DEF TakeFrame, ParseRecord, Dispatch, EmitDevice
    <3>4. CASE \/ (TakeEvent \/ Lock \/ Unlock) /\ UNCHANGED <<hubVars, mainVars, ghosts, happened>>
               \/ GuestComes \/ GuestGoes
      BY <3>4 DEF GuestComes, GuestGoes
    <3>5. CASE (CallNetwork /\ evt.type # "READY") \/ CallCap \/ CallGuest
      <4>1. CASE CallNetwork /\ evt.type # "READY"
        BY <4>1 DEF CallNetwork
      <4>2. CASE CallCap \/ CallGuest
        BY <4>2 DEF CallCap, CallGuest
      <4>. QED  BY <3>5, <4>1, <4>2
    <3>. QED  BY <1>6, <3>1, <3>2, <3>3, <3>4, <3>5
  <2>2. heardReady' => Subscribed(OnNetwork, "READY") /\ Subscribed(OnNetwork, "READY")'
    BY <1>1, <2>1 DEF OpenInv
  <2>3. CASE fwpc' = "serving" /\ heardReady' /\ ~asked'
    <3>1. cmds > 0 \/ ReadyIn
      BY <2>1, <2>3 DEF OpenInv, ReadyOnWay
    <3>2. ReadyIn => ReadyIn'
      BY <1>0, <2>1, <2>2, <2>3, ReadyStays
    <3>. QED  BY <2>1, <2>2, <3>1, <3>2 DEF OpenInv, ReadyOnWay
  <2>. QED  BY <2>2, <2>3 DEF OpenInv
<1>. QED  BY <1>2, <1>3, <1>4, <1>5, <1>6, NextCases

-----------------------------------------------------------------------------
(* What is on the way to on_cap_event *)

LEMMA EmitTells ==
    ASSUME BusInv, NEW t, NEW d, Emit(t, d), ~Full, NEW c
    PROVE  /\ InCall(c)' <=> InCall(c)
           /\ InQueue(c)' <=> InQueue(c) \/ (t = "CAP" /\ d.cluster = c)
           /\ \A v : QueueLast(c, v)' <=>
                  IF t = "CAP" /\ d.cluster = c THEN Reads(d, ShownField[c]) = v
                  ELSE QueueLast(c, v)
<1>. DEFINE n == Len(queue)
<1>1. /\ UNCHANGED <<locked, evt, todo>>
      /\ n \in Nat /\ DOMAIN queue = 1 .. n /\ DOMAIN queue' = 1 .. n + 1
      /\ \A i \in 1 .. n : queue'[i] = queue[i]
      /\ queue'[n + 1].type = t /\ queue'[n + 1].data = d
  BY EmitShape
<1>. HIDE DEF n
<1>2. TellsOf(queue'[n + 1], c) <=> t = "CAP" /\ d.cluster = c
  BY <1>1 DEF TellsOf
<1>3. \A i \in 1 .. n : TellsOf(queue'[i], c) <=> TellsOf(queue[i], c)
  BY <1>1
<1>4. InQueue(c)' <=> InQueue(c) \/ (t = "CAP" /\ d.cluster = c)
  <2>1. InQueue(c)' <=> \E i \in 1 .. n + 1 : TellsOf(queue'[i], c)
    BY <1>1 DEF InQueue, TellsOf
  <2>. QED  BY <1>1, <1>2, <1>3, <2>1 DEF InQueue
<1>5. ASSUME NEW v
      PROVE  QueueLast(c, v)' <=> \A i \in 1 .. n + 1 :
                 /\ TellsOf(queue'[i], c)
                 /\ \A j \in 1 .. n + 1 : j > i => ~TellsOf(queue'[j], c)
                 => Told(queue'[i], c) = v
  BY <1>1 DEF QueueLast, TellsOf, Told
<1>6. ASSUME NEW v, t = "CAP" /\ d.cluster = c
      PROVE  QueueLast(c, v)' <=> Reads(d, ShownField[c]) = v
  <2>1. \A i \in 1 .. n : n + 1 \in 1 .. n + 1 /\ n + 1 > i
    BY <1>1
  <2>2. \A j \in 1 .. n + 1 : ~(j > n + 1) /\ (j = n + 1 \/ j \in 1 .. n)
    BY <1>1
  <2>3. Told(queue'[n + 1], c) = Reads(d, ShownField[c]) /\ n + 1 \in 1 .. n + 1
    BY <1>1 DEF Told
  <2>. QED  BY <1>2, <1>5, <1>6, <2>1, <2>2, <2>3, Zenon
<1>7. ASSUME NEW v, ~(t = "CAP" /\ d.cluster = c)
      PROVE  QueueLast(c, v)' <=> QueueLast(c, v)
  <2>1. \A j \in 1 .. n + 1 : j = n + 1 \/ j \in 1 .. n
    BY <1>1
  <2>2. \A j \in 1 .. n : j \in 1 .. n + 1
    BY <1>1
  <2>3. QueueLast(c, v) <=> \A i \in 1 .. n :
                 /\ TellsOf(queue[i], c)
                 /\ \A j \in 1 .. n : j > i => ~TellsOf(queue[j], c)
                 => Told(queue[i], c) = v
    BY <1>1 DEF QueueLast
  <2>4. \A i \in 1 .. n : queue'[i] = queue[i]
    BY <1>1
  <2>5. ~TellsOf(queue'[n + 1], c)
    BY <1>2, <1>7
  <2>. HIDE DEF QueueLast
  <2>. QED  BY <1>5, <2>1, <2>2, <2>3, <2>4, <2>5
<1>. QED  BY <1>1, <1>4, <1>6, <1>7 DEF InCall, TellsOf

LEMMA TakeTells ==
    ASSUME BusInv, TakeEvent, NEW c
    PROVE  /\ ~InCall(c)
           /\ InQueue(c) <=> InQueue(c)' \/ InCall(c)'
           /\ \A v : QueueLast(c, v) => QueueLast(c, v)'
           /\ \A v : QueueLast(c, v) /\ InCall(c)' /\ ~InQueue(c)' => Told(evt', c) = v
<1>. DEFINE n == Len(queue)
<1>1. /\ UNCHANGED <<locked, todo>> /\ evt.type = "NONE" /\ ~locked
      /\ n \in Nat /\ n >= 1 /\ DOMAIN queue = 1 .. n /\ DOMAIN queue' = 1 .. n - 1
      /\ \A i \in 1 .. n - 1 : queue'[i] = queue[i + 1]
      /\ evt' = queue[1]
  BY TakeShape DEF NoEvent, Event
<1>. HIDE DEF n
<1>2. \A i \in 2 .. n : i - 1 \in 1 .. n - 1 /\ queue'[i - 1] = queue[i]
  BY <1>1
<1>3. InCall(c)' <=> TellsOf(queue[1], c)
  BY <1>1 DEF InCall, TellsOf
<1>4. InQueue(c)' <=> \E i \in 2 .. n : TellsOf(queue[i], c)
  <2>1. InQueue(c)' <=> \E i \in 1 .. n - 1 : TellsOf(queue'[i], c)
    BY <1>1 DEF InQueue, TellsOf
  <2>2. \A i \in 1 .. n - 1 : i + 1 \in 2 .. n /\ queue'[i] = queue[i + 1]
    BY <1>1
  <2>. QED  BY <1>2, <2>1, <2>2
<1>5. 1 \in 1 .. n /\ \A i \in 1 .. n : i = 1 \/ i \in 2 .. n
  BY <1>1
<1>6. \A i \in 2 .. n : i \in 1 .. n /\ i > 1
  BY <1>1
<1>7. ASSUME NEW v, QueueLast(c, v)
      PROVE  QueueLast(c, v)'
  <2>. SUFFICES ASSUME NEW i \in 1 .. n - 1, TellsOf(queue'[i], c),
                       \A j \in 1 .. n - 1 : j > i => ~TellsOf(queue'[j], c)
                PROVE  Told(queue'[i], c) = v
    BY <1>1 DEF QueueLast, TellsOf, Told
  <2>1. \A j \in 1 .. n : j > i + 1 => ~TellsOf(queue[j], c)
    BY <1>1, <1>2
  <2>2. i + 1 \in DOMAIN queue /\ queue'[i] = queue[i + 1]
    BY <1>1
  <2>. QED  BY <1>1, <1>7, <2>1, <2>2 DEF QueueLast
<1>8. ASSUME NEW v, QueueLast(c, v), InCall(c)', ~InQueue(c)'
      PROVE  Told(evt', c) = v
  <2>1. TellsOf(queue[1], c) /\ \A j \in 1 .. n : j > 1 => ~TellsOf(queue[j], c)
    BY <1>3, <1>4, <1>5, <1>8
  <2>. QED  BY <1>1, <1>5, <1>8, <2>1 DEF QueueLast
<1>9. ~InCall(c)
  BY <1>1 DEF InCall, TellsOf
<1>10. InQueue(c) <=> \E i \in 1 .. n : TellsOf(queue[i], c)
  BY <1>1 DEF InQueue
<1>. QED  BY <1>3, <1>4, <1>5, <1>6, <1>7, <1>8, <1>9, <1>10

LEMMA SendTells ==
    ASSUME IsQueue(air), NEW f, air' = Append(air, f), NEW c
    PROVE  /\ IsQueue(air')
           /\ \A i \in DOMAIN air' : air'[i] = f \/ \E j \in DOMAIN air : air'[i] = air[j]
           /\ InAir(c)' <=> InAir(c) \/ ReportsOf(f, c)
           /\ \A v : AirLast(c, v)' <=>
                  IF ReportsOf(f, c) THEN Newest(f) = v ELSE AirLast(c, v)
<1>. DEFINE n == Len(air)
<1>1. /\ n \in Nat /\ DOMAIN air = 1 .. n /\ IsQueue(air') /\ DOMAIN air' = 1 .. n + 1
      /\ \A i \in 1 .. n : air'[i] = air[i]
      /\ air'[n + 1] = f
  BY QueueShape, QueueAppend
<1>. HIDE DEF n
<1>2. /\ n + 1 \in 1 .. n + 1
      /\ \A i \in 1 .. n : i \in 1 .. n + 1 /\ n + 1 > i
      /\ \A j \in 1 .. n + 1 : ~(j > n + 1) /\ (j = n + 1 \/ j \in 1 .. n)
  BY <1>1
<1>3. InAir(c)' <=> \E i \in 1 .. n + 1 : ReportsOf(air'[i], c)
  BY <1>1 DEF InAir, ReportsOf
<1>4. InAir(c) <=> \E i \in 1 .. n : ReportsOf(air[i], c)
  BY <1>1 DEF InAir
<1>5. ASSUME NEW v
      PROVE  AirLast(c, v)' <=> \A i \in 1 .. n + 1 :
                 /\ ReportsOf(air'[i], c)
                 /\ \A j \in 1 .. n + 1 : j > i => ~ReportsOf(air'[j], c)
                 => Newest(air'[i]) = v
  BY <1>1 DEF AirLast, ReportsOf, Newest
<1>6. ASSUME NEW v
      PROVE  AirLast(c, v) <=> \A i \in 1 .. n :
                 /\ ReportsOf(air[i], c)
                 /\ \A j \in 1 .. n : j > i => ~ReportsOf(air[j], c)
                 => Newest(air[i]) = v
  BY <1>1 DEF AirLast
<1>7. ASSUME NEW v, ReportsOf(f, c)
      PROVE  AirLast(c, v)' <=> Newest(f) = v
  BY <1>1, <1>2, <1>5, <1>7
<1>8. ASSUME NEW v, ~ReportsOf(f, c)
      PROVE  AirLast(c, v)' <=> AirLast(c, v)
  BY <1>1, <1>2, <1>5, <1>6, <1>8
<1>9. \A i \in DOMAIN air' : air'[i] = f \/ \E j \in DOMAIN air : air'[i] = air[j]
  BY <1>1, <1>2
<1>. QED  BY <1>1, <1>2, <1>3, <1>4, <1>7, <1>8, <1>9

LEMMA ReceiveTells ==
    ASSUME IsQueue(air), air # <<>>, air' = Tail(air), NEW c
    PROVE  /\ IsQueue(air') /\ Head(air) = air[1] /\ 1 \in DOMAIN air
           /\ \A i \in DOMAIN air' : \E j \in DOMAIN air : air'[i] = air[j]
           /\ InAir(c) <=> InAir(c)' \/ ReportsOf(air[1], c)
           /\ \A v : AirLast(c, v) => AirLast(c, v)'
           /\ \A v : AirLast(c, v) /\ ReportsOf(air[1], c) /\ ~InAir(c)' => Newest(air[1]) = v
<1>. DEFINE n == Len(air)
<1>1. /\ n \in Nat /\ n >= 1 /\ DOMAIN air = 1 .. n /\ IsQueue(air') /\ DOMAIN air' = 1 .. n - 1
      /\ \A i \in 1 .. n - 1 : air'[i] = air[i + 1]
      /\ Head(air) = air[1]
  BY QueueShape, QueueTail
<1>. HIDE DEF n
<1>2. /\ \A i \in 2 .. n : i - 1 \in 1 .. n - 1 /\ air'[i - 1] = air[i] /\ i \in 1 .. n /\ i > 1
      /\ \A i \in 1 .. n - 1 : i + 1 \in 2 .. n /\ i + 1 \in 1 .. n
      /\ 1 \in 1 .. n /\ \A i \in 1 .. n : i = 1 \/ i \in 2 .. n
  BY <1>1
<1>3. InAir(c)' <=> \E i \in 2 .. n : ReportsOf(air[i], c)
  <2>1. InAir(c)' <=> \E i \in 1 .. n - 1 : ReportsOf(air'[i], c)
    BY <1>1 DEF InAir, ReportsOf
  <2>. QED  BY <1>1, <1>2, <2>1
<1>4. InAir(c) <=> \E i \in 1 .. n : ReportsOf(air[i], c)
  BY <1>1 DEF InAir
<1>5. ASSUME NEW v, AirLast(c, v)
      PROVE  AirLast(c, v)'
  <2>. SUFFICES ASSUME NEW i \in 1 .. n - 1, ReportsOf(air'[i], c),
                       \A j \in 1 .. n - 1 : j > i => ~ReportsOf(air'[j], c)
                PROVE  Newest(air'[i]) = v
    BY <1>1 DEF AirLast, ReportsOf, Newest
  <2>1. \A j \in 1 .. n : j > i + 1 => ~ReportsOf(air[j], c)
    BY <1>1, <1>2
  <2>2. i + 1 \in DOMAIN air /\ air'[i] = air[i + 1]
    BY <1>1
  <2>. QED  BY <1>1, <1>5, <2>1, <2>2 DEF AirLast
<1>6. ASSUME NEW v, AirLast(c, v), ReportsOf(air[1], c), ~InAir(c)'
      PROVE  Newest(air[1]) = v
  <2>1. \A j \in 1 .. n : j > 1 => ~ReportsOf(air[j], c)
    BY <1>2, <1>3, <1>6
  <2>. QED  BY <1>1, <1>2, <1>6, <2>1 DEF AirLast
<1>. QED  BY <1>1, <1>2, <1>3, <1>4, <1>5, <1>6

-----------------------------------------------------------------------------
(* Main shows what was reported *)

LEMMA FrameFields ==
    ASSUME NEW k, NEW c, NEW rs
    PROVE  /\ Frame(k, c, rs).cmd = k /\ Frame(k, c, rs).cluster = c
           /\ Frame(k, c, rs).records = rs
  BY DEF Frame

LEMMA NoFrameOk == FrameOk(NoFrame) /\ \A c : ~ReportsOf(NoFrame, c)
  BY DEF FrameOk, NoFrame, Frame, ReportsOf

LEMMA FirstRecord ==
    ASSUME NEW f, FrameOk(f), f.cmd = "REPORT"
    PROVE  /\ Head(f.records) \in Attributes /\ Fits(Head(f.records))
           /\ f.cluster \in ShownClusters => Says(f.cluster, Head(f.records))
<1>1. f.records \in Seq(Attributes) /\ f.records # <<>>
  BY DEF FrameOk
<1>2. 1 \in DOMAIN f.records /\ Head(f.records) = f.records[1]
  BY <1>1
<1>. QED  BY <1>1, <1>2 DEF FrameOk

\* What is left of a report after its first record.
LEMMA RestOk ==
    ASSUME NEW f, FrameOk(f), f.cmd = "REPORT"
    PROVE  /\ FrameOk(Rest(f))
           /\ Rest(f) = NoFrame \/ Rest(f).cmd = "REPORT"
           /\ \A c : c # f.cluster => ~ReportsOf(Rest(f), c)
           /\ \/ Rest(f) = NoFrame /\ Newest(f) = Meaning(Head(f.records).dtype, Head(f.records).value)
              \/ ReportsOf(Rest(f), f.cluster) /\ Newest(Rest(f)) = Newest(f)
<1>. DEFINE rs == f.records
            c == f.cluster
            n == Len(rs)
<1>1. /\ rs \in Seq(Attributes) /\ rs # <<>>
      /\ f = Frame("REPORT", c, rs)
      /\ \A i \in DOMAIN rs : Fits(rs[i]) /\ (c \in ShownClusters => Says(c, rs[i]))
  BY DEF FrameOk
<1>2. n \in Nat /\ n >= 1 /\ DOMAIN rs = 1 .. n /\ Head(rs) = rs[1]
  BY <1>1
<1>3. CASE n = 1
  <2>1. Rest(f) = NoFrame
    BY <1>3 DEF Rest
  <2>2. Newest(f) = Meaning(Head(rs).dtype, Head(rs).value)
    BY <1>2, <1>3 DEF Newest
  <2>. QED  BY <2>1, <2>2, NoFrameOk
<1>4. CASE n > 1
  <2>. DEFINE ts == Tail(rs)
  <2>1. /\ ts \in Seq(Attributes) /\ ts # <<>> /\ Len(ts) = n - 1 /\ DOMAIN ts = 1 .. n - 1
        /\ \A i \in 1 .. n - 1 : ts[i] = rs[i + 1]
    BY <1>1, <1>2, <1>4
  <2>2. Rest(f) = Frame("REPORT", c, ts)
    <3>1. Rest(f) = [f EXCEPT !.records = ts]
      BY <1>4 DEF Rest
    <3>. HIDE DEF ts, c, rs
    <3>2. [Frame("REPORT", c, rs) EXCEPT !.records = ts] = Frame("REPORT", c, ts)
      BY DEF Frame
    <3>. QED  BY <1>1, <3>1, <3>2
  <2>3. ts[Len(ts)] = rs[n]
    <3>1. n - 1 \in 1 .. n - 1 /\ (n - 1) + 1 = n
      BY <1>2, <1>4
    <3>. QED  BY <2>1, <3>1
  <2>4. /\ Rest(f).cmd = "REPORT" /\ Rest(f).cluster = c /\ Rest(f).records = ts
    BY <2>2, FrameFields
  <2>5. Newest(Rest(f)) = Newest(f)
    <3>1. Rest(f).records[Len(Rest(f).records)] = f.records[Len(f.records)]
      BY <2>3, <2>4
    <3>. QED  BY <3>1 DEF Newest
  <2>6. \A i \in DOMAIN ts : Fits(ts[i]) /\ (c \in ShownClusters => Says(c, ts[i]))
    <3>1. \A i \in 1 .. n - 1 : i + 1 \in 1 .. n
      BY <1>2
    <3>. QED  BY <1>1, <1>2, <2>1, <3>1
  <2>7. FrameOk(Rest(f))
    <3>. HIDE DEF ts, c, rs
    <3>. QED  BY <2>1, <2>2, <2>4, <2>6 DEF FrameOk
  <2>. QED  BY <2>4, <2>5, <2>7 DEF ReportsOf
<1>5. n = 1 \/ n > 1
  <2>. HIDE DEF n
  <2>. QED  BY <1>2
<1>. QED  BY <1>3, <1>4, <1>5, Zenon

\* What happens elsewhere does not matter.
LEMMA ShownStays ==
    ASSUME ShownInv, UNCHANGED <<table, locked, queue, evt, todo, air, frame, shown, told>>,
           capLost => capLost'
    PROVE  ShownInv'
<1>. SUFFICES ASSUME ~capLost'
              PROVE  ShownInv'
  BY DEF ShownInv
<1>1. ~capLost
  OBVIOUS
<1>2. FramesOk' /\ CapHeard'
  BY <1>1 DEF ShownInv, FramesOk, CapHeard, Subscribed
<1>3. ASSUME NEW c \in ShownClusters
      PROVE  LastComesLast(c)'
  <2>1. LastComesLast(c)
    BY <1>1 DEF ShownInv
  <2>. QED  BY <2>1 DEF LastComesLast, AirTells, FrameTells, QueueTells, CallTells, ShownTells,
                InAir, InQueue, InCall, AirLast, QueueLast
<1>. QED  BY <1>2, <1>3 DEF ShownInv

\* What the queue tells of cluster c stays as it is.
Quiet(c) ==
    /\ InQueue(c)' <=> InQueue(c)
    /\ \A v : QueueLast(c, v)' <=> QueueLast(c, v)

\* The steps in which notify_task, or a task that subscribes, goes on.
LEMMA ShownNotify ==
    ASSUME TypeOK, BusInv, SubscribedInv, ShownInv, UNCHANGED <<air, frame, told, capLost>>,
           \/ UNCHANGED shown /\ (TakeEvent \/ Lock \/ Unlock)
           \/ UNCHANGED shown /\ \E cb \in Callbacks \ {OnCap} : Called(cb)
           \/ UNCHANGED shown /\ \E cb \in Callbacks : \E t \in Types : Subscribe(cb, t)
           \/ UNCHANGED shown /\ Unsubscribe(Guest, "CAP")
           \/ CallCap
    PROVE  ShownInv'
<1>. USE EventTypes
<1>. SUFFICES ASSUME ~capLost
              PROVE  ShownInv'
  BY DEF ShownInv
<1>1. FramesOk' /\ FramesOk /\ CapHeard
  BY DEF ShownInv, FramesOk
<1>2. ASSUME NEW c \in ShownClusters
      PROVE  /\ LastComesLast(c)
             /\ (InAir(c)' <=> InAir(c)) /\ \A v : AirLast(c, v)' <=> AirLast(c, v)
             /\ ReportsOf(frame, c)' <=> ReportsOf(frame, c)
             /\ Newest(frame') = Newest(frame) /\ told'[c] = told[c]
  BY <1>2 DEF ShownInv, InAir, AirLast
<1>3. ASSUME NEW c, UNCHANGED queue
      PROVE  Quiet(c)
  BY <1>3 DEF Quiet, InQueue, QueueLast
<1>4. CASE UNCHANGED shown /\ TakeEvent
  <2>1. CapHeard'
    BY <1>1, <1>4, TakeShape DEF CapHeard, Subscribed
  <2>2. ASSUME NEW c \in ShownClusters
        PROVE  LastComesLast(c)'
    BY <1>2, <1>4, TakeTells
       DEF Quiet, LastComesLast, AirTells, FrameTells, QueueTells, CallTells, ShownTells
  <2>. QED  BY <1>1, <2>1, <2>2 DEF ShownInv
<1>5. CASE UNCHANGED shown /\ Lock
  <2>1. CapHeard' /\ UNCHANGED <<queue, evt>>
    BY <1>1, <1>5, LockShape DEF CapHeard, Subscribed
  <2>2. ASSUME NEW c
        PROVE  (InCall(c)' <=> InCall(c)) /\ Quiet(c)
    BY <1>1, <1>3, <1>5, <2>1, LockShape DEF CapHeard, InCall, TellsOf, Subscribed
  <2>3. ASSUME NEW c \in ShownClusters
        PROVE  LastComesLast(c)'
    BY <1>2, <1>5, <2>1, <2>2
       DEF Quiet, LastComesLast, AirTells, FrameTells, QueueTells, CallTells, ShownTells
  <2>. QED  BY <1>1, <2>1, <2>3 DEF ShownInv
<1>6. CASE UNCHANGED shown /\ Unlock
  <2>1. CapHeard' /\ UNCHANGED queue
    BY <1>1, <1>6, UnlockShape DEF CapHeard, Subscribed
  <2>2. ASSUME NEW c
        PROVE  ~InCall(c)' /\ ~InCall(c) /\ Quiet(c)
    BY <1>3, <1>6, <2>1, UnlockShape DEF InCall, TellsOf
  <2>3. ASSUME NEW c \in ShownClusters
        PROVE  LastComesLast(c)'
    BY <1>2, <1>6, <2>2
       DEF Quiet, LastComesLast, AirTells, FrameTells, QueueTells, CallTells, ShownTells
  <2>. QED  BY <1>1, <2>1, <2>3 DEF ShownInv
<1>7. ASSUME UNCHANGED shown, NEW cb \in Callbacks \ {OnCap}, Called(cb)
      PROVE  ShownInv'
  <2>1. CapHeard' /\ UNCHANGED <<queue, evt>>
    BY <1>1, <1>7, CalledShape DEF CapHeard, Subscribed
  <2>2. ASSUME NEW c
        PROVE  (InCall(c)' <=> InCall(c)) /\ Quiet(c)
    BY <1>3, <1>7, <2>1, CalledShape DEF InCall, TellsOf
  <2>3. ASSUME NEW c \in ShownClusters
        PROVE  LastComesLast(c)'
    BY <1>2, <1>7, <2>1, <2>2
       DEF Quiet, LastComesLast, AirTells, FrameTells, QueueTells, CallTells, ShownTells
  <2>. QED  BY <1>1, <2>1, <2>3 DEF ShownInv
<1>8. ASSUME UNCHANGED shown, NEW cb \in Callbacks, NEW t \in Types,
             Subscribe(cb, t) \/ (Unsubscribe(cb, t) /\ cb = Guest)
      PROVE  ShownInv'
  <2>1. /\ UNCHANGED <<locked, queue, evt, todo>>
        /\ Subscribed(OnCap, "CAP") => Subscribed(OnCap, "CAP")'
    BY <1>8, SubscribeKeeps, UnsubscribeKeeps
  <2>2. ASSUME NEW c
        PROVE  (InCall(c)' <=> InCall(c)) /\ Quiet(c)
    BY <1>3, <2>1 DEF InCall, TellsOf
  <2>3. CapHeard'
    BY <1>1, <2>1 DEF CapHeard
  <2>4. ASSUME NEW c \in ShownClusters
        PROVE  LastComesLast(c)'
    BY <1>2, <1>8, <2>1, <2>2
       DEF Quiet, LastComesLast, AirTells, FrameTells, QueueTells, CallTells, ShownTells
  <2>. QED  BY <1>1, <2>3, <2>4 DEF ShownInv
<1>9. CASE CallCap
  <2>1. /\ Called(OnCap)
        /\ shown' = IF evt.data.cluster \in ShownClusters
                    THEN [shown EXCEPT ![evt.data.cluster] =
                              Reads(evt.data, ShownField[evt.data.cluster])]
                    ELSE shown
    BY <1>9 DEF CallCap
  <2>2. /\ UNCHANGED <<table, locked, queue, evt>> /\ locked
        /\ evt.type = "CAP" /\ \E i \in 1 .. Slots : todo[i] = OnCap
    BY <2>1, CalledShape DEF SubscribedInv
  <2>3. CapHeard'
    BY <1>1, <2>2 DEF CapHeard, Subscribed
  <2>4. ASSUME NEW c
        PROVE  (InCall(c)' => InCall(c)) /\ (InCall(c) <=> evt.data.cluster = c) /\ Quiet(c)
    BY <1>3, <2>2 DEF InCall, TellsOf
  <2>5. ASSUME NEW c \in ShownClusters
        PROVE  shown'[c] = IF evt.data.cluster = c THEN Told(evt, c) ELSE shown[c]
    BY <2>1 DEF TypeOK, Told
  <2>6. ASSUME NEW c \in ShownClusters
        PROVE  LastComesLast(c)'
    BY <1>2, <2>2, <2>4, <2>5
       DEF Quiet, LastComesLast, AirTells, FrameTells, QueueTells, CallTells, ShownTells
  <2>. QED  BY <1>1, <2>3, <2>6 DEF ShownInv
<1>. QED  BY <1>4, <1>5, <1>6, <1>7, <1>8, <1>9

\* The steps in which the framework emits events of other types.
LEMMA ShownOther ==
    ASSUME BusInv, ShownInv, UNCHANGED <<air, frame, shown, told, capLost>>,
           NEW t, NEW d, Emit(t, d), t # "CAP"
    PROVE  ShownInv'
<1>. SUFFICES ASSUME ~capLost
              PROVE  ShownInv'
  BY DEF ShownInv
<1>1. CASE Full
  BY <1>1, EmitShape, ShownStays
<1>2. CASE ~Full
  <2>1. FramesOk' /\ FramesOk /\ CapHeard
    BY DEF ShownInv, FramesOk
  <2>2. CapHeard'
    BY <1>2, <2>1, EmitShape DEF CapHeard, Subscribed
  <2>3. ASSUME NEW c \in ShownClusters
        PROVE  LastComesLast(c)'
    <3>1. /\ LastComesLast(c) /\ UNCHANGED evt
          /\ (InAir(c)' <=> InAir(c)) /\ \A v : AirLast(c, v)' <=> AirLast(c, v)
      BY <1>2, EmitShape DEF ShownInv, InAir, AirLast
    <3>2. (InCall(c)' <=> InCall(c)) /\ (InQueue(c)' <=> InQueue(c))
          /\ \A v : QueueLast(c, v)' <=> QueueLast(c, v)
      BY <1>2, EmitTells
    <3>. QED  BY <3>1, <3>2
         DEF LastComesLast, AirTells, FrameTells, QueueTells, CallTells, ShownTells
  <2>. QED  BY <2>1, <2>2, <2>3 DEF ShownInv
<1>. QED  BY <1>1, <1>2

\* Devices send.
LEMMA ShownSend ==
    ASSUME ShownInv, capLost => capLost', NEW f, ~capLost' => FrameOk(f), air' = Append(air, f),
           UNCHANGED <<table, locked, queue, evt, todo, frame, shown>>,
           \A c \in ShownClusters : ~capLost' =>
               told'[c] = IF ReportsOf(f, c) THEN Newest(f) ELSE told[c]
    PROVE  ShownInv'
<1>. SUFFICES ASSUME ~capLost'
              PROVE  ShownInv'
  BY DEF ShownInv
<1>1. ~capLost /\ FramesOk /\ CapHeard'
  BY DEF ShownInv, CapHeard, Subscribed
<1>2. FramesOk'
  BY <1>1, SendTells DEF FramesOk
<1>3. ASSUME NEW c \in ShownClusters
      PROVE  LastComesLast(c)'
  <2>1. /\ LastComesLast(c)
        /\ (InQueue(c)' <=> InQueue(c)) /\ (InCall(c)' <=> InCall(c))
        /\ \A v : QueueLast(c, v)' <=> QueueLast(c, v)
    BY <1>1 DEF ShownInv, InQueue, InCall, QueueLast
  <2>2. /\ InAir(c)' <=> InAir(c) \/ ReportsOf(f, c)
        /\ \A v : AirLast(c, v)' <=> IF ReportsOf(f, c) THEN Newest(f) = v ELSE AirLast(c, v)
    BY <1>1, SendTells DEF FramesOk
  <2>. QED  BY <2>1, <2>2
       DEF LastComesLast, AirTells, FrameTells, QueueTells, CallTells, ShownTells
<1>. QED  BY <1>2, <1>3, <1>1 DEF ShownInv

LEMMA ReportOk ==
    ASSUME NEW rep \in Reports
    PROVE  /\ rep[2] \in Seq(Attributes) /\ rep[2] # <<>>
           /\ \A i \in DOMAIN rep[2] : Fits(rep[2][i])
  BY EventsAssumption

LEMMA ShownReports ==
    ASSUME TypeOK, ShownInv, NEW rep \in Reports, DeviceReports(rep)
    PROVE  ShownInv'
<1>. DEFINE c == rep[1]
            rs == rep[2]
            n == Len(rs)
            f == Frame("REPORT", c, rs)
            said == {i \in DOMAIN rs : Says(c, rs[i])}
            newest == CHOOSE i \in said : \A j \in said : j <= i
<1>1. /\ UNCHANGED <<busVars, frame, mainVars>> /\ air' \in {air, Append(air, f)}
      /\ told' = IF c \in ShownClusters /\ said # {}
                 THEN [told EXCEPT ![c] = Meaning(rs[newest].dtype, rs[newest].value)]
                 ELSE told
      /\ capLost' = (capLost \/ (c \in ShownClusters /\ (said # DOMAIN rs \/ air' = air)))
  BY DEF DeviceReports, Send
<1>2. rs \in Seq(Attributes) /\ rs # <<>> /\ \A i \in DOMAIN rs : Fits(rs[i])
  BY ReportOk
<1>3. n \in Nat /\ n >= 1 /\ DOMAIN rs = 1 .. n
  BY <1>2
<1>4. f.cmd = "REPORT" /\ f.cluster = c /\ f.records = rs
  BY FrameFields
<1>5. ASSUME ~capLost', c \in ShownClusters
      PROVE  newest = n /\ said # {} /\ \A i \in DOMAIN rs : Says(c, rs[i])
  <2>1. said = 1 .. n
    BY <1>1, <1>3, <1>5
  <2>. HIDE DEF said, n, rs
  <2>2. n \in said /\ \A j \in said : j <= n
    BY <1>3, <2>1
  <2>3. newest \in said /\ \A j \in said : j <= newest
    BY <2>2
  <2>4. newest = n
    <3>1. newest \in 1 .. n /\ n <= newest
      BY <2>1, <2>2, <2>3
    <3>. HIDE DEF newest
    <3>. QED  BY <1>3, <3>1
  <2>. QED  BY <2>2, <2>4, <2>1, <1>3 DEF said
<1>6. ~capLost' => FrameOk(f)
  BY <1>2, <1>4, <1>5 DEF FrameOk
<1>7. ASSUME NEW e \in ShownClusters, ~capLost'
      PROVE  told'[e] = IF ReportsOf(f, e) THEN Newest(f) ELSE told[e]
  <2>1. CASE e = c
    <3>1. told' = [told EXCEPT ![c] = Meaning(rs[n].dtype, rs[n].value)]
      BY <1>1, <1>5, <1>7, <2>1
    <3>2. Newest(f) = Meaning(rs[n].dtype, rs[n].value)
      BY <1>4 DEF Newest
    <3>3. c \in DOMAIN told
      BY <1>7, <2>1 DEF TypeOK
    <3>. QED  BY <1>4, <2>1, <3>1, <3>2, <3>3 DEF ReportsOf
  <2>2. CASE e # c
    BY <1>1, <1>4, <1>7, <2>2 DEF TypeOK, ReportsOf
  <2>. QED  BY <2>1, <2>2
<1>8. capLost => capLost'
  BY <1>1
<1>9. air' = air => capLost' \/ UNCHANGED told
  BY <1>1
<1>. HIDE DEF f, c, rs, n, said, newest
<1>10. CASE air' = Append(air, f)
  BY <1>1, <1>6, <1>7, <1>8, <1>10, ShownSend DEF busVars, mainVars
<1>11. CASE capLost'
  BY <1>11 DEF ShownInv
<1>12. CASE UNCHANGED <<air, told>>
  BY <1>1, <1>8, <1>12, ShownStays DEF busVars, mainVars
<1>. QED  BY <1>1, <1>9, <1>10, <1>11, <1>12

\* An event that tells the value of cluster e, of a record or of another cluster.
LEMMA CapEmitted ==
    ASSUME BusInv, CapHeard, NEW d, Emit("CAP", d), CapTold, ~capLost'
    PROVE  ~Full /\ CapHeard' /\ UNCHANGED evt
<1>1. ~Full /\ Subscribed(OnCap, "CAP")
  BY DEF CapTold
<1>. QED  BY <1>1, EmitShape DEF CapHeard, Subscribed

LEMMA CapEventIs ==
    ASSUME NEW c, NEW t
    PROVE  CapEvent(c, t).cluster = c
  BY DEF CapEvent

LEMMA ShownTakeFrame ==
    ASSUME BusInv, ShownInv, TakeFrame
    PROVE  ShownInv'
<1>. DEFINE f == air[1]
<1>. SUFFICES ASSUME ~capLost'
              PROVE  ShownInv'
  BY DEF ShownInv
<1>1. /\ frame = NoFrame /\ air # <<>> /\ air' = Tail(air)
      /\ UNCHANGED <<shown, told>>
  BY DEF TakeFrame, mainVars
<1>2. ~capLost /\ FramesOk /\ CapHeard
  <2>1. (\E u : capLost' = (capLost \/ u)) \/ capLost' = capLost \/ CapTold
    BY Zenon DEF TakeFrame
  <2>2. ~capLost
    BY <2>1 DEF CapTold
  <2>. QED  BY <2>2 DEF ShownInv
<1>3. /\ IsQueue(air') /\ Head(air) = f /\ FrameOk(f)
      /\ \A i \in DOMAIN air' : FrameOk(air'[i])
  BY <1>1, <1>2, ReceiveTells DEF FramesOk
<1>4. ASSUME NEW c \in ShownClusters
      PROVE  /\ LastComesLast(c) /\ ~ReportsOf(frame, c)
             /\ InAir(c) <=> InAir(c)' \/ ReportsOf(f, c)
             /\ \A v : AirLast(c, v) => AirLast(c, v)'
             /\ \A v : AirLast(c, v) /\ ReportsOf(f, c) /\ ~InAir(c)' => Newest(f) = v
  BY <1>1, <1>2, ReceiveTells, NoFrameOk DEF ShownInv, FramesOk
<1>5. \/ /\ f.cmd = "STATUS_CHANGE" /\ UNCHANGED frame
         /\ \E t : Emit("CAP", CapEvent(f.cluster, t)) /\ CapTold
      \/ f.cmd = "REPORT" /\ frame' = f /\ UNCHANGED busVars
      \/ f.cmd = "READ_RSP" /\ UNCHANGED <<busVars, frame>>
      \/ f.cluster \notin ShownClusters /\ UNCHANGED <<busVars, frame>>
  BY <1>3 DEF TakeFrame
<1>. HIDE DEF f
<1>6. CASE /\ f.cmd = "STATUS_CHANGE" /\ UNCHANGED frame
           /\ \E t : Emit("CAP", CapEvent(f.cluster, t)) /\ CapTold
  <2>1. PICK t : Emit("CAP", CapEvent(f.cluster, t)) /\ CapTold /\ UNCHANGED frame
    BY <1>6
  <2>2. ~Full /\ CapHeard' /\ UNCHANGED evt
    BY <1>2, <2>1, CapEmitted
  <2>3. ASSUME NEW c \in ShownClusters
        PROVE  LastComesLast(c)'
    <3>1. ~ReportsOf(f, c) /\ CapEvent(f.cluster, t).cluster # c
      BY <1>3, <1>6, CapEventIs, ShownAre DEF FrameOk, ReportsOf
    <3>2. /\ (InCall(c)' <=> InCall(c)) /\ (InQueue(c)' <=> InQueue(c))
          /\ \A v : QueueLast(c, v)' <=> QueueLast(c, v)
      BY <2>1, <2>2, <3>1, EmitTells
    <3>. QED  BY <1>1, <1>4, <2>1, <2>2, <3>1, <3>2
         DEF LastComesLast, AirTells, FrameTells, QueueTells, CallTells, ShownTells
  <2>4. FramesOk'
    BY <1>2, <1>3, <2>1 DEF FramesOk
  <2>. QED  BY <2>2, <2>3, <2>4 DEF ShownInv
<1>7. CASE \/ f.cmd = "REPORT" /\ frame' = f /\ UNCHANGED busVars
           \/ /\ f.cmd = "READ_RSP" \/ f.cluster \notin ShownClusters
              /\ UNCHANGED <<busVars, frame>>
  <2>1. /\ UNCHANGED <<table, locked, queue, evt, todo>>
        /\ \/ f.cmd = "REPORT" /\ frame' = f
           \/ /\ f.cmd = "READ_RSP" \/ f.cluster \notin ShownClusters
              /\ UNCHANGED frame
    BY <1>7 DEF busVars
  <2>2. CapHeard' /\ FramesOk'
    BY <1>2, <1>3, <2>1 DEF CapHeard, Subscribed, FramesOk
  <2>3. ASSUME NEW c \in ShownClusters
        PROVE  LastComesLast(c)'
    <3>1. /\ (InCall(c)' <=> InCall(c)) /\ (InQueue(c)' <=> InQueue(c))
          /\ \A v : QueueLast(c, v)' <=> QueueLast(c, v)
      BY <2>1 DEF InCall, InQueue, QueueLast
    <3>2. ReportsOf(frame', c) <=> ReportsOf(f, c)
      BY <1>4, <2>1 DEF ReportsOf
    <3>3. ReportsOf(f, c) => frame' = f
      BY <2>1 DEF ReportsOf
    <3>. QED  BY <1>1, <1>4, <2>1, <3>1, <3>2, <3>3
         DEF LastComesLast, AirTells, FrameTells, QueueTells, CallTells, ShownTells
  <2>. QED  BY <2>2, <2>3 DEF ShownInv
<1>. QED  BY <1>5, <1>6, <1>7

LEMMA ShownParseRecord ==
    ASSUME BusInv, ShownInv, ParseRecord
    PROVE  ShownInv'
<1>. DEFINE r == Head(frame.records)
            c == frame.cluster
            d == CapEvent(c, Translate(c, r))
<1>. SUFFICES ASSUME ~capLost'
              PROVE  ShownInv'
  BY DEF ShownInv
<1>1. /\ frame # NoFrame /\ Emit("CAP", d) /\ CapTold /\ frame' = Rest(frame)
      /\ UNCHANGED <<air, shown, told>>
  BY DEF ParseRecord, Dispatch, mainVars
<1>2. ~capLost /\ FramesOk /\ CapHeard
  BY <1>1 DEF CapTold, ShownInv
<1>3. frame.cmd = "REPORT" /\ FrameOk(frame)
  BY <1>1, <1>2 DEF FramesOk
<1>4. /\ r \in Attributes /\ Fits(r) /\ (c \in ShownClusters => Says(c, r))
      /\ d.cluster = c
  BY <1>3, FirstRecord, CapEventIs
<1>5. c \in ShownClusters => Reads(d, ShownField[c]) = Meaning(r.dtype, r.value)
  BY <1>4, ReadsMeaning
<1>6. /\ FrameOk(frame') /\ (frame' = NoFrame \/ frame'.cmd = "REPORT")
      /\ \A e : e # c => ~ReportsOf(frame', e)
      /\ \/ frame' = NoFrame /\ Newest(frame) = Meaning(r.dtype, r.value)
         \/ ReportsOf(frame', c) /\ Newest(frame') = Newest(frame)
  BY <1>1, <1>3, RestOk
<1>7. ~Full /\ CapHeard' /\ UNCHANGED evt
  BY <1>1, <1>2, CapEmitted
<1>8. ReportsOf(frame, c) /\ \A e : e # c => ~ReportsOf(frame, e)
  BY <1>3 DEF ReportsOf
<1>. HIDE DEF r, c, d
<1>9. ASSUME NEW e \in ShownClusters
      PROVE  LastComesLast(e)'
  <2>1. /\ LastComesLast(e)
        /\ (InAir(e)' <=> InAir(e)) /\ \A v : AirLast(e, v)' <=> AirLast(e, v)
    BY <1>1, <1>2 DEF ShownInv, InAir, AirLast
  <2>2. /\ InCall(e)' <=> InCall(e)
        /\ InQueue(e)' <=> InQueue(e) \/ d.cluster = e
        /\ \A v : QueueLast(e, v)' <=>
               IF d.cluster = e THEN Reads(d, ShownField[e]) = v ELSE QueueLast(e, v)
    BY <1>1, <1>7, EmitTells
  <2>3. CASE e = c
    BY <1>1, <1>4, <1>5, <1>6, <1>7, <1>8, <2>1, <2>2, <2>3, NoFrameOk
       DEF LastComesLast, AirTells, FrameTells, QueueTells, CallTells, ShownTells
  <2>4. CASE e # c
    BY <1>1, <1>4, <1>6, <1>7, <1>8, <2>1, <2>2, <2>4
       DEF LastComesLast, AirTells, FrameTells, QueueTells, CallTells, ShownTells
  <2>. QED  BY <2>3, <2>4
<1>10. FramesOk'
  BY <1>1, <1>2, <1>6 DEF FramesOk
<1>. QED  BY <1>7, <1>9, <1>10 DEF ShownInv

LEMMA HubShown ==
    ASSUME TypeOK, BusInv, SubscribedInv, ShownInv, [Next]_vars
    PROVE  ShownInv'
<1>. USE EventTypes DEF hubVars, mainVars, ghosts
<1>1. CASE SetReady \/ RunCmd \/ MainSeesReady \/ UNCHANGED vars
  <2>1. UNCHANGED <<busVars, air, frame, shown, told, capLost>>
    BY <1>1 DEF SetReady, RunCmd, MainSeesReady, vars
  <2>. QED  BY <2>1, ShownStays DEF busVars
<1>2. CASE Restart
  <2>1. UNCHANGED <<busVars, frame, shown, told>> /\ air' = <<>>
        /\ (capLost => capLost') /\ (capLost' \/ air = <<>>)
    BY <1>2 DEF Restart
  <2>2. CASE capLost'
    BY <2>2 DEF ShownInv
  <2>3. CASE air = <<>>
    BY <2>1, <2>3, ShownStays DEF busVars
  <2>. QED  BY <2>1, <2>2, <2>3
<1>3. CASE TakeFrame \/ ParseRecord
  BY <1>3, ShownTakeFrame, ShownParseRecord
<1>4. CASE EmitReady \/ EmitDevice \/ EmitLost
  <2>1. UNCHANGED <<air, frame, shown, told, capLost>>
    BY <1>4 DEF EmitReady, EmitDevice, EmitLost
  <2>2. \E t \in {"READY", "LOST", "JOINED", "LEFT"} : Emit(t, "NONE")
    BY <1>4 DEF EmitReady, EmitDevice, EmitLost
  <2>. QED  BY <2>1, <2>2, ShownOther
<1>5. CASE ZoneChanges \/ (\E c : GetCap(c))
  <2>1. /\ \/ air' = Append(air, Frame("STATUS_CHANGE", "IASZone", << 1 >>))
           \/ air' = Append(air, Frame("READ_RSP", "NONE", <<>>))
           \/ UNCHANGED air
        /\ UNCHANGED <<busVars, frame, shown, told, capLost>>
    BY <1>5 DEF ZoneChanges, GetCap, Send
  <2>2. ASSUME NEW f, \/ f = Frame("STATUS_CHANGE", "IASZone", << 1 >>)
                      \/ f = Frame("READ_RSP", "NONE", <<>>)
        PROVE  FrameOk(f) /\ \A c : ~ReportsOf(f, c)
    BY <2>2, FrameFields DEF FrameOk, ReportsOf
  <2>3. CASE \E f : air' = Append(air, f) /\ FrameOk(f) /\ \A c : ~ReportsOf(f, c)
    <3>1. PICK f : air' = Append(air, f) /\ FrameOk(f) /\ \A c : ~ReportsOf(f, c)
      BY <2>3
    <3>. QED  BY <2>1, <3>1, ShownSend DEF busVars
  <2>4. CASE UNCHANGED air
    BY <2>1, <2>4, ShownStays DEF busVars
  <2>. QED  BY <2>1, <2>2, <2>3, <2>4
<1>6. CASE \E rep \in Reports : DeviceReports(rep)
  BY <1>6, ShownReports
<1>7. CASE MainSubscribes
  <2>1. UNCHANGED <<air, frame, shown, told, capLost>>
        /\ \E cb \in Callbacks : \E t \in Types : Subscribe(cb, t)
    BY <1>7, MainSubscribesTo
  <2>. QED  BY <2>1, ShownNotify
<1>8. CASE (TakeEvent \/ Lock \/ Unlock) /\ UNCHANGED <<hubVars, mainVars, ghosts, happened>>
  BY <1>8, ShownNotify
<1>9. CASE CallNetwork \/ CallGuest
  <2>1. UNCHANGED <<air, frame, shown, told, capLost>>
        /\ \E cb \in Callbacks \ {OnCap} : Called(cb)
    BY <1>9 DEF CallNetwork, CallGuest
  <2>. QED  BY <2>1, ShownNotify
<1>10. CASE CallCap
  <2>1. UNCHANGED <<air, frame, told, capLost>>
    BY <1>10 DEF CallCap
  <2>. QED  BY <1>10, <2>1, ShownNotify
<1>11. CASE GuestComes \/ GuestGoes
  <2>1. UNCHANGED <<air, frame, shown, told, capLost>>
        /\ ((\E cb \in Callbacks : \E t \in Types : Subscribe(cb, t)) \/ Unsubscribe(Guest, "CAP"))
    BY <1>11 DEF GuestComes, GuestGoes
  <2>. QED  BY <2>1, ShownNotify
<1>. QED  BY <1>1, <1>2, <1>3, <1>4, <1>5, <1>6, <1>7, <1>8, <1>9, <1>10, <1>11, NextCases

-----------------------------------------------------------------------------
(* The invariant *)

LEMMA HubValues ==
    ASSUME [Next]_vars
    PROVE  /\ \/ UNCHANGED shown
              \/ \E c \in ShownClusters : \E v : shown' = [shown EXCEPT ![c] = v]
           /\ \/ UNCHANGED told
              \/ \E c \in ShownClusters : \E v : told' = [told EXCEPT ![c] = v]
<1>. USE DEF hubVars, mainVars, ghosts
<1>1. CASE \E rep \in Reports : DeviceReports(rep)
  BY <1>1 DEF DeviceReports, Send
<1>2. CASE CallCap
  BY <1>2 DEF CallCap
<1>3. CASE MainSubscribes
  BY <1>3, MainSubscribesTo
<1>4. UNCHANGED <<shown, told>> \/ (\E rep \in Reports : DeviceReports(rep)) \/ CallCap
      \/ MainSubscribes
  BY NextCases
     DEF SetReady, EmitReady, RunCmd, Restart, TakeFrame, ParseRecord, EmitDevice, EmitLost,
         ZoneChanges, GetCap, Send, CallNetwork, CallGuest, GuestComes, GuestGoes,
         MainSeesReady, vars
<1>. QED  BY <1>1, <1>2, <1>3, <1>4

LEMMA InvStarts ==
    ASSUME Init
    PROVE  Inv
<1>. USE EventTypes
<1>1. BusInv
  BY BusStarts DEF Init
<1>2. /\ table = [t \in Types |-> NoRow] /\ queue = <<>> /\ evt = NoEvent /\ evt.type = "NONE"
      /\ locked = FALSE /\ air = <<>> /\ DOMAIN queue = {} /\ DOMAIN air = {}
      /\ IsQueue(air)
      /\ frame = NoFrame /\ shown = told /\ netLost = FALSE /\ known = "unknown"
      /\ heardReady = FALSE /\ fwpc = "starting" /\ mainpc = 0
  BY DEF Init, BusInit, NoEvent, Event, IsQueue
<1>3. TypeOK
  <2>1. BusTypeOK
    BY <1>1 DEF BusInv, BusTyped
  <2>2. {heardReady, asked, netLost, capLost} \subseteq BOOLEAN
    BY DEF Init
  <2>. QED  BY <2>1, <2>2 DEF Init, TypeOK
<1>4. \A t \in Types : \A cb \in Callbacks : ~Subscribed(cb, t)
  BY <1>2, BusAssumption DEF Subscribed, NoRow
<1>5. SubscribedInv
  BY <1>2, <1>4 DEF SubscribedInv
<1>6. KnownInv
  BY <1>2 DEF KnownInv, LastTells, NetworkCalled, NetworkWaits, OfNetwork
<1>7. OpenInv
  BY <1>2 DEF OpenInv
<1>8. ShownInv
  <2>1. FramesOk /\ CapHeard
    BY <1>2, NoFrameOk DEF FramesOk, CapHeard
  <2>2. ASSUME NEW c \in ShownClusters
        PROVE  LastComesLast(c)
    BY <1>2, NoFrameOk
       DEF LastComesLast, AirTells, FrameTells, QueueTells, CallTells, ShownTells, AirLast,
           QueueLast, InCall, TellsOf
  <2>. QED  BY <2>1, <2>2 DEF ShownInv
<1>9. ByCluster(shown) /\ ByCluster(told)
  BY DEF Init, ByCluster
<1>. QED  BY <1>1, <1>3, <1>5, <1>6, <1>7, <1>8, <1>9 DEF Inv

LEMMA InvStays ==
    ASSUME Inv, [Next]_vars
    PROVE  Inv'
<1>1. /\ TypeOK /\ BusInv /\ SubscribedInv /\ KnownInv /\ OpenInv /\ ShownInv
      /\ ByCluster(shown) /\ ByCluster(told)
  BY DEF Inv
<1>2. ByCluster(shown)' /\ ByCluster(told)'
  BY <1>1, HubValues DEF ByCluster
<1>. QED  BY <1>1, <1>2, HubBus, HubTypes, HubSubscribed, HubKnown, HubOpens, HubShown DEF Inv

LEMMA InvHolds == Spec => []Inv
<1>1. Init => Inv
  BY InvStarts
<1>2. Inv /\ [Next]_vars => Inv'
  BY InvStays
<1>. QED  BY <1>1, <1>2, PTL DEF Spec

-----------------------------------------------------------------------------
(* The properties *)

\* Every variable keeps its type; in particular the notify queue never holds
\* more than its depth.
THEOREM TypeCorrect == Spec => []TypeOK
<1>1. Inv => TypeOK
  BY DEF Inv
<1>. QED  BY <1>1, InvHolds, PTL

\* The task of FR-5.8 leaves nothing out: once the bus is empty, every callback
\* has been called with every event it had subscribed to when it was emitted,
\* whoever came and went.
THEOREM AllAreHeard == Spec => []AllHear
<1>1. Inv => AllHear
  BY BusDelivers DEF Inv
<1>. QED  BY <1>1, InvHolds, PTL

\* notify_task calls a callback with the oldest event it is due.
THEOREM InOrder == Spec => []HeardInOrder
<1>1. Inv => HeardInOrder
  BY BusDelivers DEF Inv
<1>. QED  BY <1>1, InvHolds, PTL

\* Once zb_unsubscribe() has returned, the callback is not called again.
THEOREM NoneUnsubscribed == Spec => []NoCallUnsubscribed
<1>1. Inv => NoCallUnsubscribed
  BY BusDelivers DEF Inv
<1>. QED  BY <1>1, InvHolds, PTL

\* FR-5.3: once the bus is empty, what on_network_event has heard last of the
\* network is how it is, unless an event was lost.
THEOREM NetworkIsKnown == Spec => []NetworkKnown
<1>1. Inv => NetworkKnown
  <2>. SUFFICES ASSUME Inv, Settled, known # "unknown", ~netLost
                PROVE  known = Status
    BY DEF NetworkKnown, Status
  <2>1. DOMAIN queue = {} /\ evt.type = "NONE"
    BY DEF Settled, NoEvent, Event
  <2>. QED  BY <2>1 DEF Inv, KnownInv, NetworkCalled, NetworkWaits, OfNetwork
<1>. QED  BY <1>1, InvHolds, PTL

\* main.c: a READY that on_network_event had subscribed to has its permit-join
\* command run, however the two queues on its way were filled.
THEOREM ReadyOpens == Spec => []OpensIfHeard
<1>1. Inv => OpensIfHeard
  <2>. SUFFICES ASSUME Inv, Settled, cmds = 0, fwpc = "serving", heardReady, ~asked
                PROVE  FALSE
    BY DEF OpensIfHeard
  <2>1. DOMAIN queue = {} /\ evt.type = "NONE"
    BY DEF Settled, NoEvent, Event
  <2>2. ~(cmds > 0)
    OBVIOUS
  <2>. QED  BY <2>1, <2>2 DEF Inv, OpenInv, ReadyOnWay, ReadyIn
<1>. QED  BY <1>1, InvHolds, PTL

\* FR-5.5: once nothing is on its way, main shows of each cluster what its
\* device reported last, unless a report was lost before or after the AREQ queue
\* or at a restart, came of an unknown sender or told of other attributes of the
\* cluster, or its event was lost or found main not yet subscribed.
THEOREM ReportIsShown == Spec => []ShownIsReported
<1>1. Inv => ShownIsReported
  <2>. SUFFICES ASSUME Inv, Settled, air = <<>>, frame = NoFrame, ~capLost
                PROVE  shown = told
    BY DEF ShownIsReported
  <2>1. DOMAIN queue = {} /\ DOMAIN air = {} /\ evt.type = "NONE"
    BY DEF Settled, NoEvent, Event
  <2>2. ASSUME NEW c \in ShownClusters
        PROVE  shown[c] = told[c]
    <3>1. ~InAir(c) /\ ~ReportsOf(frame, c) /\ ~InQueue(c) /\ ~InCall(c)
      BY <2>1, NoFrameOk DEF InAir, InQueue, InCall, TellsOf
    <3>. QED  BY <3>1 DEF Inv, ShownInv, LastComesLast, ShownTells
  <2>. QED  BY <2>2 DEF Inv, ByCluster
<1>. QED  BY <1>1, InvHolds, PTL
=============================================================================
