----------------------------- MODULE ZbDeviceMgr -----------------------------
(***************************************************************************)
(* The device registry (zb_device_mgr.c), one file per device              *)
(* (zb_storage_device.c), the events that announce changes, and tasks that *)
(* look an address up. framework_task alone writes; s_mutex excludes no    *)
(* reader, so that the stores of a join are steps of their own. External:  *)
(* the Zigbee network, whose reports come through the AREQ queue.          *)
(***************************************************************************)
EXTENDS Integers, Sequences, FiniteSets

CONSTANTS
    Devices,            \* IEEE addresses
    Addresses,          \* network addresses of devices
    Caps, CapsOf,       \* capabilities, and those each device has
    Readers,            \* tasks that send ZCL commands
    NoDevice, Zero,     \* the IEEE and the network address 0
    NotFound,           \* 0xFFFF
    MaxDevices,         \* ZB_DEV_MAX_DEVICES
    MaxCaps,            \* ZB_DEV_MAX_CAPS
    AreqDepth,          \* CONFIG_ZNP_AREQ_QUEUE_DEPTH
    MaxEvents, MaxFaults    \* bounds of the model

VARIABLES
    slot,           \* s_devices
    disk,           \* the ZbDeviceRecord in the file of each device, if any
    pc, msg, at,    \* where the handler is, its AREQ, its slot
    ready,          \* framework_task is in handle_ready()
    areqs,          \* s_areq_queue
    seen,           \* the registry as the events since the boot tell it
    booted,         \* what the boot loaded, but for devices events told of since
    eventLost,      \* an event was dropped since the boot
    credited,       \* the last report: who sent it, whose the event says it is
    reader,         \* what each reader is doing
    net,            \* each device's address
    trouble,        \* what has gone wrong so far
    events, faults  \* budgets spent

told == <<seen, booted, eventLost>>
registry == <<slot, told>>
handler == <<pc, msg, at>>
budgets == <<events, faults>>
vars == <<registry, disk, handler, ready, areqs, credited, reader, net,
          trouble, budgets>>

ASSUME DeviceAssumption ==
    /\ NoDevice \notin Devices /\ Zero \notin Addresses
    /\ NotFound \notin Addresses \cup {Zero}
    /\ CapsOf \in [Devices -> SUBSET Caps]
    /\ MaxDevices \in Nat \ {0} /\ MaxCaps \in Nat /\ AreqDepth \in Nat \ {0}
    /\ MaxEvents \in Nat /\ MaxFaults \in Nat

Slots == 1 .. MaxDevices
Away == NotFound
Entry(d, a) == [ieee |-> d, nwk |-> a]

\* The record zb_dev_mgr_join() and parse_simple_desc_rsp() save: it starts as
\* ZbDeviceRecord_init_zero and gets the two addresses, no endpoint. An empty
\* file decodes to one of zeros.
Record(d, a) == [ieee |-> d, nwk |-> a, endpoints |-> {}]
Blank == Record(NoDevice, Zero)

Message(kind, d, a, c) == [kind |-> kind, dev |-> d, nwk |-> a, caps |-> c]
NoMessage == Message("none", NoDevice, Zero, {})
Free == [active |-> FALSE, ieee |-> NoDevice, nwk |-> Zero, caps |-> {}]

Active == {s \in Slots : slot[s].active}
Entries == {Entry(slot[s].ieee, slot[s].nwk) : s \in Active}
Files == UNION {disk[d] : d \in Devices}
Stored == {Entry(f.ieee, f.nwk) : f \in Files}

First(S) == CHOOSE s \in S : \A t \in S : s <= t

\* A bug: a slot in use is taken.
AnySlots == IF Slots \ Active = {} THEN {} ELSE Slots

\* find_by_ieee(), find_by_nwk(), find_free_slot(): the slots they may return.
WithIeee(d) == {s \in Active : slot[s].ieee = d}
WithNwk(a) == {s \in Active : slot[s].nwk = a}
FreeSlots == Slots \ Active

Event == events < MaxEvents /\ events' = events + 1
Fault == faults < MaxFaults /\ faults' = faults + 1

-----------------------------------------------------------------------------
(* The network (external) and the AREQ queue *)

\* An AREQ that finds the queue full is dropped.
Post(m) ==
    IF Len(areqs) < AreqDepth
    THEN areqs' = Append(areqs, m) /\ UNCHANGED trouble
    ELSE UNCHANGED areqs /\ trouble' = trouble \cup {"overflow"}

\* TC_DEV_IND or END_DEVICE_ANNCE_IND: a device joins, or comes back, with an
\* address no other device has.
Announce(d, a) ==
    /\ Event
    /\ \A e \in Devices \ {d} : net[e] # a
    /\ net' = [net EXCEPT ![d] = a]
    /\ Post(Message("join", d, a, {}))
    /\ UNCHANGED <<registry, disk, handler, ready, credited, reader, faults>>

Leaves(d) ==
    /\ Event
    /\ net[d] # Away
    /\ net' = [net EXCEPT ![d] = Away]
    /\ Post(Message("leave", d, net[d], {}))
    /\ UNCHANGED <<registry, disk, handler, ready, credited, reader, faults>>

\* An AF_INCOMING_MSG with an attribute report, or the descriptor asked for.
Sends(d, kind, c) ==
    /\ Event
    /\ net[d] # Away
    /\ Len(areqs) < AreqDepth
    /\ areqs' = Append(areqs, Message(kind, d, net[d], {c}))
    /\ UNCHANGED <<registry, disk, handler, ready, credited, reader, net,
                   trouble, faults>>

-----------------------------------------------------------------------------
(* zb_dev_mgr_on_areq() *)

Receive(kind) ==
    /\ ready /\ pc = "idle"
    /\ areqs # <<>> /\ Head(areqs).kind = kind
    /\ areqs' = Tail(areqs)

\* Lookups of d are no longer sure to find it as it was.
Touch(d) ==
    reader' = [r \in Readers |->
                  [reader[r] EXCEPT !.steady = @ /\ reader[r].dev # d]]

\* zb_dev_mgr_join(): the slot of the device, or a free one.
JoinSlot ==
    /\ Receive("join")
    /\ LET m == Head(areqs)
           S == IF WithIeee(m.dev) # {} THEN WithIeee(m.dev) ELSE FreeSlots
       IN  /\ S # {}
           /\ at' = First(S)
           /\ slot' = [slot EXCEPT ![at'].active = TRUE]
           /\ msg' = m
           /\ Touch(m.dev)
    /\ pc' = "ieee"
    /\ UNCHANGED <<disk, ready, told, credited, net, trouble, budgets>>

\* A bug: the device is announced although the registry is full.
JoinRefusedLate ==
    /\ Receive("join")
    /\ WithIeee(Head(areqs).dev) = {} /\ FreeSlots = {}
    /\ trouble' = trouble \cup {"full"}
    /\ pc' = "joined" /\ msg' = Head(areqs)
    /\ UNCHANGED <<registry, disk, at, ready, credited, reader, net, budgets>>

\* ESP_ERR_NO_MEM.
JoinRefused ==
    /\ Receive("join")
    /\ WithIeee(Head(areqs).dev) = {} /\ FreeSlots = {}
    /\ trouble' = trouble \cup {"full"}
    /\ UNCHANGED <<registry, disk, handler, ready, credited, reader, net,
                   budgets>>

JoinIeee ==
    /\ pc = "ieee"
    /\ slot' = [slot EXCEPT ![at].ieee = msg.dev]
    /\ pc' = "nwk"
    /\ UNCHANGED <<disk, msg, at, ready, areqs, told, credited, reader, net,
                   trouble, budgets>>

\* A bug: the file of a device that is known is not written again.
JoinNwkKnown ==
    /\ pc = "nwk"
    /\ slot' = [slot EXCEPT ![at].nwk = msg.nwk]
    /\ pc' = IF disk[msg.dev] = {} THEN "open" ELSE "joined"
    /\ UNCHANGED <<disk, msg, at, ready, areqs, told, credited, reader, net,
                   trouble, budgets>>

JoinNwk ==
    /\ pc = "nwk"
    /\ slot' = [slot EXCEPT ![at].nwk = msg.nwk]
    /\ pc' = "open"
    /\ UNCHANGED <<disk, msg, at, ready, areqs, told, credited, reader, net,
                   trouble, budgets>>

\* zb_storage_device_save(): fopen("wb") makes a new file empty, an old one
\* keeps its content until it is closed.
OpenFile ==
    /\ pc = "open"
    /\ disk' = [disk EXCEPT ![msg.dev] = IF @ = {} THEN {Blank} ELSE @]
    /\ pc' = "write"
    /\ UNCHANGED <<registry, msg, at, ready, areqs, credited, reader, net,
                   trouble, budgets>>

\* zb_dev_mgr_join() and parse_simple_desc_rsp() go on whether it was saved.
Saved == pc' = IF msg.kind = "join" THEN "joined" ELSE "idle"

WriteFile ==
    /\ pc = "write"
    /\ disk' = [disk EXCEPT ![msg.dev] = {Record(msg.dev, msg.nwk)}]
    /\ Saved
    /\ UNCHANGED <<registry, msg, at, ready, areqs, credited, reader, net,
                   trouble, budgets>>

\* No memory, no file, no space.
SaveFails ==
    /\ pc \in {"open", "write"}
    /\ Fault
    /\ trouble' = trouble \cup {"io"}
    /\ Saved
    /\ UNCHANGED <<registry, disk, msg, at, ready, areqs, credited, reader,
                   net, events>>

\* zb_event_emit() drops the event when the notify queue is full.
Tell(entries) ==
    /\ booted' = {e \in booted : e.ieee # msg.dev}
    /\ \/ /\ seen' = {e \in seen : e.ieee # msg.dev} \cup entries
          /\ UNCHANGED <<eventLost, faults>>
       \/ Fault /\ eventLost' = TRUE /\ UNCHANGED seen

EmitJoined ==
    /\ pc = "joined"
    /\ Tell({Entry(msg.dev, msg.nwk)})
    /\ pc' = "idle"
    /\ UNCHANGED <<slot, disk, msg, at, ready, areqs, credited, reader, net,
                   trouble, events>>

\* A bug: the slot is not freed.
LeaveSlotKept ==
    /\ Receive("leave")
    /\ msg' = Head(areqs) /\ Touch(Head(areqs).dev)
    /\ pc' = "delete"
    /\ UNCHANGED <<slot, disk, at, ready, told, credited, net, trouble, budgets>>

\* zb_dev_mgr_leave(): the rest is done for a device that is not known, too.
LeaveSlot ==
    /\ Receive("leave")
    /\ LET m == Head(areqs) IN
        /\ slot' = IF WithIeee(m.dev) = {} THEN slot
                   ELSE [slot EXCEPT ![First(WithIeee(m.dev))].active = FALSE]
        /\ msg' = m
        /\ Touch(m.dev)
    /\ pc' = "delete"
    /\ UNCHANGED <<disk, at, ready, told, credited, net, trouble, budgets>>

DeleteFile ==
    /\ pc = "delete"
    /\ \/ disk' = [disk EXCEPT ![msg.dev] = {}] /\ UNCHANGED <<trouble, faults>>
       \/ Fault /\ trouble' = trouble \cup {"io"} /\ UNCHANGED disk
    /\ pc' = "left"
    /\ UNCHANGED <<registry, msg, at, ready, areqs, credited, reader, net,
                   events>>

EmitLeft ==
    /\ pc = "left"
    /\ Tell({})
    /\ pc' = "idle"
    /\ UNCHANGED <<slot, disk, msg, at, ready, areqs, credited, reader, net,
                   trouble, events>>

\* A bug: no limit.
LearnAny(s, C) == [slot EXCEPT ![s].caps = @ \cup C]

\* zb_dev_mgr_learn_cap(), for one capability.
LearnCap(s, C) ==
    IF Cardinality(slot[s].caps \cup C) <= MaxCaps
    THEN [slot EXCEPT ![s].caps = @ \cup C]
    ELSE slot

\* parse_af_incoming(): an attribute report is credited to the device that has
\* the sender's address.
AfIncoming ==
    /\ Receive("report")
    /\ LET m == Head(areqs)
           S == WithNwk(m.nwk)
       IN  IF S = {} THEN UNCHANGED <<slot, credited>>
           ELSE /\ slot' = LearnCap(First(S), m.caps)
                /\ credited' = <<m.dev, slot[First(S)].ieee>>
    /\ UNCHANGED <<disk, handler, ready, told, reader, net, trouble, budgets>>

\* parse_simple_desc_rsp(): the record it saves names no endpoint.
SimpleDescRsp ==
    /\ Receive("desc")
    /\ LET m == Head(areqs)
           S == WithNwk(m.nwk)
       IN  IF S = {} THEN UNCHANGED <<slot, handler>>
           ELSE /\ slot' = LearnCap(First(S), m.caps)
                /\ msg' = [m EXCEPT !.dev = slot[First(S)].ieee]
                /\ pc' = "open"
                /\ UNCHANGED at
    /\ UNCHANGED <<disk, ready, told, credited, reader, net, trouble, budgets>>

-----------------------------------------------------------------------------
(* Around the registry *)

\* handle_ready() returns; later zb_net_startup_and_wait() takes what is in the
\* queue and keeps none of it.
LeaveReady ==
    /\ ready /\ pc = "idle"
    /\ Event
    /\ ready' = FALSE
    /\ UNCHANGED <<registry, disk, handler, areqs, credited, reader, net,
                   trouble, faults>>

\* After RECONFIGURE or CHANGE_CHANNEL, or when NV cannot be read,
\* handle_reconfiguring() forms the network anew, without the devices it had: no
\* LEAVE_IND tells of it, and the registry and the files stay.
FormNetwork ==
    /\ ~ready
    /\ Event
    /\ \E d \in Devices : net[d] # Away
    /\ net' = [d \in Devices |-> Away]
    /\ trouble' = trouble \cup {"reformed"}
    /\ UNCHANGED <<registry, disk, handler, ready, areqs, credited, reader,
                   faults>>

StartupDiscards ==
    /\ ~ready
    /\ areqs # <<>>
    /\ areqs' = Tail(areqs)
    /\ trouble' = IF Head(areqs).kind \in {"join", "leave"}
                  THEN trouble \cup {"discard"} ELSE trouble
    /\ UNCHANGED <<registry, disk, handler, ready, credited, reader, net,
                   budgets>>

EnterReady ==
    /\ ~ready
    /\ ready' = TRUE
    /\ UNCHANGED <<registry, disk, handler, areqs, credited, reader, net,
                   trouble, budgets>>

\* What a restart of the ESP32 loses: AREQs, a handler half done, a file that
\* was not closed.
RestartLoses ==
    (IF pc \in {"open", "write"} THEN {"io"} ELSE {}) \cup
    (IF pc # "idle" \/ areqs # <<>> \/ "io" \in trouble THEN {"restart"} ELSE {})

IdleReader == [pc |-> "idle", dev |-> NoDevice, slot |-> 1, steady |-> FALSE,
               nwk |-> NotFound]

\* zb_dev_mgr_init() and zb_storage_device_load_all(): the files in any order,
\* as many as there are slots, with the capabilities they name. No event tells of
\* them.
Restart ==
    /\ Fault
    /\ \E n \in 0 .. MaxDevices : \E order \in [1 .. n -> Files] :
        /\ \A i, j \in 1 .. n : i # j => order[i] # order[j]
        /\ n = MaxDevices \/ \A f \in Files : \E i \in 1 .. n : order[i] = f
        /\ slot' = [s \in Slots |->
                       IF s > n THEN Free
                       ELSE [active |-> TRUE, ieee |-> order[s].ieee,
                             nwk |-> order[s].nwk, caps |-> order[s].endpoints]]
        /\ booted' = {Entry(order[i].ieee, order[i].nwk) : i \in 1 .. n}
    /\ seen' = {} /\ eventLost' = FALSE
    /\ pc' = "idle" /\ msg' = NoMessage /\ at' = 1 /\ ready' = FALSE
    /\ areqs' = <<>>
    /\ trouble' = trouble \cup RestartLoses
    /\ reader' = [r \in Readers |-> IdleReader]
    /\ UNCHANGED <<disk, credited, net, events>>

\* zb_dev_mgr_get_nwk(), without s_mutex, once for each reader.
FindDevice(r, d) ==
    /\ reader[r].pc = "idle"
    /\ reader' = [reader EXCEPT ![r] =
          IF WithIeee(d) = {}
          THEN [IdleReader EXCEPT !.pc = "done", !.dev = d]
          ELSE [pc |-> "read", dev |-> d, slot |-> First(WithIeee(d)),
                steady |-> ~(pc \in {"ieee", "nwk"}
                              /\ First(WithIeee(d)) = at),
                nwk |-> NotFound]]
    /\ UNCHANGED <<registry, disk, handler, ready, areqs, credited, net,
                   trouble, budgets>>

ReadNwk(r) ==
    /\ reader[r].pc = "read"
    /\ reader' = [reader EXCEPT ![r].pc = "done",
                                ![r].nwk = slot[reader[r].slot].nwk]
    /\ UNCHANGED <<registry, disk, handler, ready, areqs, credited, net,
                   trouble, budgets>>

-----------------------------------------------------------------------------
(* The specification *)

Init ==
    /\ slot = [s \in Slots |-> Free] /\ disk = [d \in Devices |-> {}]
    /\ pc = "idle" /\ msg = NoMessage /\ at = 1 /\ ready = FALSE
    /\ areqs = <<>> /\ seen = {} /\ booted = {} /\ eventLost = FALSE
    /\ credited = <<NoDevice, NoDevice>>
    /\ reader = [r \in Readers |-> IdleReader]
    /\ net = [d \in Devices |-> Away]
    /\ trouble = {} /\ events = 0 /\ faults = 0

Network ==
    \E d \in Devices :
        \/ \E a \in Addresses : Announce(d, a)
        \/ Leaves(d)
        \/ \E kind \in {"report", "desc"}, c \in CapsOf[d] : Sends(d, kind, c)

OnAreq ==
    \/ JoinSlot \/ JoinRefused \/ JoinIeee \/ JoinNwk \/ OpenFile \/ WriteFile
    \/ SaveFails \/ EmitJoined \/ LeaveSlot \/ DeleteFile \/ EmitLeft
    \/ AfIncoming \/ SimpleDescRsp

Lookup == \E r \in Readers : ReadNwk(r) \/ \E d \in Devices : FindDevice(r, d)

Next ==
    \/ Network \/ OnAreq \/ Lookup
    \/ LeaveReady \/ FormNetwork \/ StartupDiscards \/ EnterReady \/ Restart

Spec == Init /\ [][Next]_vars

-----------------------------------------------------------------------------
(* Properties *)

Entrys == [ieee : Devices \cup {NoDevice}, nwk : Addresses \cup {Zero}]
Records == [ieee : Devices \cup {NoDevice}, nwk : Addresses \cup {Zero},
            endpoints : {C \in SUBSET Caps : Cardinality(C) <= MaxCaps}]

TypeOK ==
    /\ slot \in [Slots -> [active : BOOLEAN, ieee : Devices \cup {NoDevice},
                           nwk : Addresses \cup {Zero}, caps : SUBSET Caps]]
    /\ \A s \in Slots : Cardinality(slot[s].caps) <= MaxCaps
    /\ disk \in [Devices -> SUBSET Records]
    /\ pc \in {"idle", "ieee", "nwk", "open", "write", "joined", "delete", "left"}
    /\ msg \in [kind : {"none", "join", "leave", "report", "desc"},
                dev : Devices \cup {NoDevice}, nwk : Addresses \cup {Zero},
                caps : SUBSET Caps]
    /\ at \in Slots /\ ready \in BOOLEAN
    /\ Len(areqs) <= AreqDepth
    /\ seen \subseteq Entrys /\ booted \subseteq Entrys /\ eventLost \in BOOLEAN
    /\ net \in [Devices -> Addresses \cup {Away}]
    /\ trouble \subseteq {"overflow", "full", "io", "discard", "restart",
                         "reformed"}

\* Between two AREQs the files hold the devices of the registry at their
\* addresses, and no others, through joins, changes of address, discovery, leaves
\* and restarts at any step, as long as no access to a file failed or was cut
\* off. Nothing is claimed of capabilities: see CapsOnDisk.
RegistryOnDisk == pc = "idle" /\ "io" \notin trouble => Entries = Stored

\* "Persist updated caps" (zb_device_mgr.c:485), FR-4.3: the record that a
\* descriptor is followed by holds the capabilities learned from it.
CapsOnDisk ==
    pc = "idle" /\ msg.kind = "desc" /\ "io" \notin trouble =>
        \A s \in WithIeee(msg.dev) : \A f \in disk[msg.dev] :
            slot[s].caps \cap msg.caps \subseteq f.endpoints

\* FR-5.4: an application that follows DEVICE_JOINED and DEVICE_LEFT knows the
\* registry up to what a restart loaded, also when the registry is full, a device
\* that is known joins or one that is not leaves, and whatever fails on the disk.
\* A device it has not heard of is one the boot loaded that neither joined nor
\* left since, be it one that a failed delete has brought back. Nothing is
\* claimed once an event was dropped.
EventsTellRegistry == pc = "idle" /\ ~eventLost => Entries = seen \cup booted

\* A report is credited to the device that sent it, although addresses are
\* reused: AREQs come in order and none of a join or a leave was lost. Nothing is
\* claimed once the network was formed anew: an address may then be that of a new
\* device and of one the registry still has.
ReportsNameSender ==
    trouble \subseteq {"full", "io"} => credited[1] = credited[2]

\* With nothing lost, the network not formed anew and nothing to do the registry
\* is the network.
InStep == \A d \in Devices : \A a \in Addresses :
    net[d] = a <=> Entry(d, a) \in Entries
RegistryFollowsNetwork ==
    pc = "idle" /\ areqs = <<>> /\ trouble = {} => InStep

\* Joins and leaves of other devices do not disturb the lookup of a device that
\* stays where it is.
LookupSettled == \A r \in Readers :
    reader[r].pc = "done" /\ reader[r].steady =>
        Entry(reader[r].dev, reader[r].nwk) \in Entries
=============================================================================
