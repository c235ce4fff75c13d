--------------------------- MODULE ZbDeviceMgrProofs ---------------------------
(***************************************************************************)
(* Proofs of the invariants of ZbDeviceMgr for every value of its          *)
(* constants.                                                              *)
(***************************************************************************)
EXTENDS ZbDeviceMgr, FiniteSetTheorems, WellFoundedInduction, TLAPS

(***************************************************************************)
(* The inductive invariant.  The slot a join is filling is set aside: its  *)
(* fields may be those of the device that had it before.  Held is what the *)
(* other slots say, Known is that with the device that joins.              *)
(***************************************************************************)
Filling == pc \in {"ieee", "nwk"}
Others == IF Filling THEN Active \ {at} ELSE Active
Held == {Entry(slot[s].ieee, slot[s].nwk) : s \in Others}
Known == Held \cup (IF Filling THEN {Entry(msg.dev, msg.nwk)} ELSE {})
NoEntry == Entry(NoDevice, Zero)

\* The entries records stand for.
Book(S) == {Entry(f.ieee, f.nwk) : f \in S}

\* The entries of one device, and of the others.
OfDevice(S, d) == {e \in S : e.ieee = d}
NotOf(S, d) == {e \in S : e.ieee # d}

Messages == [kind : {"join", "leave", "report", "desc"}, dev : Devices,
             nwk : Addresses, caps : SUBSET Caps]
QueueType == areqs \in Seq(Messages)

ReaderType == reader \in
    [Readers -> [pc : {"idle", "read", "done"}, dev : Devices \cup {NoDevice},
                 slot : Slots, steady : BOOLEAN,
                 nwk : Addresses \cup {Zero, NotFound}]]

\* The AREQ each step of the handler is about.
HandlerInv ==
    /\ pc # "idle" => msg.dev \in Devices /\ msg.nwk \in Addresses
    /\ pc \in {"ieee", "nwk", "joined"} => msg.kind = "join"
    /\ pc \in {"open", "write"} => msg.kind \in {"join", "desc"}
    /\ pc \in {"delete", "left"} => msg.kind = "leave"
    /\ Filling => slot[at].active
    /\ pc = "nwk" => slot[at].ieee = msg.dev

\* No two slots hold the same device; one read from an empty file holds none.
RegistryInv ==
    /\ \A s, t \in Others : slot[s].ieee = slot[t].ieee => s = t
    /\ \A s \in Others : \/ slot[s].ieee \in Devices /\ slot[s].nwk \in Addresses
                         \/ slot[s].ieee = NoDevice /\ slot[s].nwk = Zero
    /\ pc \in {"ieee", "nwk", "delete", "left"} =>
           \A s \in Others : slot[s].ieee # msg.dev
    /\ pc \in {"open", "write", "joined"} => Entry(msg.dev, msg.nwk) \in Held

\* The handler is at work on a change that the events have not told.
Changing == pc # "idle" /\ msg.kind # "desc"
Heard == seen \cup booted
EventsInv == ~eventLost =>
    \A e \in Entrys : ~(Changing /\ e.ieee = msg.dev) => (e \in Heard <=> e \in Held)

\* The same for the files: nothing is promised once an access has failed, but
\* that each file is empty or about its device.
FileShape == \A d \in Devices :
    disk[d] = {} \/ disk[d] = {Blank} \/ \E a \in Addresses : disk[d] = {Record(d, a)}
Saving == Changing /\ pc \in {"ieee", "nwk", "open", "write", "delete"}
DiskInv ==
    /\ FileShape
    /\ "io" \notin trouble =>
        /\ \A e \in Held : e.ieee \in Devices
        /\ \A d \in Devices : ~(Saving /\ d = msg.dev) => Book(disk[d]) = OfDevice(Held, d)
        /\ \A d \in Devices : disk[d] = {Blank} => pc = "write"
        /\ pc = "delete" /\ disk[msg.dev] # {} => Slots \ Others # {}

ReaderInv == \A r \in Readers :
    reader[r].pc \in {"read", "done"} /\ reader[r].steady =>
        /\ reader[r].slot \in Others
        /\ slot[reader[r].slot].ieee = reader[r].dev
        /\ reader[r].pc = "done" => slot[reader[r].slot].nwk = reader[r].nwk

\* A join or a leave of d is at i in the queue.
MoveAt(d, i) == areqs[i].kind \in {"join", "leave"} /\ areqs[i].dev = d
Moving(d) == \E i \in 1 .. Len(areqs) : MoveAt(d, i)

NetInv == \A d, e \in Devices : net[d] = net[e] /\ net[d] # Away => d = e

\* What the registry knows and the queue does not change is so, and the last
\* AREQ about a device tells where it is.
Current == \A e \in Known :
    e.ieee \in Devices => net[e.ieee] = e.nwk \/ Moving(e.ieee)
LastMove == \A i \in 1 .. Len(areqs) :
    areqs[i].kind \in {"join", "leave"} =>
        \/ net[areqs[i].dev] = IF areqs[i].kind = "join" THEN areqs[i].nwk ELSE Away
        \/ \E j \in i + 1 .. Len(areqs) : MoveAt(areqs[i].dev, j)

\* Before a report is taken, every other device that had the sender's address
\* has been moved.
SenderInv == \A i \in 1 .. Len(areqs) : areqs[i].kind = "report" =>
    /\ \A e \in Known :
           e.nwk = areqs[i].nwk /\ e.ieee # areqs[i].dev =>
               \E j \in 1 .. i - 1 : MoveAt(e.ieee, j)
    /\ \A j \in 1 .. i - 1 :
           areqs[j].kind = "join" /\ areqs[j].nwk = areqs[i].nwk
             /\ areqs[j].dev # areqs[i].dev =>
               \E k \in j + 1 .. i - 1 : MoveAt(areqs[j].dev, k)

Complete == \A d \in Devices :
    net[d] # Away => Entry(d, net[d]) \in Known \/ Moving(d)

Lossless == trouble \subseteq {"full", "io"}
QueueInv ==
    /\ NetInv
    /\ Lossless => Current /\ LastMove /\ SenderInv /\ credited[1] = credited[2]
    /\ trouble = {} => Complete

-----------------------------------------------------------------------------
(* The operators the handler is built from *)

\* A search of the table returns one of the slots it looks for.
LEMMA FirstIn ==
    ASSUME NEW S \in SUBSET Slots, S # {}
    PROVE  First(S) \in S
<1>1. S \subseteq Nat
  BY DeviceAssumption DEF Slots
<1>2. PICK s \in S : \A t \in S : ~(<<t, s>> \in OpToRel(<, Nat))
  BY <1>1, WFMin, NatLessThanWellFounded, Zenon
<1>3. ASSUME NEW t \in S PROVE s <= t
  <2>1. <<t, s>>[1] = t /\ <<t, s>>[2] = s
    OBVIOUS
  <2>2. <<t, s>> \in Nat \X Nat
    BY <1>1
  <2>3. ~(t < s)
    BY <1>2, <2>1, <2>2 DEF OpToRel
  <2> QED
    BY <1>1, <2>3
<1> QED
  BY <1>3 DEF First

SlotType == [active : BOOLEAN, ieee : Devices \cup {NoDevice},
             nwk : Addresses \cup {Zero}, caps : SUBSET Caps]

\* zb_dev_mgr_learn_cap() changes no address and respects ZB_DEV_MAX_CAPS.
LEMMA LearnCapKeeps ==
    ASSUME slot \in [Slots -> SlotType],
           \A s \in Slots : Cardinality(slot[s].caps) <= MaxCaps,
           NEW s \in Slots, NEW C \in SUBSET Caps
    PROVE  /\ LearnCap(s, C) \in [Slots -> SlotType]
           /\ \A t \in Slots :
                 /\ Cardinality(LearnCap(s, C)[t].caps) <= MaxCaps
                 /\ LearnCap(s, C)[t].active = slot[t].active
                 /\ LearnCap(s, C)[t].ieee = slot[t].ieee
                 /\ LearnCap(s, C)[t].nwk = slot[t].nwk
<1> DEFINE new == [slot EXCEPT ![s].caps = @ \cup C]
<1>1. /\ new \in [Slots -> SlotType]
      /\ new[s].caps = slot[s].caps \cup C
      /\ \A t \in Slots : /\ t # s => new[t] = slot[t]
                          /\ new[t].active = slot[t].active
                          /\ new[t].ieee = slot[t].ieee
                          /\ new[t].nwk = slot[t].nwk
  BY DEF SlotType
<1>2. CASE Cardinality(slot[s].caps \cup C) <= MaxCaps
  <2>1. LearnCap(s, C) = new
    BY <1>2 DEF LearnCap
  <2>2. \A t \in Slots : Cardinality(new[t].caps) <= MaxCaps
    BY <1>1, <1>2
  <2> QED
    BY <1>1, <2>1, <2>2
<1>3. CASE ~(Cardinality(slot[s].caps \cup C) <= MaxCaps)
  <2>1. LearnCap(s, C) = slot
    BY <1>3 DEF LearnCap
  <2> QED
    BY <2>1
<1> QED
  BY <1>2, <1>3

\* The AREQ that is taken, and what the queue is then.
LEMMA TakeHead ==
    ASSUME QueueType, areqs # <<>>, Len(areqs) <= AreqDepth
    PROVE  /\ Head(areqs) \in Messages /\ Head(areqs) = areqs[1]
           /\ Tail(areqs) \in Seq(Messages) /\ Len(Tail(areqs)) = Len(areqs) - 1
           /\ Len(areqs) \in Nat \ {0}
           /\ \A i \in 1 .. Len(areqs) - 1 : Tail(areqs)[i] = areqs[i + 1]
  BY DEF QueueType

\* The device an AREQ is about, and that a search found, can be a message.
LEMMA MessageType ==
    ASSUME NEW m \in Messages, NEW d \in Devices
    PROVE  /\ [m EXCEPT !.dev = d] \in Messages
           /\ [m EXCEPT !.dev = d].kind = m.kind
           /\ [m EXCEPT !.dev = d].dev = d
           /\ [m EXCEPT !.dev = d].nwk = m.nwk
  BY DEF Messages

-----------------------------------------------------------------------------
(* Types *)

AnyMessage == [kind : {"none", "join", "leave", "report", "desc"},
                 dev : Devices \cup {NoDevice}, nwk : Addresses \cup {Zero},
                 caps : SUBSET Caps]
SlotsTyped == /\ slot \in [Slots -> SlotType]
              /\ \A s \in Slots : Cardinality(slot[s].caps) <= MaxCaps
DiskTyped == disk \in [Devices -> SUBSET Records]
HandlerTyped ==
    /\ pc \in {"idle", "ieee", "nwk", "open", "write", "joined", "delete", "left"}
    /\ msg \in AnyMessage /\ at \in Slots
QueueTyped == QueueType /\ Len(areqs) <= AreqDepth
RestTyped ==
    /\ ready \in BOOLEAN
    /\ seen \subseteq Entrys /\ booted \subseteq Entrys /\ eventLost \in BOOLEAN
NetTyped == net \in [Devices -> Addresses \cup {Away}]
TroubleTyped == trouble \subseteq {"overflow", "full", "io", "discard", "restart",
                                   "reformed"}
Typed == SlotsTyped /\ DiskTyped /\ HandlerTyped /\ QueueTyped /\ RestTyped
           /\ NetTyped /\ TroubleTyped /\ ReaderType

LEMMA TypedIsTypeOK == Typed <=> TypeOK /\ QueueType /\ ReaderType
  BY DEF Typed, TypeOK, SlotsTyped, DiskTyped, HandlerTyped, QueueTyped, RestTyped,
         NetTyped, TroubleTyped, SlotType, AnyMessage

LEMMA EntryType ==
    /\ \A d \in Devices \cup {NoDevice}, a \in Addresses \cup {Zero} :
           Entry(d, a) \in Entrys /\ Entry(d, a).ieee = d /\ Entry(d, a).nwk = a
    /\ \A e \in Entrys : e.ieee \in Devices \cup {NoDevice}
                           /\ e.nwk \in Addresses \cup {Zero}
                           /\ e = Entry(e.ieee, e.nwk)
  BY DEF Entry, Entrys

LEMMA RecordType ==
    /\ \A d \in Devices \cup {NoDevice}, a \in Addresses \cup {Zero} :
           Record(d, a) \in Records
    /\ \A d, a : Record(d, a).ieee = d /\ Record(d, a).nwk = a
                  /\ Entry(Record(d, a).ieee, Record(d, a).nwk) = Entry(d, a)
    /\ Blank \in Records /\ Blank.ieee = NoDevice /\ Blank.nwk = Zero
    /\ \A f \in Records : /\ f.ieee \in Devices \cup {NoDevice}
                           /\ f.nwk \in Addresses \cup {Zero}
                           /\ f.endpoints \in SUBSET Caps
                           /\ Cardinality(f.endpoints) <= MaxCaps
                           /\ Entry(f.ieee, f.nwk) \in Entrys
<1> DEFINE Few == {C \in SUBSET Caps : Cardinality(C) <= MaxCaps}
<1>1. {} \in Few
  BY FS_EmptySet, DeviceAssumption
<1>2. Records = [ieee : Devices \cup {NoDevice}, nwk : Addresses \cup {Zero},
                 endpoints : Few]
  BY DEF Records
<1>3. \A C \in Few : C \in SUBSET Caps /\ Cardinality(C) <= MaxCaps
  OBVIOUS
<1> HIDE DEF Few
<1> QED
  BY <1>1, <1>2, <1>3 DEF Record, Blank, Entry, Entrys

LEMMA InitTyped == Init => Typed
<1> SUFFICES ASSUME Init PROVE Typed
  OBVIOUS
<1>1. SlotsTyped
  <2>1. Free \in SlotType /\ Free.caps = {}
    BY DEF SlotType, Free
  <2>2. \A s \in Slots : slot[s] = Free
    BY DEF Init
  <2>3. Cardinality({}) = 0
    BY FS_EmptySet
  <2>4. \A s \in Slots : Cardinality(slot[s].caps) <= MaxCaps
    BY <2>1, <2>2, <2>3, DeviceAssumption
  <2> QED
    BY <2>1, <2>4 DEF Init, SlotsTyped
<1>2. ReaderType
  BY DeviceAssumption DEF Init, ReaderType, IdleReader, Slots
<1>3. HandlerTyped
  BY DeviceAssumption DEF Init, HandlerTyped, AnyMessage, NoMessage, Message, Slots
<1>4. QueueTyped
  BY DeviceAssumption DEF Init, QueueTyped, QueueType
<1> QED
  BY <1>1, <1>2, <1>3, <1>4
     DEF Init, Typed, DiskTyped, RestTyped, NetTyped, TroubleTyped

LEMMA PostTyped ==
    ASSUME Typed, NEW m \in Messages, Post(m)
    PROVE  QueueTyped' /\ TroubleTyped'
<1>1. CASE Len(areqs) < AreqDepth
  <2>1. areqs' = Append(areqs, m) /\ trouble' = trouble
    BY <1>1 DEF Post
  <2>2. areqs' \in Seq(Messages) /\ Len(areqs') = Len(areqs) + 1 /\ Len(areqs) \in Nat
    BY <2>1 DEF Typed, QueueTyped, QueueType
  <2> QED
    BY <1>1, <2>1, <2>2, DeviceAssumption
       DEF Typed, QueueTyped, QueueType, TroubleTyped
<1>2. CASE ~(Len(areqs) < AreqDepth)
  BY <1>2 DEF Post, Typed, QueueTyped, QueueType, TroubleTyped
<1> QED
  BY <1>1, <1>2

LEMMA NetworkTyped == Typed /\ Network => Typed'
<1> SUFFICES ASSUME Typed, NEW d \in Devices,
                    \/ \E a \in Addresses : Announce(d, a)
                    \/ Leaves(d)
                    \/ \E kind \in {"report", "desc"}, c \in CapsOf[d] : Sends(d, kind, c)
             PROVE  Typed'
  BY DEF Network
<1> USE DEF Typed
<1>1. ASSUME NEW a \in Addresses, Announce(d, a) PROVE Typed'
  <2>1. Message("join", d, a, {}) \in Messages
    BY DEF Message, Messages
  <2>2. QueueTyped' /\ TroubleTyped'
    BY <1>1, <2>1, PostTyped DEF Announce
  <2>3. NetTyped'
    BY <1>1 DEF Announce, NetTyped
  <2> QED
    BY <1>1, <2>2, <2>3
       DEF Announce, registry, told, handler, SlotsTyped, DiskTyped, HandlerTyped,
           RestTyped, ReaderType
<1>2. ASSUME Leaves(d) PROVE Typed'
  <2>1. Message("leave", d, net[d], {}) \in Messages
    BY <1>2 DEF Leaves, Message, Messages, NetTyped
  <2>2. QueueTyped' /\ TroubleTyped'
    BY <1>2, <2>1, PostTyped DEF Leaves
  <2>3. NetTyped'
    BY <1>2 DEF Leaves, NetTyped
  <2> QED
    BY <1>2, <2>2, <2>3
       DEF Leaves, registry, told, handler, SlotsTyped, DiskTyped, HandlerTyped,
           RestTyped, ReaderType
<1>3. ASSUME NEW kind \in {"report", "desc"}, NEW c \in CapsOf[d], Sends(d, kind, c)
      PROVE  Typed'
  <2>1. Message(kind, d, net[d], {c}) \in Messages
    BY <1>3, DeviceAssumption DEF Sends, Message, Messages, NetTyped
  <2>2. QueueTyped'
    BY <1>3, <2>1, DeviceAssumption DEF Sends, QueueTyped, QueueType
  <2> QED
    BY <1>3, <2>2
       DEF Sends, registry, told, handler, SlotsTyped, DiskTyped, HandlerTyped,
           RestTyped, ReaderType, NetTyped, TroubleTyped
<1> QED
  BY <1>1, <1>2, <1>3

\* What an AREQ leaves when it is taken.
LEMMA ReceiveTyped ==
    ASSUME Typed, NEW kind, Receive(kind)
    PROVE  /\ QueueTyped' /\ Head(areqs) \in Messages /\ Head(areqs) \in AnyMessage
           /\ Head(areqs).dev \in Devices /\ Head(areqs).nwk \in Addresses
           /\ Head(areqs).caps \in SUBSET Caps /\ Head(areqs).kind = kind
<1>1. /\ Head(areqs) \in Messages /\ Tail(areqs) \in Seq(Messages)
      /\ Len(Tail(areqs)) = Len(areqs) - 1 /\ Len(areqs) \in Nat
  BY TakeHead DEF Typed, QueueTyped, Receive
<1>2. QueueTyped'
  BY <1>1, DeviceAssumption DEF Receive, Typed, QueueTyped, QueueType
<1> QED
  BY <1>1, <1>2 DEF Receive, Messages, AnyMessage

LEMMA TouchTyped ==
    ASSUME ReaderType, NEW d, Touch(d)
    PROVE  ReaderType'
  BY DEF ReaderType, Touch

LEMMA SubsetOfSlots ==
    /\ Active \in SUBSET Slots /\ FreeSlots \in SUBSET Slots
    /\ \A d : WithIeee(d) \in SUBSET Slots
    /\ \A a : WithNwk(a) \in SUBSET Slots
  BY DEF Active, FreeSlots, WithIeee, WithNwk

\* The slot of a join: the one of the device, or a free one.
LEMMA JoinSlotIs ==
    ASSUME Typed, JoinSlot
    PROVE  /\ Head(areqs).kind = "join" /\ at' \in Slots
           /\ \/ at' \in WithIeee(Head(areqs).dev)
              \/ WithIeee(Head(areqs).dev) = {} /\ at' \in FreeSlots
<1>1. CASE WithIeee(Head(areqs).dev) # {}
  <2>1. First(WithIeee(Head(areqs).dev)) \in WithIeee(Head(areqs).dev)
    BY <1>1, FirstIn, SubsetOfSlots
  <2>2. at' = First(WithIeee(Head(areqs).dev))
    BY <1>1 DEF JoinSlot
  <2> QED
    BY <2>1, <2>2, SubsetOfSlots DEF JoinSlot, Receive
<1>2. CASE WithIeee(Head(areqs).dev) = {}
  <2>1. FreeSlots # {} /\ at' = First(FreeSlots)
    BY <1>2 DEF JoinSlot
  <2>2. First(FreeSlots) \in FreeSlots
    BY <2>1, FirstIn, SubsetOfSlots
  <2> QED
    BY <1>2, <2>1, <2>2, SubsetOfSlots DEF JoinSlot, Receive
<1> QED
  BY <1>1, <1>2

LEMMA JoinTyped ==
    Typed /\ (JoinSlot \/ JoinRefused \/ JoinIeee \/ JoinNwk) => Typed'
<1> USE DEF Typed
<1>1. ASSUME Typed, JoinSlot PROVE Typed'
  <2>1. at' \in Slots
    BY <1>1, JoinSlotIs
  <2>2. slot' = [slot EXCEPT ![at'].active = TRUE]
    BY <1>1 DEF JoinSlot
  <2>3. SlotsTyped'
    BY <1>1, <2>1, <2>2 DEF SlotsTyped, SlotType
  <2>4. ReaderType'
    BY <1>1, TouchTyped DEF JoinSlot
  <2>5. QueueTyped' /\ HandlerTyped'
    BY <1>1, <2>1, ReceiveTyped DEF JoinSlot, HandlerTyped
  <2> QED
    BY <1>1, <2>3, <2>4, <2>5
       DEF JoinSlot, budgets, told, DiskTyped, RestTyped, NetTyped, TroubleTyped
<1>2. ASSUME Typed, JoinRefused PROVE Typed'
  <2>1. QueueTyped'
    BY <1>2, ReceiveTyped DEF JoinRefused
  <2> QED
    BY <1>2, <2>1
       DEF JoinRefused, registry, told, handler, SlotsTyped, DiskTyped, HandlerTyped,
           RestTyped, ReaderType, NetTyped, TroubleTyped
<1>3. ASSUME Typed, JoinIeee PROVE Typed'
  <2>1. SlotsTyped'
    BY <1>3 DEF JoinIeee, SlotsTyped, SlotType, HandlerTyped, AnyMessage
  <2> QED
    BY <1>3, <2>1
       DEF JoinIeee, told, DiskTyped, HandlerTyped, QueueTyped, QueueType, RestTyped,
           ReaderType, NetTyped, TroubleTyped
<1>4. ASSUME Typed, JoinNwk PROVE Typed'
  <2>1. SlotsTyped'
    BY <1>4 DEF JoinNwk, SlotsTyped, SlotType, HandlerTyped, AnyMessage
  <2> QED
    BY <1>4, <2>1
       DEF JoinNwk, told, DiskTyped, HandlerTyped, QueueTyped, QueueType, RestTyped,
           ReaderType, NetTyped, TroubleTyped
<1> QED
  BY <1>1, <1>2, <1>3, <1>4

LEMMA SaveTyped ==
    Typed /\ (OpenFile \/ WriteFile \/ SaveFails \/ EmitJoined) => Typed'
<1> USE DEF Typed
<1>1. ASSUME Typed, OpenFile PROVE Typed'
  <2>1. DiskTyped'
    <3>1. {Blank} \in SUBSET Records
      BY RecordType
    <3>2. \A d \in Devices : disk'[d] \in {disk[d], {Blank}}
      BY <1>1 DEF OpenFile, DiskTyped
    <3>3. disk' \in [Devices -> SUBSET Records]
      BY <1>1, <3>1, <3>2 DEF OpenFile, DiskTyped
    <3> QED
      BY <3>3 DEF DiskTyped
  <2> QED
    BY <1>1, <2>1
       DEF OpenFile, registry, told, HandlerTyped, QueueTyped, QueueType, RestTyped,
           ReaderType, NetTyped, TroubleTyped, SlotsTyped
<1>2. ASSUME Typed, WriteFile PROVE Typed'
  <2>1. Record(msg.dev, msg.nwk) \in Records
    BY <1>2, RecordType DEF HandlerTyped, AnyMessage
  <2>2. DiskTyped'
    BY <1>2, <2>1 DEF WriteFile, DiskTyped
  <2> QED
    BY <1>2, <2>2
       DEF WriteFile, Saved, registry, told, HandlerTyped, QueueTyped, QueueType,
           RestTyped, ReaderType, NetTyped, TroubleTyped, SlotsTyped
<1>3. ASSUME Typed, SaveFails PROVE Typed'
  BY <1>3
     DEF SaveFails, Saved, registry, told, HandlerTyped, QueueTyped, QueueType, DiskTyped,
         RestTyped, ReaderType, NetTyped, TroubleTyped, SlotsTyped
<1>4. ASSUME Typed, EmitJoined PROVE Typed'
  <2>1. Entry(msg.dev, msg.nwk) \in Entrys
    BY <1>4, EntryType DEF HandlerTyped, AnyMessage
  <2> QED
    BY <1>4, <2>1
     DEF EmitJoined, Tell, HandlerTyped, QueueTyped, QueueType, DiskTyped,
         RestTyped, ReaderType, NetTyped, TroubleTyped, SlotsTyped
<1> QED
  BY <1>1, <1>2, <1>3, <1>4

LEMMA LeaveTyped ==
    Typed /\ (LeaveSlot \/ DeleteFile \/ EmitLeft) => Typed'
<1> USE DEF Typed
<1>1. ASSUME Typed, LeaveSlot PROVE Typed'
  <2> DEFINE S == WithIeee(Head(areqs).dev)
  <2>1. SlotsTyped'
    <3>1. CASE S = {}
      BY <1>1, <3>1 DEF LeaveSlot, SlotsTyped
    <3>2. CASE S # {}
      <4>1. First(S) \in Slots
        BY <3>2, FirstIn, SubsetOfSlots
      <4>2. slot' = [slot EXCEPT ![First(S)].active = FALSE]
        BY <1>1, <3>2 DEF LeaveSlot
      <4> HIDE DEF S
      <4> QED
        BY <1>1, <4>1, <4>2 DEF SlotsTyped, SlotType
    <3> QED
      BY <3>1, <3>2
  <2>2. ReaderType'
    BY <1>1, TouchTyped DEF LeaveSlot
  <2>3. QueueTyped' /\ HandlerTyped'
    BY <1>1, ReceiveTyped DEF LeaveSlot, HandlerTyped
  <2> QED
    BY <1>1, <2>1, <2>2, <2>3
       DEF LeaveSlot, budgets, told, DiskTyped, RestTyped, NetTyped, TroubleTyped
<1>2. ASSUME Typed, DeleteFile PROVE Typed'
  BY <1>2
     DEF DeleteFile, registry, told, HandlerTyped, QueueTyped, QueueType, DiskTyped,
         RestTyped, ReaderType, NetTyped, TroubleTyped, SlotsTyped
<1>3. ASSUME Typed, EmitLeft PROVE Typed'
  BY <1>3
     DEF EmitLeft, Tell, HandlerTyped, QueueTyped, QueueType, DiskTyped,
         RestTyped, ReaderType, NetTyped, TroubleTyped, SlotsTyped
<1> QED
  BY <1>1, <1>2, <1>3

\* The slot whose address sent a report or a descriptor.
LEMMA SenderSlot ==
    ASSUME NEW a, WithNwk(a) # {}
    PROVE  /\ First(WithNwk(a)) \in Slots /\ slot[First(WithNwk(a))].active
           /\ slot[First(WithNwk(a))].nwk = a
<1>1. First(WithNwk(a)) \in WithNwk(a)
  BY FirstIn, SubsetOfSlots
<1> QED
  BY <1>1 DEF WithNwk, Active

LEMMA ReportTyped == Typed /\ (AfIncoming \/ SimpleDescRsp) => Typed'
<1> USE DEF Typed
<1> DEFINE m == Head(areqs)
           S == WithNwk(m.nwk)
<1>1. ASSUME Typed, AfIncoming PROVE Typed'
  <2>1. QueueTyped' /\ m.caps \in SUBSET Caps
    BY <1>1, ReceiveTyped DEF AfIncoming
  <2>2. SlotsTyped'
    <3>1. CASE S = {}
      BY <1>1, <3>1 DEF AfIncoming, SlotsTyped
    <3>2. CASE S # {}
      BY <1>1, <2>1, <3>2, SenderSlot, LearnCapKeeps DEF AfIncoming, SlotsTyped
    <3> QED
      BY <3>1, <3>2
  <2> QED
    BY <1>1, <2>1, <2>2
       DEF AfIncoming, handler, budgets, told, HandlerTyped, DiskTyped, RestTyped,
           ReaderType, NetTyped, TroubleTyped
<1>2. ASSUME Typed, SimpleDescRsp PROVE Typed'
  <2>1. QueueTyped' /\ m.caps \in SUBSET Caps /\ m \in AnyMessage
    BY <1>2, ReceiveTyped DEF SimpleDescRsp
  <2>2. SlotsTyped' /\ HandlerTyped'
    <3>1. CASE S = {}
      BY <1>2, <3>1 DEF SimpleDescRsp, handler, SlotsTyped, HandlerTyped
    <3>2. CASE S # {}
      <4>1. SlotsTyped'
        BY <1>2, <2>1, <3>2, SenderSlot, LearnCapKeeps DEF SimpleDescRsp, SlotsTyped
      <4>2. slot[First(S)].ieee \in Devices \cup {NoDevice}
        BY <1>2, <3>2, SenderSlot DEF SlotsTyped, SlotType
      <4>3. msg' = [m EXCEPT !.dev = slot[First(S)].ieee] /\ pc' = "open" /\ at' = at
        BY <1>2, <3>2 DEF SimpleDescRsp
      <4>4. msg' \in AnyMessage
        BY <2>1, <4>2, <4>3 DEF AnyMessage
      <4> QED
        BY <1>2, <4>1, <4>3, <4>4 DEF HandlerTyped
    <3> QED
      BY <3>1, <3>2
  <2> QED
    BY <1>2, <2>1, <2>2
       DEF SimpleDescRsp, budgets, told, DiskTyped, RestTyped,
           ReaderType, NetTyped, TroubleTyped
<1> QED
  BY <1>1, <1>2

\* What a restart loads: an order of files in the first slots.
Loads(n, order) ==
    /\ n \in 0 .. MaxDevices /\ order \in [1 .. n -> Files]
    /\ \A i, j \in 1 .. n : i # j => order[i] # order[j]
    /\ n = MaxDevices \/ \A f \in Files : \E i \in 1 .. n : order[i] = f
    /\ slot' = [s \in Slots |->
                   IF s > n THEN Free
                   ELSE [active |-> TRUE, ieee |-> order[s].ieee,
                         nwk |-> order[s].nwk, caps |-> order[s].endpoints]]
    /\ booted' = {Entry(order[i].ieee, order[i].nwk) : i \in 1 .. n}
    /\ seen' = {} /\ eventLost' = FALSE

LEMMA RestartLoads ==
    ASSUME Restart
    PROVE  \E n, order : Loads(n, order)
<1>1. PICK n \in 0 .. MaxDevices : \E order \in [1 .. n -> Files] : Loads(n, order)
  BY DEF Restart, Loads
<1> QED
  BY <1>1

LEMMA FilesType == Typed => Files \subseteq Records
  BY DEF Typed, DiskTyped, Files

LEMMA AroundTyped ==
    /\ Typed
    /\ LeaveReady \/ FormNetwork \/ StartupDiscards \/ EnterReady \/ Restart
    => Typed'
<1> USE DEF Typed
<1>1. ASSUME Typed, LeaveReady PROVE Typed'
  BY <1>1
     DEF LeaveReady, registry, told, handler, SlotsTyped, DiskTyped, HandlerTyped,
         QueueTyped, QueueType, RestTyped, ReaderType, NetTyped, TroubleTyped
<1>0. ASSUME Typed, FormNetwork PROVE Typed'
  BY <1>0
     DEF FormNetwork, registry, told, handler, SlotsTyped, DiskTyped, HandlerTyped,
         QueueTyped, QueueType, RestTyped, ReaderType, NetTyped, TroubleTyped
<1>2. ASSUME Typed, StartupDiscards PROVE Typed'
  <2>1. /\ Tail(areqs) \in Seq(Messages)
        /\ Len(Tail(areqs)) = Len(areqs) - 1 /\ Len(areqs) \in Nat
    BY <1>2, TakeHead DEF QueueTyped, StartupDiscards
  <2>2. QueueTyped'
    BY <1>2, <2>1, DeviceAssumption DEF StartupDiscards, QueueTyped, QueueType
  <2> QED
    BY <1>2, <2>2
       DEF StartupDiscards, registry, told, handler, budgets, SlotsTyped, DiskTyped,
           HandlerTyped, RestTyped, ReaderType, NetTyped, TroubleTyped
<1>3. ASSUME Typed, EnterReady PROVE Typed'
  BY <1>3
     DEF EnterReady, registry, told, handler, SlotsTyped, DiskTyped, HandlerTyped,
         QueueTyped, QueueType, RestTyped, ReaderType, NetTyped, TroubleTyped
<1>4. ASSUME Typed, Restart PROVE Typed'
  <2>1. PICK n, order : Loads(n, order)
    BY <1>4, RestartLoads
  <2>2. \A i \in 1 .. n : order[i] \in Records
    BY <1>4, <2>1, FilesType DEF Loads
  <2>3. SlotsTyped'
    <3>1. Free \in SlotType /\ Cardinality(Free.caps) <= MaxCaps
      BY FS_EmptySet, DeviceAssumption DEF Free, SlotType
    <3>2. \A s \in Slots : slot'[s] \in SlotType /\ Cardinality(slot'[s].caps) <= MaxCaps
      <4>1. SUFFICES ASSUME NEW s \in Slots
                     PROVE  slot'[s] \in SlotType /\ Cardinality(slot'[s].caps) <= MaxCaps
        OBVIOUS
      <4>2. CASE s > n
        <5>1. slot'[s] = Free
          BY <2>1, <4>2 DEF Loads
        <5> QED
          BY <3>1, <5>1, Zenon
      <4>3. CASE ~(s > n)
        <5>1. s \in 1 .. n
          BY <2>1, <4>3, DeviceAssumption DEF Slots, Loads
        <5> DEFINE f == order[s]
                   new == [active |-> TRUE, ieee |-> f.ieee, nwk |-> f.nwk,
                           caps |-> f.endpoints]
        <5>2. f \in Records
          BY <2>2, <5>1
        <5>3. slot'[s] = new
          BY <2>1, <4>3 DEF Loads
        <5> HIDE DEF f
        <5>4. new \in SlotType /\ new.caps = f.endpoints
          BY <5>2, RecordType DEF SlotType
        <5>5. Cardinality(f.endpoints) <= MaxCaps
          BY <5>2, RecordType
        <5> HIDE DEF new
        <5> QED
          BY <5>3, <5>4, <5>5, Zenon
      <4> QED
        BY <4>2, <4>3
    <3>5. slot' \in [Slots -> SlotType]
      BY <2>1, <3>2 DEF Loads
    <3> QED
      BY <3>2, <3>5 DEF SlotsTyped
  <2>4. /\ seen' \subseteq Entrys /\ booted' \subseteq Entrys
        /\ eventLost' \in BOOLEAN
    <3>1. \A i \in 1 .. n : Entry(order[i].ieee, order[i].nwk) \in Entrys
      BY <2>2, RecordType
    <3> QED
      BY <2>1, <3>1 DEF Loads
  <2>5. HandlerTyped'
    BY <1>4, DeviceAssumption
       DEF Restart, HandlerTyped, AnyMessage, NoMessage, Message, Slots
  <2>6. QueueTyped'
    BY <1>4, DeviceAssumption DEF Restart, QueueTyped, QueueType
  <2>7. ReaderType'
    BY <1>4, DeviceAssumption DEF Restart, ReaderType, IdleReader, Slots
  <2>8. TroubleTyped'
    BY <1>4 DEF Restart, RestartLoses, TroubleTyped
  <2> QED
    BY <1>4, <2>3, <2>4, <2>5, <2>6, <2>7, <2>8
       DEF Restart, RestTyped, DiskTyped, NetTyped
<1> QED
  BY <1>0, <1>1, <1>2, <1>3, <1>4

LEMMA LookupTyped == Typed /\ Lookup => Typed'
<1> USE DEF Typed
<1>1. ASSUME Typed, NEW r \in Readers, ReadNwk(r) PROVE Typed'
  <2>1. slot[reader[r].slot].nwk \in Addresses \cup {Zero, NotFound}
    BY <1>1 DEF SlotsTyped, SlotType, ReaderType
  <2>2. ReaderType'
    BY <1>1, <2>1 DEF ReadNwk, ReaderType
  <2> QED
    BY <1>1, <2>2
       DEF ReadNwk, registry, told, handler, budgets, SlotsTyped, DiskTyped, HandlerTyped,
           QueueTyped, QueueType, RestTyped, NetTyped, TroubleTyped
<1>2. ASSUME Typed, NEW r \in Readers, NEW d \in Devices, FindDevice(r, d)
      PROVE  Typed'
  <2>1. ReaderType'
    <3>1. CASE WithIeee(d) = {}
      <4> DEFINE none == [IdleReader EXCEPT !.pc = "done", !.dev = d]
      <4> DEFINE R == [pc : {"idle", "read", "done"}, dev : Devices \cup {NoDevice},
                       slot : Slots, steady : BOOLEAN,
                       nwk : Addresses \cup {Zero, NotFound}]
      <4>2. IdleReader \in R
        BY DeviceAssumption DEF Slots, IdleReader
      <4>1. none \in R
        BY <4>2
      <4>3. reader' = [reader EXCEPT ![r] = none]
        BY <1>2, <3>1 DEF FindDevice
      <4> HIDE DEF none
      <4> QED
        BY <1>2, <4>1, <4>3 DEF ReaderType
    <3>2. CASE WithIeee(d) # {}
      <4>1. First(WithIeee(d)) \in Slots
        BY <3>2, FirstIn, SubsetOfSlots
      <4> DEFINE sure == ~(pc \in {"ieee", "nwk"} /\ First(WithIeee(d)) = at)
                 found == [pc |-> "read", dev |-> d, slot |-> First(WithIeee(d)),
                           steady |-> sure, nwk |-> NotFound]
      <4>2. sure \in BOOLEAN
        OBVIOUS
      <4>3. reader' = [reader EXCEPT ![r] = found]
        BY <1>2, <3>2 DEF FindDevice
      <4> HIDE DEF sure
      <4> QED
        BY <1>2, <4>1, <4>2, <4>3 DEF ReaderType
    <3> QED
      BY <3>1, <3>2
  <2> QED
    BY <1>2, <2>1
       DEF FindDevice, registry, told, handler, budgets, SlotsTyped, DiskTyped,
           HandlerTyped, QueueTyped, QueueType, RestTyped, NetTyped, TroubleTyped
<1> QED
  BY <1>1, <1>2 DEF Lookup

LEMMA StepTyped == Typed /\ [Next]_vars => Typed'
<1>1. ASSUME Typed, UNCHANGED vars PROVE Typed'
  BY <1>1
     DEF vars, registry, told, handler, budgets, Typed, SlotsTyped, DiskTyped,
         HandlerTyped, QueueTyped, QueueType, RestTyped, ReaderType, NetTyped,
         TroubleTyped
<1> QED
  BY <1>1, NetworkTyped, JoinTyped, SaveTyped, LeaveTyped, ReportTyped, AroundTyped,
     LookupTyped DEF Next, OnAreq

\* Every variable keeps its type: the table never holds more than MaxCaps
\* capabilities for a device and the queue never more than AreqDepth AREQs.
THEOREM TypeCorrect == Spec => []TypeOK
<1>1. Typed => TypeOK
  BY TypedIsTypeOK
<1> QED
  BY <1>1, InitTyped, StepTyped, PTL DEF Spec

-----------------------------------------------------------------------------
(* What each step does to the slots that are in use and not being filled *)

\* A step of a task that leaves the table and the handler alone.
Still == UNCHANGED <<slot, pc, msg, at>>
Kept(T) == \A s \in T : slot'[s].ieee = slot[s].ieee /\ slot'[s].nwk = slot[s].nwk
Without(d) == {s \in Others : slot[s].ieee # d}

LEMMA OthersType == Others \subseteq Slots
  BY DEF Others, Active

LEMMA JoinSlotOthers ==
    ASSUME Typed, RegistryInv, JoinSlot
    PROVE  /\ Others' = Without(Head(areqs).dev) /\ Kept(Others')
           /\ slot'[at'].active /\ at' \in Slots /\ at' \notin Without(Head(areqs).dev)
<1> DEFINE d == Head(areqs).dev
<1>1. /\ at' \in Slots
      /\ \/ at' \in WithIeee(d)
         \/ WithIeee(d) = {} /\ at' \in FreeSlots
  BY JoinSlotIs
<1>2. pc = "idle" /\ pc' = "ieee" /\ slot' = [slot EXCEPT ![at'].active = TRUE]
  BY DEF JoinSlot, Receive
<1>3. /\ \A s \in Slots : s # at' => slot'[s] = slot[s]
      /\ slot'[at'].active /\ slot'[at'].ieee = slot[at'].ieee
      /\ slot'[at'].nwk = slot[at'].nwk
  BY <1>1, <1>2 DEF Typed, SlotsTyped, SlotType
<1>4. Others = Active /\ Others' = Active' \ {at'}
  BY <1>2 DEF Others, Filling
<1>5. Others' = Active \ {at'}
  BY <1>3, <1>4 DEF Active
<1>6. \A s \in Active : slot[s].ieee = d <=> s = at'
  <2>1. CASE at' \in WithIeee(d)
    BY <1>4, <2>1 DEF RegistryInv, WithIeee
  <2>2. CASE WithIeee(d) = {} /\ at' \in FreeSlots
    BY <2>2 DEF WithIeee, FreeSlots
  <2> QED
    BY <1>1, <2>1, <2>2
<1> QED
  BY <1>1, <1>3, <1>4, <1>5, <1>6 DEF Without, Kept, Active

LEMMA LeaveSlotOthers ==
    ASSUME Typed, RegistryInv, LeaveSlot
    PROVE  /\ Others' = Without(Head(areqs).dev) /\ Kept(Others')
           /\ Others' # Others => Slots \ Others' # {}
<1> DEFINE d == Head(areqs).dev
           S == WithIeee(d)
<1>1. pc = "idle" /\ pc' = "delete" /\ Others = Active /\ Others' = Active'
  BY DEF LeaveSlot, Receive, Others, Filling
<1>2. CASE S = {}
  <2>1. slot' = slot
    BY <1>2 DEF LeaveSlot
  <2>2. Others' = Others
    BY <1>1, <2>1 DEF Active
  <2>3. Without(d) = Others
    BY <1>1, <1>2 DEF Without, WithIeee
  <2> QED
    BY <2>1, <2>2, <2>3 DEF Kept
<1>3. CASE S # {}
  <2>1. First(S) \in S /\ First(S) \in Slots
    BY <1>3, FirstIn, SubsetOfSlots
  <2>2. slot' = [slot EXCEPT ![First(S)].active = FALSE]
    BY <1>3 DEF LeaveSlot
  <2>3. PICK f \in Slots : f = First(S)
    BY <2>1
  <2>4. /\ \A s \in Slots : s # f => slot'[s] = slot[s]
        /\ slot'[f].active = FALSE
    BY <2>2, <2>3 DEF Typed, SlotsTyped, SlotType
  <2>5. Others' = Active \ {f}
    BY <1>1, <2>4 DEF Active
  <2>6. \A s \in Active : slot[s].ieee = d <=> s = f
    BY <1>1, <2>1, <2>3 DEF RegistryInv, WithIeee
  <2>7. f \in Slots \ Others'
    BY <2>3, <2>5
  <2> QED
    BY <1>1, <2>4, <2>5, <2>6, <2>7 DEF Without, Kept, Active
<1> QED
  BY <1>2, <1>3

LEMMA JoinIeeeOthers ==
    ASSUME Typed, JoinIeee
    PROVE  /\ Others' = Others /\ Kept(Others)
           /\ slot'[at].active = slot[at].active /\ slot'[at].ieee = msg.dev
<1>1. /\ \A s \in Slots : s # at => slot'[s] = slot[s]
      /\ slot'[at].active = slot[at].active
      /\ slot'[at].ieee = msg.dev
  BY DEF JoinIeee, Typed, SlotsTyped, SlotType, HandlerTyped
<1>2. Others = Active \ {at} /\ Others' = Active' \ {at}
  BY DEF JoinIeee, Others, Filling
<1> QED
  BY <1>1, <1>2 DEF Kept, Active

LEMMA JoinNwkOthers ==
    ASSUME Typed, HandlerInv, JoinNwk
    PROVE  /\ Others' = Others \cup {at} /\ at \notin Others /\ Kept(Others)
           /\ slot'[at].ieee = msg.dev /\ slot'[at].nwk = msg.nwk /\ at \in Slots
<1>1. /\ \A s \in Slots : s # at => slot'[s] = slot[s]
      /\ slot'[at].active = slot[at].active
      /\ slot'[at].ieee = slot[at].ieee /\ slot'[at].nwk = msg.nwk
      /\ at \in Slots
  BY DEF JoinNwk, Typed, SlotsTyped, SlotType, HandlerTyped
<1>2. Others = Active \ {at} /\ Others' = Active' /\ at' = at
  BY DEF JoinNwk, Others, Filling
<1>3. slot[at].active /\ slot[at].ieee = msg.dev
  BY DEF JoinNwk, HandlerInv, Filling
<1> QED
  BY <1>1, <1>2, <1>3 DEF Kept, Active

LEMMA LearnOthers ==
    ASSUME Typed, AfIncoming \/ SimpleDescRsp
    PROVE  Others' = Others /\ Kept(Others)
<1> DEFINE m == Head(areqs)
           S == WithNwk(m.nwk)
<1>1. pc = "idle" /\ pc' \in {"idle", "open"} /\ m.caps \in SUBSET Caps
  BY ReceiveTyped DEF AfIncoming, SimpleDescRsp, Receive, handler
<1>2. \A s \in Slots : /\ slot'[s].active = slot[s].active
                       /\ slot'[s].ieee = slot[s].ieee
                       /\ slot'[s].nwk = slot[s].nwk
  <2>1. CASE S = {}
    BY <2>1 DEF AfIncoming, SimpleDescRsp
  <2>2. CASE S # {}
    <3>1. slot' = LearnCap(First(S), m.caps)
      BY <2>2 DEF AfIncoming, SimpleDescRsp
    <3>2. First(S) \in Slots
      BY <2>2, SenderSlot
    <3> QED
      BY <1>1, <3>1, <3>2, LearnCapKeeps DEF Typed, SlotsTyped
  <2> QED
    BY <2>1, <2>2
<1>3. Others = Active /\ Others' = Active'
  BY <1>1 DEF Others, Filling
<1> QED
  BY <1>2, <1>3 DEF Kept, Active

\* The other steps of the handler change no slot.
LEMMA SaveOthers ==
    ASSUME OpenFile \/ WriteFile \/ SaveFails \/ EmitJoined \/ DeleteFile \/ EmitLeft
    PROVE  Others' = Others /\ slot' = slot /\ msg' = msg /\ ~Filling /\ ~Filling'
<1>1. /\ slot' = slot /\ msg' = msg
      /\ pc \in {"open", "write", "joined", "delete", "left"}
      /\ pc' \in {"write", "joined", "idle", "left"}
  BY DEF OpenFile, WriteFile, SaveFails, EmitJoined, DeleteFile, EmitLeft, Saved, registry
<1> QED
  BY <1>1 DEF Others, Active, Filling

LEMMA StillOthers ==
    ASSUME Still
    PROVE  Others' = Others /\ Held' = Held /\ Known' = Known
             /\ (Filling' <=> Filling)
  BY DEF Still, Others, Active, Filling, Held, Known

\* After a restart the slots are as the files that were loaded.
LEMMA RestartOthers ==
    ASSUME NEW n, NEW order, Loads(n, order), Restart
    PROVE  /\ Others' = 1 .. n /\ 1 .. n \subseteq Slots
           /\ \A s \in 1 .. n : /\ order[s] \in Files
                                /\ slot'[s].ieee = order[s].ieee
                                /\ slot'[s].nwk = order[s].nwk
<1>1. n \in Nat /\ 1 .. n \subseteq Slots
  BY DeviceAssumption DEF Loads, Slots
<1>2. \A s \in 1 .. n : /\ slot'[s].active
                        /\ slot'[s].ieee = order[s].ieee
                        /\ slot'[s].nwk = order[s].nwk
                        /\ order[s] \in Files
  BY <1>1 DEF Loads
<1>3. \A s \in Slots : s \notin 1 .. n => ~slot'[s].active
  BY <1>1, DeviceAssumption DEF Loads, Free, Slots
<1>4. Others' = Active'
  BY DEF Restart, Others, Filling
<1> QED
  BY <1>1, <1>2, <1>3, <1>4 DEF Active

-----------------------------------------------------------------------------
(* The same, of the entries these slots make *)

LEMMA HeldSlots ==
    /\ \A s \in Others : Entry(slot[s].ieee, slot[s].nwk) \in Held
    /\ \A e \in Held : \E s \in Others :
           e = Entry(slot[s].ieee, slot[s].nwk) /\ e.ieee = slot[s].ieee
             /\ e.nwk = slot[s].nwk
  BY DEF Held, Entry

LEMMA HeldType ==
    ASSUME Typed, RegistryInv
    PROVE  /\ Held \subseteq Entrys
           /\ \A e, f \in Held : e.ieee = f.ieee => e = f
           /\ \A e \in Held : \/ e.ieee \in Devices /\ e.nwk \in Addresses
                              \/ e = NoEntry
           /\ pc \in {"ieee", "nwk", "delete", "left"} =>
                  \A e \in Held : e.ieee # msg.dev
<1>1. Held \subseteq Entrys
  BY HeldSlots, OthersType, EntryType DEF Typed, SlotsTyped, SlotType
<1>2. ASSUME NEW e \in Held
      PROVE  \/ e.ieee \in Devices /\ e.nwk \in Addresses
             \/ e = NoEntry
  BY HeldSlots DEF RegistryInv, NoEntry
<1>3. ASSUME NEW e \in Held, NEW f \in Held, e.ieee = f.ieee PROVE e = f
  BY <1>3, HeldSlots DEF RegistryInv
<1>4. ASSUME pc \in {"ieee", "nwk", "delete", "left"}, NEW e \in Held
      PROVE  e.ieee # msg.dev
  BY <1>4, HeldSlots DEF RegistryInv
<1> QED
  BY <1>1, <1>2, <1>3, <1>4

LEMMA HeldKept ==
    ASSUME Others' = Others, Kept(Others)
    PROVE  Held' = Held
  BY DEF Held, Kept

LEMMA HeldWithout ==
    ASSUME NEW d, Others' = Without(d), Kept(Others')
    PROVE  Held' = NotOf(Held, d)
<1>1. Held' = {Entry(slot[s].ieee, slot[s].nwk) : s \in Without(d)}
  BY DEF Held, Kept
<1> QED
  BY <1>1 DEF Held, NotOf, Without, Entry

LEMMA HeldAdds ==
    ASSUME Others' = Others \cup {at}, Kept(Others), slot'[at].ieee = msg.dev,
           slot'[at].nwk = msg.nwk
    PROVE  Held' = Held \cup {Entry(msg.dev, msg.nwk)}
  BY DEF Held, Kept

LEMMA HeldLoads ==
    ASSUME Typed, NEW n, NEW order, Loads(n, order), Restart
    PROVE  Held' = booted' /\ booted' \subseteq Stored
<1>1. /\ Others' = 1 .. n
      /\ \A s \in 1 .. n : /\ order[s] \in Files
                           /\ slot'[s].ieee = order[s].ieee
                           /\ slot'[s].nwk = order[s].nwk
  BY RestartOthers
<1>2. booted' = {Entry(order[s].ieee, order[s].nwk) : s \in 1 .. n}
  BY DEF Loads
<1> QED
  BY <1>1, <1>2 DEF Held, Stored

-----------------------------------------------------------------------------
(* The handler and the registry *)

LEMMA HandlerStep ==
    ASSUME Typed, HandlerInv, RegistryInv, OnAreq
    PROVE  HandlerInv'
<1>1. CASE JoinSlot
  BY <1>1, JoinSlotOthers, ReceiveTyped DEF JoinSlot, HandlerInv, Filling
<1>2. CASE JoinRefused
  BY <1>2 DEF JoinRefused, registry, told, handler, HandlerInv, Filling
<1>3. CASE JoinIeee
  BY <1>3, JoinIeeeOthers DEF JoinIeee, HandlerInv, Filling
<1>4. CASE JoinNwk
  BY <1>4 DEF JoinNwk, HandlerInv, Filling
<1>5. CASE OpenFile \/ WriteFile \/ SaveFails \/ EmitJoined \/ DeleteFile \/ EmitLeft
  BY <1>5
     DEF OpenFile, WriteFile, SaveFails, EmitJoined, DeleteFile, EmitLeft, Saved,
         registry, told, HandlerInv, Filling
<1>6. CASE LeaveSlot
  BY <1>6, ReceiveTyped DEF LeaveSlot, HandlerInv, Filling
<1>7. CASE AfIncoming
  BY <1>7 DEF AfIncoming, Receive, handler, HandlerInv, Filling
<1>8. CASE SimpleDescRsp
  <2> DEFINE m == Head(areqs)
             S == WithNwk(m.nwk)
  <2>1. CASE S = {}
    BY <1>8, <2>1 DEF SimpleDescRsp, Receive, handler, HandlerInv, Filling
  <2>2. CASE S # {}
    <3>1. First(S) \in Others /\ slot[First(S)].nwk = m.nwk
      BY <1>8, <2>2, SenderSlot DEF SimpleDescRsp, Receive, Others, Filling, Active
    <3>2. m.nwk \in Addresses /\ m.kind = "desc" /\ m \in Messages
      BY <1>8, ReceiveTyped DEF SimpleDescRsp
    <3>3. slot[First(S)].ieee \in Devices
      BY <3>1, <3>2, DeviceAssumption DEF RegistryInv
    <3>4. msg' = [m EXCEPT !.dev = slot[First(S)].ieee] /\ pc' = "open"
      BY <1>8, <2>2 DEF SimpleDescRsp
    <3>5. msg'.dev \in Devices /\ msg'.nwk \in Addresses /\ msg'.kind = "desc"
      BY <3>2, <3>3, <3>4, MessageType
    <3> QED
      BY <3>4, <3>5 DEF HandlerInv, Filling
  <2> QED
    BY <2>1, <2>2
<1> QED
  BY <1>1, <1>2, <1>3, <1>4, <1>5, <1>6, <1>7, <1>8 DEF OnAreq

LEMMA RegistryStep ==
    ASSUME Typed, HandlerInv, RegistryInv, OnAreq
    PROVE  RegistryInv'
<1>1. CASE JoinSlot
  <2>1. pc' = "ieee" /\ msg' = Head(areqs)
    BY <1>1 DEF JoinSlot
  <2>2. Others' = Without(msg'.dev) /\ Kept(Others')
    BY <1>1, <2>1, JoinSlotOthers
  <2> QED
    BY <2>1, <2>2 DEF RegistryInv, Without, Kept
<1>2. CASE JoinRefused
  <2>1. Still
    BY <1>2 DEF JoinRefused, registry, told, handler, Still
  <2> QED
    BY <2>1, StillOthers DEF Still, RegistryInv
<1>3. CASE JoinIeee
  BY <1>3, JoinIeeeOthers DEF JoinIeee, RegistryInv, Kept
<1>4. CASE JoinNwk
  <2>1. pc = "nwk" /\ pc' = "open" /\ msg' = msg /\ msg.dev \in Devices
          /\ msg.nwk \in Addresses
    BY <1>4 DEF JoinNwk, HandlerInv
  <2>2. /\ Others' = Others \cup {at} /\ at \notin Others /\ Kept(Others)
        /\ slot'[at].ieee = msg.dev /\ slot'[at].nwk = msg.nwk
    BY <1>4, JoinNwkOthers
  <2>3. \A s \in Others : slot[s].ieee # msg.dev
    BY <2>1 DEF RegistryInv
  <2>4. Entry(msg'.dev, msg'.nwk) \in Held'
    BY <2>1, <2>2, HeldAdds
  <2> QED
    BY <2>1, <2>2, <2>3, <2>4 DEF RegistryInv, Kept
<1>5. CASE OpenFile \/ WriteFile \/ SaveFails \/ EmitJoined
  <2>1. Others' = Others /\ slot' = slot /\ msg' = msg
    BY <1>5, SaveOthers
  <2>2. Held' = Held
    BY <2>1, HeldKept DEF Kept
  <2>3. pc \in {"open", "write", "joined"} /\ pc' \in {"write", "joined", "idle"}
    BY <1>5 DEF OpenFile, WriteFile, SaveFails, EmitJoined, Saved
  <2> QED
    BY <2>1, <2>2, <2>3 DEF RegistryInv
<1>6. CASE DeleteFile \/ EmitLeft
  <2>1. Others' = Others /\ slot' = slot /\ msg' = msg
    BY <1>6, SaveOthers
  <2>2. pc \in {"delete", "left"} /\ pc' \in {"left", "idle"}
    BY <1>6 DEF DeleteFile, EmitLeft
  <2> QED
    BY <2>1, <2>2 DEF RegistryInv
<1>7. CASE LeaveSlot
  <2>1. pc' = "delete" /\ msg' = Head(areqs)
    BY <1>7 DEF LeaveSlot
  <2>2. Others' = Without(msg'.dev) /\ Kept(Others')
    BY <1>7, <2>1, LeaveSlotOthers
  <2> QED
    BY <2>1, <2>2 DEF RegistryInv, Without, Kept
<1>8. CASE AfIncoming
  <2>1. pc' = "idle" /\ Others' = Others /\ Kept(Others)
    BY <1>8, LearnOthers DEF AfIncoming, Receive, handler
  <2> QED
    BY <2>1 DEF RegistryInv, Kept
<1>9. CASE SimpleDescRsp
  <2> DEFINE m == Head(areqs)
             S == WithNwk(m.nwk)
  <2>1. Others' = Others /\ Kept(Others) /\ Held' = Held /\ pc = "idle"
    BY <1>9, LearnOthers, HeldKept DEF SimpleDescRsp, Receive
  <2>2. CASE S = {}
    BY <1>9, <2>1, <2>2 DEF SimpleDescRsp, handler, RegistryInv, Kept
  <2>3. CASE S # {}
    <3>1. First(S) \in Others /\ slot[First(S)].nwk = m.nwk
      BY <2>1, <2>3, SenderSlot DEF Others, Filling, Active
    <3>2. Entry(slot[First(S)].ieee, m.nwk) \in Held
      BY <3>1, HeldSlots
    <3>3. msg' = [m EXCEPT !.dev = slot[First(S)].ieee] /\ pc' = "open"
      BY <1>9, <2>3 DEF SimpleDescRsp
    <3>4. m \in Messages /\ m.nwk \in Addresses
      BY <1>9, ReceiveTyped DEF SimpleDescRsp
    <3>5. slot[First(S)].ieee \in Devices
      BY <3>1, <3>4, DeviceAssumption DEF RegistryInv
    <3>6. Entry(msg'.dev, msg'.nwk) \in Held'
      BY <2>1, <3>2, <3>3, <3>4, <3>5, MessageType
    <3> QED
      BY <2>1, <3>3, <3>6 DEF RegistryInv, Kept
  <2> QED
    BY <2>2, <2>3
<1> QED
  BY <1>1, <1>2, <1>3, <1>4, <1>5, <1>6, <1>7, <1>8, <1>9 DEF OnAreq

-----------------------------------------------------------------------------
(* The events *)

LEMMA EventsStep ==
    ASSUME Typed, HandlerInv, RegistryInv, EventsInv, OnAreq
    PROVE  EventsInv'
<1>1. CASE JoinSlot
  <2>1. pc = "idle" /\ pc' = "ieee" /\ msg' = Head(areqs) /\ UNCHANGED told
    BY <1>1 DEF JoinSlot, Receive
  <2>2. Held' = NotOf(Held, msg'.dev)
    BY <1>1, <2>1, JoinSlotOthers, HeldWithout
  <2>3. msg'.kind = "join"
    BY <1>1, <2>1, ReceiveTyped DEF JoinSlot
  <2> QED
    BY <2>1, <2>2, <2>3 DEF EventsInv, Heard, told, Changing, NotOf
<1>2. CASE JoinRefused
  <2>1. Still /\ UNCHANGED told
    BY <1>2 DEF JoinRefused, registry, told, handler, Still
  <2> QED
    BY <2>1, StillOthers DEF Still, EventsInv, Heard, told, Changing
<1>3. CASE JoinIeee
  <2>1. Held' = Held
    BY <1>3, JoinIeeeOthers, HeldKept
  <2> QED
    BY <1>3, <2>1 DEF JoinIeee, EventsInv, Changing, Heard, told
<1>4. CASE JoinNwk
  <2>1. Held' = Held \cup {Entry(msg.dev, msg.nwk)}
    BY <1>4, JoinNwkOthers, HeldAdds
  <2>2. Entry(msg.dev, msg.nwk).ieee = msg.dev
    BY DEF Entry
  <2>3. pc = "nwk" /\ pc' = "open" /\ msg' = msg /\ UNCHANGED told /\ msg.kind = "join"
    BY <1>4 DEF JoinNwk, HandlerInv
  <2> QED
    BY <2>1, <2>2, <2>3 DEF EventsInv, Heard, told, Changing
<1>5. CASE OpenFile \/ WriteFile \/ SaveFails \/ DeleteFile
  <2>1. Held' = Held /\ msg' = msg
    BY <1>5, SaveOthers, HeldKept DEF Kept
  <2>2. Changing' <=> Changing
    BY <1>5 DEF OpenFile, WriteFile, SaveFails, DeleteFile, Saved, HandlerInv, Changing
  <2>3. UNCHANGED told
    BY <1>5 DEF OpenFile, WriteFile, SaveFails, DeleteFile, registry
  <2> QED
    BY <2>1, <2>2, <2>3 DEF EventsInv, Heard, told
<1>6. CASE EmitJoined
  <2> DEFINE new == Entry(msg.dev, msg.nwk)
  <2>1. Held' = Held /\ msg' = msg
    BY <1>6, SaveOthers, HeldKept DEF Kept
  <2>2. /\ pc = "joined" /\ pc' = "idle"
        /\ ~eventLost' => /\ ~eventLost
                          /\ Heard' = {e \in Heard : e.ieee # msg.dev} \cup {new}
    BY <1>6 DEF EmitJoined, Tell, Heard
  <2>3. new.ieee = msg.dev
    BY DEF Entry
  <2>4. \A e \in Held : e.ieee = msg.dev <=> e = new
    BY <2>2, <2>3, HeldType DEF RegistryInv
  <2>5. new \in Held
    BY <2>2 DEF RegistryInv
  <2> HIDE DEF new
  <2>6. ~eventLost' => \A e \in Entrys : e \in Heard' <=> e \in Held
    BY <2>2, <2>3, <2>4, <2>5 DEF EventsInv
  <2> QED
    BY <2>1, <2>2, <2>6 DEF EventsInv, Changing
<1>7. CASE EmitLeft
  <2>1. Held' = Held /\ msg' = msg
    BY <1>7, SaveOthers, HeldKept DEF Kept
  <2>2. /\ pc = "left" /\ pc' = "idle"
        /\ ~eventLost' => /\ ~eventLost
                          /\ Heard' = {e \in Heard : e.ieee # msg.dev}
    BY <1>7 DEF EmitLeft, Tell, Heard
  <2>3. \A e \in Held : e.ieee # msg.dev
    BY <2>2, HeldType
  <2> QED
    BY <2>1, <2>2, <2>3 DEF EventsInv, Changing
<1>8. CASE LeaveSlot
  <2>1. pc = "idle" /\ pc' = "delete" /\ msg' = Head(areqs) /\ UNCHANGED told
    BY <1>8 DEF LeaveSlot, Receive
  <2>2. Held' = NotOf(Held, msg'.dev)
    BY <1>8, <2>1, LeaveSlotOthers, HeldWithout
  <2>3. msg'.kind = "leave"
    BY <1>8, <2>1, ReceiveTyped DEF LeaveSlot
  <2> QED
    BY <2>1, <2>2, <2>3 DEF EventsInv, Heard, told, Changing, NotOf
<1>9. CASE AfIncoming \/ SimpleDescRsp
  <2>1. Held' = Held
    BY <1>9, LearnOthers, HeldKept
  <2>2. pc = "idle" /\ UNCHANGED told
    BY <1>9 DEF AfIncoming, SimpleDescRsp, Receive
  <2>3. ~Changing'
    <3>1. CASE AfIncoming
      BY <3>1 DEF AfIncoming, Receive, handler, Changing
    <3>2. CASE SimpleDescRsp
      <4> DEFINE m == Head(areqs)
      <4>1. m \in Messages /\ m.kind = "desc"
        BY <3>2, ReceiveTyped DEF SimpleDescRsp
      <4>2. \/ pc' = "idle"
            \/ msg' = [m EXCEPT !.dev = slot[First(WithNwk(m.nwk))].ieee]
        BY <3>2 DEF SimpleDescRsp, Receive, handler
      <4>3. pc' = "idle" \/ msg'.kind = "desc"
        BY <4>1, <4>2 DEF Messages
      <4> QED
        BY <4>3 DEF Changing
    <3> QED
      BY <1>9, <3>1, <3>2
  <2> QED
    BY <2>1, <2>2, <2>3 DEF EventsInv, Heard, told, Changing
<1> QED
  BY <1>1, <1>2, <1>3, <1>4, <1>5, <1>6, <1>7, <1>8, <1>9 DEF OnAreq

\* A file is empty or about its device, so that no two say different things
\* about one device.
LEMMA FilesShape ==
    ASSUME FileShape
    PROVE  /\ \A e, f \in Files : e.ieee = f.ieee => e = f
           /\ \A e \in Files : \/ e = Blank
                               \/ e.ieee \in Devices /\ e.nwk \in Addresses
           /\ Blank.ieee = NoDevice /\ Blank.nwk = Zero
<1>1. Blank.ieee = NoDevice /\ Blank.nwk = Zero
  BY DEF Blank, Record
<1>2. \A e \in Files : \/ e = Blank
                       \/ \E d \in Devices, a \in Addresses :
                             e = Record(d, a) /\ disk[d] = {Record(d, a)}
  BY DEF Files, FileShape
<1>3. \A d, a : Record(d, a).ieee = d /\ Record(d, a).nwk = a
  BY DEF Record
<1>4. \A e \in Files : \/ e = Blank
                       \/ e.ieee \in Devices /\ e.nwk \in Addresses
  BY <1>2, <1>3
<1>5. ASSUME NEW e \in Files, NEW f \in Files, e.ieee = f.ieee PROVE e = f
  <2>1. CASE e = Blank
    BY <1>1, <1>4, <1>5, <2>1, DeviceAssumption
  <2>2. CASE e # Blank /\ f # Blank
    <3>1. PICK d \in Devices, a \in Addresses : e = Record(d, a) /\ disk[d] = {e}
      BY <1>2, <2>2
    <3>2. PICK c \in Devices, b \in Addresses : f = Record(c, b) /\ disk[c] = {f}
      BY <1>2, <2>2
    <3>3. c = d
      BY <1>3, <1>5, <3>1, <3>2
    <3> QED
      BY <3>1, <3>2, <3>3
  <2>3. CASE f = Blank
    BY <1>1, <1>4, <1>5, <2>3, DeviceAssumption
  <2> QED
    BY <2>1, <2>2, <2>3
<1> QED
  BY <1>1, <1>4, <1>5

LEMMA RestartRegistry ==
    ASSUME Typed, FileShape, Restart
    PROVE  HandlerInv' /\ RegistryInv' /\ EventsInv'
<1>1. PICK n, order : Loads(n, order)
  BY RestartLoads
<1>2. pc' = "idle"
  BY DEF Restart
<1>3. /\ Others' = 1 .. n
      /\ \A s \in 1 .. n : /\ order[s] \in Files
                           /\ slot'[s].ieee = order[s].ieee
                           /\ slot'[s].nwk = order[s].nwk
  BY <1>1, RestartOthers
<1>4. HandlerInv'
  BY <1>2 DEF HandlerInv, Filling
<1>5. RegistryInv'
  <2>1. \A s, t \in 1 .. n : slot'[s].ieee = slot'[t].ieee => s = t
    BY <1>1, <1>3, FilesShape DEF Loads
  <2>2. \A s \in 1 .. n :
            \/ slot'[s].ieee \in Devices /\ slot'[s].nwk \in Addresses
            \/ slot'[s].ieee = NoDevice /\ slot'[s].nwk = Zero
    BY <1>3, FilesShape
  <2> QED
    BY <1>2, <1>3, <2>1, <2>2 DEF RegistryInv
<1>6. EventsInv'
  <2>1. Heard' = Held'
    BY <1>1, HeldLoads DEF Loads, Heard
  <2> QED
    BY <2>1 DEF EventsInv
<1> QED
  BY <1>4, <1>5, <1>6

-----------------------------------------------------------------------------
(* The files *)

LEMMA EntryFields == \A d, a : Entry(d, a).ieee = d /\ Entry(d, a).nwk = a
  BY DEF Entry

\* What the registry holds for one device is one entry, or none.
LEMMA OneEntry ==
    ASSUME Typed, RegistryInv, NEW e \in Held
    PROVE  OfDevice(Held, e.ieee) = {e}
  BY HeldType DEF OfDevice

LEMMA DiskStep ==
    ASSUME Typed, HandlerInv, RegistryInv, DiskInv, OnAreq
    PROVE  DiskInv'
<1> USE EntryFields
<1>0. \A S : Book(S) = {} <=> S = {}
  BY DEF Book
<1> DEFINE Promise == /\ \A e \in Held : e.ieee \in Devices
                      /\ \A d \in Devices :
                             ~(Saving /\ d = msg.dev) => Book(disk[d]) = OfDevice(Held, d)
                      /\ \A d \in Devices : disk[d] = {Blank} => pc = "write"
                      /\ pc = "delete" /\ disk[msg.dev] # {} => Slots \ Others # {}
<1>a. DiskInv <=> FileShape /\ ("io" \notin trouble => Promise)
  BY DEF DiskInv
<1>b. DiskInv' <=> FileShape' /\ ("io" \notin trouble' => Promise')
  BY DEF DiskInv
<1>1. CASE JoinSlot
  <2>1. /\ pc = "idle" /\ pc' = "ieee" /\ msg' = Head(areqs) /\ disk' = disk
        /\ trouble' = trouble
    BY <1>1 DEF JoinSlot, Receive
  <2>2. Held' = NotOf(Held, msg'.dev)
    BY <1>1, <2>1, JoinSlotOthers, HeldWithout
  <2>3. msg'.kind = "join"
    BY <1>1, <2>1, ReceiveTyped DEF JoinSlot
  <2>4. FileShape'
    BY <1>a, <2>1 DEF FileShape
  <2>5. Promise => Promise'
    BY <2>1, <2>2, <2>3 DEF Saving, Changing, NotOf, OfDevice
  <2> QED
    BY <1>a, <1>b, <2>1, <2>4, <2>5
<1>2. CASE JoinRefused
  <2>1. Still /\ disk' = disk /\ pc = "idle" /\ trouble' = trouble \cup {"full"}
    BY <1>2 DEF JoinRefused, registry, told, handler, Still, Receive
  <2>2. FileShape'
    BY <1>a, <2>1 DEF FileShape
  <2>3. Promise => Promise'
    BY <2>1, StillOthers DEF Still, Saving, Changing
  <2> QED
    BY <1>a, <1>b, <2>1, <2>2, <2>3
<1>3. CASE JoinIeee
  <2>1. Held' = Held
    BY <1>3, JoinIeeeOthers, HeldKept
  <2>2. /\ pc = "ieee" /\ pc' = "nwk" /\ msg' = msg /\ disk' = disk
        /\ trouble' = trouble
    BY <1>3 DEF JoinIeee
  <2>3. FileShape'
    BY <1>a, <2>2 DEF FileShape
  <2>4. Promise => Promise'
    BY <2>1, <2>2 DEF Saving, Changing
  <2> QED
    BY <1>a, <1>b, <2>2, <2>3, <2>4
<1>4. CASE JoinNwk
  <2>1. Held' = Held \cup {Entry(msg.dev, msg.nwk)}
    BY <1>4, JoinNwkOthers, HeldAdds
  <2>2. /\ pc = "nwk" /\ pc' = "open" /\ msg' = msg /\ disk' = disk
        /\ trouble' = trouble /\ msg.kind = "join" /\ msg.dev \in Devices
    BY <1>4 DEF JoinNwk, HandlerInv
  <2>3. FileShape'
    BY <1>a, <2>2 DEF FileShape
  <2>4. Promise => Promise'
    BY <2>1, <2>2 DEF Saving, Changing, OfDevice
  <2> QED
    BY <1>a, <1>b, <2>2, <2>3, <2>4
<1>5. CASE OpenFile
  <2>1. Held' = Held /\ msg' = msg
    BY <1>5, SaveOthers, HeldKept DEF Kept
  <2>2. /\ pc = "open" /\ pc' = "write" /\ trouble' = trouble
        /\ msg.kind \in {"join", "desc"} /\ msg.dev \in Devices
    BY <1>5 DEF OpenFile, HandlerInv
  <2>3. \A d \in Devices :
            disk'[d] = IF d = msg.dev /\ disk[d] = {} THEN {Blank} ELSE disk[d]
    BY <1>5, <2>2 DEF OpenFile, Typed, DiskTyped
  <2>4. FileShape'
    BY <1>a, <2>3 DEF FileShape
  <2>5. Entry(msg.dev, msg.nwk) \in Held
    BY <2>2 DEF RegistryInv
  <2>6. ASSUME Promise PROVE Promise'
    <3>1. msg.kind = "desc" => disk[msg.dev] # {}
      BY <1>0, <2>2, <2>5, <2>6 DEF Saving, Changing, OfDevice
    <3>2. \A d \in Devices : ~(Saving' /\ d = msg'.dev) => Book(disk'[d]) = OfDevice(Held', d)
      BY <2>1, <2>2, <2>3, <2>6, <3>1 DEF Saving, Changing
    <3> QED
      BY <2>1, <2>2, <2>6, <3>2
  <2> QED
    BY <1>a, <1>b, <2>2, <2>4, <2>6
<1>6. CASE WriteFile
  <2> DEFINE new == Record(msg.dev, msg.nwk)
  <2>1. Held' = Held /\ msg' = msg
    BY <1>6, SaveOthers, HeldKept DEF Kept
  <2>2. /\ pc = "write" /\ pc' \in {"joined", "idle"} /\ trouble' = trouble
        /\ msg.kind \in {"join", "desc"} /\ msg.dev \in Devices
        /\ msg.nwk \in Addresses
    BY <1>6 DEF WriteFile, Saved, HandlerInv
  <2>3. \A d \in Devices : disk'[d] = IF d = msg.dev THEN {new} ELSE disk[d]
    BY <1>6, <2>2 DEF WriteFile, Typed, DiskTyped
  <2>4. FileShape'
    BY <1>a, <2>2, <2>3 DEF FileShape
  <2>5. OfDevice(Held, msg.dev) = {Entry(msg.dev, msg.nwk)}
    BY <2>2, OneEntry DEF RegistryInv
  <2>6. Book({new}) = {Entry(msg.dev, msg.nwk)}
    BY RecordType DEF Book
  <2>7. new # Blank
    BY <2>2, RecordType, DeviceAssumption
  <2> HIDE DEF new
  <2>8. ASSUME Promise PROVE Promise'
    <3>1. \A d \in Devices : Book(disk'[d]) = OfDevice(Held, d)
      BY <2>3, <2>5, <2>6, <2>8
    <3>2. \A d \in Devices : disk'[d] # {Blank}
      <4>1. NoEntry \in Book({Blank})
        BY DEF Book, Blank, Record, NoEntry
      <4>2. \A d \in Devices : NoEntry \notin OfDevice(Held, d)
        BY DeviceAssumption DEF OfDevice, NoEntry
      <4> QED
        BY <3>1, <4>1, <4>2
    <3> QED
      BY <2>1, <2>2, <2>8, <3>1, <3>2
  <2> QED
    BY <1>a, <1>b, <2>2, <2>4, <2>8
<1>7. CASE SaveFails
  <2>1. disk' = disk /\ "io" \in trouble'
    BY <1>7 DEF SaveFails
  <2> QED
    BY <1>a, <1>b, <2>1 DEF FileShape
<1>8. CASE EmitJoined \/ EmitLeft
  <2>1. Held' = Held /\ msg' = msg
    BY <1>8, SaveOthers, HeldKept DEF Kept
  <2>2. pc \in {"joined", "left"} /\ pc' = "idle" /\ disk' = disk /\ trouble' = trouble
    BY <1>8 DEF EmitJoined, EmitLeft
  <2>3. FileShape'
    BY <1>a, <2>2 DEF FileShape
  <2>4. Promise => Promise'
    BY <2>1, <2>2 DEF Saving, Changing
  <2> QED
    BY <1>a, <1>b, <2>2, <2>3, <2>4
<1>9. CASE LeaveSlot
  <2>1. /\ pc = "idle" /\ pc' = "delete" /\ msg' = Head(areqs) /\ disk' = disk
        /\ trouble' = trouble
    BY <1>9 DEF LeaveSlot, Receive
  <2>2. /\ Held' = NotOf(Held, msg'.dev) /\ Others' = Without(msg'.dev)
        /\ Others' # Others => Slots \ Others' # {}
    BY <1>9, <2>1, LeaveSlotOthers, HeldWithout
  <2>3. msg'.kind = "leave" /\ msg'.dev \in Devices
    BY <1>9, <2>1, ReceiveTyped DEF LeaveSlot
  <2>4. FileShape'
    BY <1>a, <2>1 DEF FileShape
  <2>5. ASSUME Promise PROVE Promise'
    <3>1. \A d \in Devices : ~(Saving' /\ d = msg'.dev) => Book(disk'[d]) = OfDevice(Held', d)
      BY <2>1, <2>2, <2>3, <2>5 DEF Saving, Changing, NotOf, OfDevice
    <3>2. \A e \in Held' : e.ieee \in Devices
      BY <2>2, <2>5 DEF NotOf
    <3>3. ASSUME disk'[msg'.dev] # {} PROVE Slots \ Others' # {}
      <4>1. OfDevice(Held, msg'.dev) # {}
        BY <1>0, <2>1, <2>3, <2>5, <3>3 DEF Saving
      <4>2. Others' # Others
        BY <2>2, <4>1, HeldSlots DEF OfDevice, Without
      <4> QED
        BY <2>2, <4>2
    <3> QED
      BY <2>1, <2>5, <3>1, <3>2, <3>3
  <2> QED
    BY <1>a, <1>b, <2>1, <2>4, <2>5
<1>10. CASE DeleteFile
  <2>1. Held' = Held /\ msg' = msg
    BY <1>10, SaveOthers, HeldKept DEF Kept
  <2>2. /\ pc = "delete" /\ pc' = "left" /\ msg.dev \in Devices
        /\ \/ trouble' = trouble /\ disk' = [disk EXCEPT ![msg.dev] = {}]
           \/ "io" \in trouble' /\ disk' = disk
    BY <1>10 DEF DeleteFile, HandlerInv
  <2>3. CASE "io" \in trouble' /\ disk' = disk
    BY <1>a, <1>b, <2>3 DEF FileShape
  <2>4. CASE trouble' = trouble /\ disk' = [disk EXCEPT ![msg.dev] = {}]
    <3>1. \A d \in Devices : disk'[d] = IF d = msg.dev THEN {} ELSE disk[d]
      BY <2>2, <2>4 DEF Typed, DiskTyped
    <3>2. FileShape'
      BY <1>a, <3>1 DEF FileShape
    <3>3. OfDevice(Held, msg.dev) = {}
      BY <2>2, HeldType DEF OfDevice
    <3>4. Promise => Promise'
      BY <1>0, <2>1, <2>2, <3>1, <3>3 DEF Saving, Changing
    <3> QED
      BY <1>a, <1>b, <2>4, <3>2, <3>4
  <2> QED
    BY <2>2, <2>3, <2>4
<1>11. CASE AfIncoming \/ SimpleDescRsp
  <2>1. Held' = Held
    BY <1>11, LearnOthers, HeldKept
  <2>2. pc = "idle" /\ disk' = disk /\ trouble' = trouble /\ pc' \in {"idle", "open"}
    BY <1>11 DEF AfIncoming, SimpleDescRsp, Receive, handler
  <2>3. FileShape'
    BY <1>a, <2>2 DEF FileShape
  <2>4. ~Saving'
    <3>1. CASE AfIncoming
      BY <3>1 DEF AfIncoming, Receive, handler, Saving
    <3>2. CASE SimpleDescRsp
      <4> DEFINE m == Head(areqs)
      <4>1. m \in Messages /\ m.kind = "desc"
        BY <3>2, ReceiveTyped DEF SimpleDescRsp
      <4>2. \/ pc' = "idle"
            \/ msg' = [m EXCEPT !.dev = slot[First(WithNwk(m.nwk))].ieee]
        BY <3>2 DEF SimpleDescRsp, Receive, handler
      <4>3. pc' = "idle" \/ msg'.kind = "desc"
        BY <4>1, <4>2 DEF Messages
      <4> QED
        BY <4>3 DEF Saving, Changing
    <3> QED
      BY <1>11, <3>1, <3>2
  <2>5. Promise => Promise'
    BY <2>1, <2>2, <2>4 DEF Saving
  <2> QED
    BY <1>a, <1>b, <2>2, <2>3, <2>5
<1> QED
  BY <1>1, <1>2, <1>3, <1>4, <1>5, <1>6, <1>7, <1>8, <1>9, <1>10, <1>11 DEF OnAreq

\* While no access has failed the files fit the table: each is that of a slot
\* in use, or of the one device a join or a leave is about.
LEMMA FilesFit ==
    ASSUME Typed, HandlerInv, RegistryInv, DiskInv, "io" \notin trouble,
           pc \notin {"open", "write"}
    PROVE  IsFiniteSet(Files) /\ Cardinality(Files) <= MaxDevices
<1> DEFINE E(f) == Entry(f.ieee, f.nwk)
<1>1. PICK x \in Slots : \A f \in Files :
          E(f) \in Held \/ (x \notin Others /\ f \in disk[msg.dev] /\ msg.dev \in Devices)
  <2>1. \A f \in Files : E(f) \in Held \/ (Saving /\ f \in disk[msg.dev])
    BY DEF Files, DiskInv, OfDevice, Book
  <2>2. CASE ~Saving \/ disk[msg.dev] = {}
    <3>1. \A f \in Files : E(f) \in Held
      BY <2>1, <2>2
    <3> QED
      BY <3>1, DeviceAssumption DEF Slots
  <2>3. CASE Saving /\ disk[msg.dev] # {}
    <3>1. msg.dev \in Devices
      BY <2>3 DEF Saving, HandlerInv
    <3>2. \E x \in Slots : x \notin Others
      <4>1. CASE pc = "delete"
        BY <2>3, <4>1 DEF DiskInv
      <4>2. CASE pc # "delete"
        BY <2>3, <4>2 DEF Saving, Others, Filling, Typed, HandlerTyped
      <4> QED
        BY <4>1, <4>2
    <3> QED
      BY <2>1, <3>1, <3>2
  <2> QED
    BY <2>2, <2>3
<1> DEFINE slotOf(e) == CHOOSE s \in Others : e = Entry(slot[s].ieee, slot[s].nwk)
           g == [f \in Files |-> IF E(f) \in Held THEN slotOf(E(f)) ELSE x]
<1>2. \A e \in Held : slotOf(e) \in Others
                        /\ e = Entry(slot[slotOf(e)].ieee, slot[slotOf(e)].nwk)
  BY HeldSlots
<1> HIDE DEF slotOf
<1>3. g \in [Files -> Slots]
  BY <1>2, OthersType
<1>4. ASSUME NEW f \in Files, NEW h \in Files, g[f] = g[h] PROVE f = h
  <2>1. CASE E(f) \in Held /\ E(h) \in Held
    <3>1. E(f) = E(h)
      BY <1>2, <1>4, <2>1
    <3>2. f.ieee = h.ieee
      BY <3>1, EntryFields
    <3> QED
      BY <3>2, FilesShape DEF DiskInv
  <2>2. CASE E(f) \notin Held /\ E(h) \notin Held
    BY <1>1, <2>2 DEF DiskInv, FileShape
  <2>3. CASE E(f) \in Held /\ E(h) \notin Held
    BY <1>1, <1>2, <1>4, <2>3
  <2>4. CASE E(f) \notin Held /\ E(h) \in Held
    BY <1>1, <1>2, <1>4, <2>4
  <2> QED
    BY <2>1, <2>2, <2>3, <2>4
<1> HIDE DEF g
<1>5. g \in Injection(Files, Slots)
  BY <1>3, <1>4 DEF Injection, IsInjective
<1>6. IsFiniteSet(Slots) /\ Cardinality(Slots) = MaxDevices
  BY FS_Interval, DeviceAssumption DEF Slots
<1> QED
  BY <1>5, <1>6, FS_Injection

\* Then a restart loads all of them.
LEMMA AllLoaded ==
    ASSUME NEW n, NEW order, Loads(n, order), IsFiniteSet(Files),
           Cardinality(Files) <= MaxDevices
    PROVE  \A f \in Files : \E i \in 1 .. n : order[i] = f
<1>1. CASE n # MaxDevices
  BY <1>1 DEF Loads
<1>2. CASE n = MaxDevices
  <2>1. order \in Injection(1 .. n, Files)
    BY DEF Loads, Injection, IsInjective
  <2>2. /\ Cardinality(1 .. n) <= Cardinality(Files)
        /\ Cardinality(1 .. n) = Cardinality(Files) <=> order \in Surjection(1 .. n, Files)
    BY <2>1, FS_Injection
  <2>3. Cardinality(1 .. n) = n
    BY <1>2, FS_Interval, DeviceAssumption
  <2>4. Cardinality(Files) \in Nat
    BY FS_CardinalityType
  <2>5. order \in Surjection(1 .. n, Files)
    BY <1>2, <2>2, <2>3, <2>4, DeviceAssumption
  <2> QED
    BY <2>5 DEF Surjection
<1> QED
  BY <1>1, <1>2

LEMMA RestartHeld ==
    ASSUME Typed, HandlerInv, RegistryInv, DiskInv, Restart,
           "io" \notin trouble, pc \notin {"open", "write"}
    PROVE  Held' = Stored
<1>1. PICK n, order : Loads(n, order)
  BY RestartLoads
<1>2. Held' = booted' /\ booted' \subseteq Stored
  BY <1>1, HeldLoads
<1>3. \A f \in Files : \E i \in 1 .. n : order[i] = f
  BY <1>1, FilesFit, AllLoaded
<1> QED
  BY <1>1, <1>2, <1>3 DEF Loads, Stored

LEMMA RestartDisk ==
    ASSUME Typed, HandlerInv, RegistryInv, DiskInv, Restart
    PROVE  DiskInv'
<1>1. /\ pc' = "idle" /\ disk' = disk
      /\ "io" \notin trouble' => "io" \notin trouble /\ pc \notin {"open", "write"}
  BY DEF Restart, RestartLoses
<1>2. FileShape'
  BY <1>1 DEF DiskInv, FileShape
<1>3. ASSUME "io" \notin trouble'
      PROVE  /\ \A e \in Held' : e.ieee \in Devices
             /\ \A d \in Devices : Book(disk'[d]) = OfDevice(Held', d)
             /\ \A d \in Devices : disk[d] # {Blank}
  <2>1. "io" \notin trouble /\ pc \notin {"open", "write"} /\ Held' = Stored
    BY <1>1, <1>3, RestartHeld
  <2>2. \A d \in Devices : disk[d] # {Blank}
    BY <2>1 DEF DiskInv
  <2>3. \A d \in Devices : \A f \in disk[d] : f.ieee = d
    BY <2>2 DEF DiskInv, FileShape, Record
  <2>4. \A e \in Held' : \E d \in Devices : \E f \in disk[d] : e = Entry(f.ieee, f.nwk)
    BY <2>1 DEF Stored, Files
  <2>5. \A e \in Held' : e.ieee \in Devices
    BY <2>3, <2>4, EntryFields
  <2>6. ASSUME NEW d \in Devices PROVE Book(disk[d]) = OfDevice(Held', d)
    <3>1. \A f \in disk[d] : Entry(f.ieee, f.nwk) \in OfDevice(Held', d)
      BY <2>1, <2>3, EntryFields DEF Stored, Files, OfDevice
    <3>2. \A e \in OfDevice(Held', d) : e \in Book(disk[d])
      BY <2>3, <2>4, EntryFields DEF OfDevice, Book
    <3> QED
      BY <3>1, <3>2 DEF Book
  <2> QED
    BY <1>1, <2>2, <2>5, <2>6
<1> QED
  BY <1>1, <1>2, <1>3 DEF DiskInv, Saving, Changing

-----------------------------------------------------------------------------
(* Lookups *)

LEMMA ReaderSame ==
    ASSUME ReaderInv, UNCHANGED reader, Others' = Others, Kept(Others)
    PROVE  ReaderInv'
  BY DEF ReaderInv, Kept

\* A join or a leave of a device disturbs the lookups of that device only.
LEMMA ReaderTouched ==
    ASSUME Typed, ReaderInv, NEW d, Touch(d), Others' = Without(d), Kept(Others')
    PROVE  ReaderInv'
<1> SUFFICES ASSUME NEW r \in Readers,
                    reader'[r].pc \in {"read", "done"} /\ reader'[r].steady
             PROVE  /\ reader'[r].slot \in Others'
                    /\ slot'[reader'[r].slot].ieee = reader'[r].dev
                    /\ reader'[r].pc = "done" =>
                           slot'[reader'[r].slot].nwk = reader'[r].nwk
  BY DEF ReaderInv
<1>1. /\ reader'[r].pc = reader[r].pc /\ reader'[r].slot = reader[r].slot
      /\ reader'[r].dev = reader[r].dev /\ reader'[r].nwk = reader[r].nwk
      /\ reader'[r].steady => reader[r].steady /\ reader[r].dev # d
  BY DEF Touch, Typed, ReaderType
<1> QED
  BY <1>1 DEF ReaderInv, Kept, Without

LEMMA ReaderStep ==
    ASSUME Typed, HandlerInv, RegistryInv, ReaderInv, OnAreq
    PROVE  ReaderInv'
<1>1. CASE JoinSlot
  BY <1>1, JoinSlotOthers, ReaderTouched DEF JoinSlot
<1>2. CASE LeaveSlot
  BY <1>2, LeaveSlotOthers, ReaderTouched DEF LeaveSlot
<1>3. CASE JoinRefused
  <2>1. Still /\ UNCHANGED reader
    BY <1>3 DEF JoinRefused, registry, told, handler, Still
  <2> QED
    BY <2>1, StillOthers, ReaderSame DEF Kept, Still
<1>4. CASE JoinIeee
  BY <1>4, JoinIeeeOthers, ReaderSame DEF JoinIeee
<1>5. CASE JoinNwk
  <2>1. Others' = Others \cup {at} /\ Kept(Others)
    BY <1>5, JoinNwkOthers
  <2> QED
    BY <1>5, <2>1 DEF JoinNwk, ReaderInv, Kept
<1>6. CASE OpenFile \/ WriteFile \/ SaveFails \/ EmitJoined \/ DeleteFile \/ EmitLeft
  <2>1. UNCHANGED reader
    BY <1>6 DEF OpenFile, WriteFile, SaveFails, EmitJoined, DeleteFile, EmitLeft
  <2> QED
    BY <1>6, <2>1, SaveOthers, ReaderSame DEF Kept
<1>7. CASE AfIncoming \/ SimpleDescRsp
  <2>1. UNCHANGED reader
    BY <1>7 DEF AfIncoming, SimpleDescRsp
  <2> QED
    BY <1>7, <2>1, LearnOthers, ReaderSame
<1> QED
  BY <1>1, <1>2, <1>3, <1>4, <1>5, <1>6, <1>7 DEF OnAreq

LEMMA ReaderLookup ==
    ASSUME Typed, ReaderInv, Lookup
    PROVE  ReaderInv'
<1>1. ASSUME NEW r \in Readers, ReadNwk(r) PROVE ReaderInv'
  <2>1. Still
    BY <1>1 DEF ReadNwk, registry, told, handler, Still
  <2>2. /\ \A q \in Readers : q # r => reader'[q] = reader[q]
        /\ reader[r].pc = "read" /\ reader'[r].pc = "done"
        /\ reader'[r].slot = reader[r].slot /\ reader'[r].dev = reader[r].dev
        /\ reader'[r].steady = reader[r].steady
        /\ reader'[r].nwk = slot[reader[r].slot].nwk
    BY <1>1 DEF ReadNwk, Typed, ReaderType
  <2> QED
    BY <2>1, <2>2, StillOthers DEF Still, ReaderInv
<1>2. ASSUME NEW r \in Readers, NEW d \in Devices, FindDevice(r, d)
      PROVE  ReaderInv'
  <2>1. Still
    BY <1>2 DEF FindDevice, registry, told, handler, Still
  <2>2. \A q \in Readers : q # r => reader'[q] = reader[q]
    BY <1>2 DEF FindDevice, Typed, ReaderType
  <2>3. CASE WithIeee(d) = {}
    <3>1. reader'[r] = [IdleReader EXCEPT !.pc = "done", !.dev = d]
      BY <1>2, <2>3 DEF FindDevice, Typed, ReaderType
    <3>2. ~reader'[r].steady
      BY <3>1 DEF IdleReader
    <3> QED
      BY <2>1, <2>2, <3>2, StillOthers DEF Still, ReaderInv
  <2>4. CASE WithIeee(d) # {}
    <3> DEFINE f == First(WithIeee(d))
               sure == ~(pc \in {"ieee", "nwk"} /\ f = at)
    <3>1. f \in WithIeee(d)
      BY <2>4, FirstIn, SubsetOfSlots
    <3>2. f \in Active /\ slot[f].ieee = d
      BY <3>1 DEF WithIeee
    <3>3. sure => f \in Others
      BY <3>2 DEF Others, Filling
    <3>4. sure \in BOOLEAN
      OBVIOUS
    <3>5. reader' = [reader EXCEPT ![r] = [pc |-> "read", dev |-> d, slot |-> f,
                                           steady |-> sure, nwk |-> NotFound]]
      BY <1>2, <2>4 DEF FindDevice
    <3> HIDE DEF f, sure
    <3>6. /\ reader'[r].pc = "read" /\ reader'[r].dev = d /\ reader'[r].slot = f
          /\ reader'[r].steady = sure
      BY <3>5 DEF Typed, ReaderType
    <3> QED
      BY <2>1, <2>2, <3>2, <3>3, <3>6, StillOthers DEF Still, ReaderInv
  <2> QED
    BY <2>3, <2>4
<1> QED
  BY <1>1, <1>2 DEF Lookup

-----------------------------------------------------------------------------
(* The queue: a join or a leave is on its way for whatever the registry has  *)
(* wrong                                                                     *)

Ordered == Current /\ LastMove /\ SenderInv
Moves == {"join", "leave"}

LEMMA OrderedSame ==
    ASSUME Known' = Known, areqs' = areqs, net' = net
    PROVE  (Ordered' <=> Ordered) /\ (Complete' <=> Complete) /\ (NetInv' <=> NetInv)
  BY DEF Ordered, Current, LastMove, SenderInv, Complete, NetInv, Moving, MoveAt

\* What the registry knows once the AREQ at the head has been taken.
Absorbed(e) ==
    \/ e \in Known /\ (Head(areqs).kind \in Moves => e.ieee # Head(areqs).dev)
    \/ Head(areqs).kind = "join" /\ e = Entry(Head(areqs).dev, Head(areqs).nwk)

LEMMA OrderedTake ==
    ASSUME Typed, Ordered, areqs # <<>>, areqs' = Tail(areqs), net' = net,
           \A e \in Known' : Absorbed(e)
    PROVE  Ordered'
<1> USE EntryFields
<1> DEFINE n == Len(areqs)
           After(d, i) == areqs'[i].kind \in {"join", "leave"} /\ areqs'[i].dev = d
<1>1. /\ n \in Nat \ {0} /\ Len(areqs') = n - 1 /\ Head(areqs) = areqs[1]
      /\ \A i \in 1 .. n - 1 : areqs'[i] = areqs[i + 1]
  BY TakeHead DEF Typed, QueueTyped
<1> HIDE DEF n
<1>2. \A d : \A i \in 1 .. n - 1 : After(d, i) <=> MoveAt(d, i + 1)
  BY <1>1 DEF MoveAt
<1>3. \A d : \A i \in 2 .. n : MoveAt(d, i) => i - 1 \in 1 .. n - 1 /\ After(d, i - 1)
  <2>1. SUFFICES ASSUME NEW d, NEW i \in 2 .. n, MoveAt(d, i)
                 PROVE  i - 1 \in 1 .. n - 1 /\ After(d, i - 1)
    OBVIOUS
  <2>2. i - 1 \in 1 .. n - 1 /\ (i - 1) + 1 = i
    BY <1>1
  <2> QED
    BY <1>2, <2>1, <2>2
<1>4. Current'
  <2>1. SUFFICES ASSUME NEW e \in Known', e.ieee \in Devices
                 PROVE  net[e.ieee] = e.nwk \/ Moving(e.ieee)'
    BY DEF Current
  <2>2. CASE e \in Known /\ (Head(areqs).kind \in Moves => e.ieee # Head(areqs).dev)
    <3>1. CASE net[e.ieee] = e.nwk
      BY <3>1
    <3>2. CASE net[e.ieee] # e.nwk
      <4>1. PICK i \in 1 .. n : MoveAt(e.ieee, i)
        BY <2>1, <2>2, <3>2 DEF Ordered, Current, Moving, n
      <4>2. i \in 2 .. n
        BY <1>1, <2>2, <4>1 DEF MoveAt, Moves
      <4> QED
        BY <1>1, <1>3, <4>1, <4>2 DEF Moving, MoveAt
    <3> QED
      BY <3>1, <3>2
  <2>3. CASE Head(areqs).kind = "join" /\ e = Entry(Head(areqs).dev, Head(areqs).nwk)
    <3>1. /\ e.ieee = areqs[1].dev /\ e.nwk = areqs[1].nwk /\ areqs[1].kind = "join"
          /\ 1 \in 1 .. Len(areqs)
      BY <1>1, <2>3 DEF n
    <3>2. CASE net[e.ieee] = e.nwk
      BY <3>2
    <3>3. CASE net[e.ieee] # e.nwk
      <4>1. PICK i \in 2 .. n : MoveAt(e.ieee, i)
        BY <3>1, <3>3 DEF Ordered, LastMove, n
      <4> QED
        BY <1>1, <1>3, <4>1 DEF Moving, MoveAt
    <3> QED
      BY <3>2, <3>3
  <2> QED
    BY <2>2, <2>3 DEF Absorbed
<1>5. LastMove'
  <2>1. SUFFICES ASSUME NEW i \in 1 .. n - 1, areqs'[i].kind \in {"join", "leave"}
                 PROVE  \/ net[areqs'[i].dev] =
                               IF areqs'[i].kind = "join" THEN areqs'[i].nwk ELSE Away
                        \/ \E j \in i + 1 .. n - 1 : After(areqs'[i].dev, j)
    BY <1>1 DEF LastMove, MoveAt
  <2>2. areqs'[i] = areqs[i + 1] /\ i + 1 \in 1 .. n
    BY <1>1
  <2>3. CASE \E j \in (i + 1) + 1 .. n : MoveAt(areqs[i + 1].dev, j)
    <3>1. PICK j \in (i + 1) + 1 .. n : MoveAt(areqs[i + 1].dev, j)
      BY <2>3
    <3>2. j \in 2 .. n /\ j - 1 \in i + 1 .. n - 1
      BY <1>1
    <3> QED
      BY <1>3, <2>2, <3>1, <3>2
  <2> QED
    BY <2>1, <2>2, <2>3 DEF Ordered, LastMove, n
<1>6. SenderInv'
  <2>1. SUFFICES ASSUME NEW i \in 1 .. n - 1, areqs'[i].kind = "report"
                 PROVE  /\ \A e \in Known' :
                              e.nwk = areqs'[i].nwk /\ e.ieee # areqs'[i].dev =>
                                  \E j \in 1 .. i - 1 : After(e.ieee, j)
                        /\ \A j \in 1 .. i - 1 :
                              areqs'[j].kind = "join" /\ areqs'[j].nwk = areqs'[i].nwk
                                /\ areqs'[j].dev # areqs'[i].dev =>
                                  \E k \in j + 1 .. i - 1 : After(areqs'[j].dev, k)
    BY <1>1 DEF SenderInv, MoveAt
  <2>2. areqs'[i] = areqs[i + 1] /\ i + 1 \in 1 .. n /\ (i + 1) - 1 = i
    BY <1>1
  <2>3. ASSUME NEW e \in Known', e.nwk = areqs'[i].nwk, e.ieee # areqs'[i].dev
        PROVE  \E j \in 1 .. i - 1 : After(e.ieee, j)
    <3>1. CASE e \in Known /\ (Head(areqs).kind \in Moves => e.ieee # Head(areqs).dev)
      <4>1. PICK j \in 1 .. i : MoveAt(e.ieee, j)
        BY <2>1, <2>2, <2>3, <3>1 DEF Ordered, SenderInv, n
      <4>2. j \in 2 .. n /\ j - 1 \in 1 .. i - 1
        BY <1>1, <3>1, <4>1 DEF MoveAt, Moves
      <4> QED
        BY <1>3, <4>1, <4>2
    <3>2. CASE Head(areqs).kind = "join" /\ e = Entry(Head(areqs).dev, Head(areqs).nwk)
      <4>1. /\ e.ieee = areqs[1].dev /\ e.nwk = areqs[1].nwk /\ areqs[1].kind = "join"
            /\ 1 \in 1 .. i
        BY <1>1, <3>2
      <4>2. PICK j \in 2 .. i : MoveAt(e.ieee, j)
        BY <2>1, <2>2, <2>3, <4>1 DEF Ordered, SenderInv, n
      <4>3. j \in 2 .. n /\ j - 1 \in 1 .. i - 1
        BY <1>1
      <4> QED
        BY <1>3, <4>2, <4>3
    <3> QED
      BY <3>1, <3>2 DEF Absorbed
  <2>4. ASSUME NEW j \in 1 .. i - 1,
               areqs'[j].kind = "join", areqs'[j].nwk = areqs'[i].nwk,
               areqs'[j].dev # areqs'[i].dev
        PROVE  \E k \in j + 1 .. i - 1 : After(areqs'[j].dev, k)
    <3>1. areqs'[j] = areqs[j + 1] /\ j + 1 \in 1 .. i
      BY <1>1
    <3>2. PICK k \in (j + 1) + 1 .. i : MoveAt(areqs[j + 1].dev, k)
      BY <2>1, <2>2, <2>4, <3>1 DEF Ordered, SenderInv, n
    <3>3. k \in 2 .. n /\ k - 1 \in j + 1 .. i - 1
      BY <1>1
    <3> QED
      BY <1>3, <3>1, <3>2, <3>3
  <2> QED
    BY <2>3, <2>4
<1> QED
  BY <1>4, <1>5, <1>6 DEF Ordered

\* An AREQ goes to the end of the queue.
LEMMA Appended ==
    ASSUME Typed, NEW m, areqs' = Append(areqs, m)
    PROVE  /\ Len(areqs) \in Nat /\ Len(areqs') = Len(areqs) + 1
           /\ \A i \in 1 .. Len(areqs) : areqs'[i] = areqs[i]
           /\ areqs'[Len(areqs) + 1] = m
  BY DEF Typed, QueueTyped, QueueType

\* A device moves, and says so.
LEMMA OrderedMove ==
    ASSUME Typed, NEW d \in Devices, NEW m \in Messages, m.dev = d,
           m.kind \in {"join", "leave"}, areqs' = Append(areqs, m), Known' = Known,
           net' = [net EXCEPT ![d] = IF m.kind = "join" THEN m.nwk ELSE Away]
    PROVE  (Ordered => Ordered') /\ (Complete => Complete')
<1> DEFINE n == Len(areqs)
<1>1. /\ n \in Nat /\ Len(areqs') = n + 1 /\ areqs'[n + 1] = m
      /\ \A i \in 1 .. n : areqs'[i] = areqs[i]
  BY Appended
<1> HIDE DEF n
<1>2. /\ \A c \in Devices : c # d => net'[c] = net[c]
      /\ net'[d] = IF m.kind = "join" THEN m.nwk ELSE Away
  BY DEF Typed, NetTyped
<1>3. \A c : \A i \in 1 .. n : MoveAt(c, i)' <=> MoveAt(c, i)
  BY <1>1 DEF MoveAt
<1>4. \A k : k = n + 1 => k \in 1 .. n + 1 /\ MoveAt(d, k)'
  BY <1>1 DEF MoveAt
<1>5. \A c : (Moving(c) => Moving(c)') /\ Moving(d)'
  BY <1>1, <1>3, <1>4 DEF Moving, n
<1>6. Current => Current'
  BY <1>2, <1>5 DEF Current
<1>7. Complete => Complete'
  BY <1>2, <1>5 DEF Complete
<1>8. ASSUME LastMove PROVE LastMove'
  <2>1. SUFFICES ASSUME NEW i \in 1 .. n + 1, areqs'[i].kind \in {"join", "leave"},
                        NEW c, c = areqs'[i].dev
                 PROVE  \/ net'[c] = IF areqs'[i].kind = "join" THEN areqs'[i].nwk
                                     ELSE Away
                        \/ \E j \in i + 1 .. n + 1 : MoveAt(c, j)'
    BY <1>1 DEF LastMove, MoveAt, Away
  <2>2. CASE i = n + 1
    BY <1>1, <1>2, <2>1, <2>2
  <2>3. CASE i \in 1 .. n /\ c = d
    <3>1. n + 1 \in i + 1 .. n + 1
      BY <1>1, <2>3
    <3> QED
      BY <1>4, <2>3, <3>1
  <2>4. CASE i \in 1 .. n /\ c # d
    <3>0. areqs'[i] = areqs[i] /\ areqs[i] \in Messages
      BY <1>1, <2>4 DEF Typed, QueueTyped, QueueType, n
    <3>1. areqs'[i] = areqs[i] /\ c \in Devices
      BY <2>1, <3>0 DEF Messages
    <3>2. CASE net[c] = IF areqs[i].kind = "join" THEN areqs[i].nwk ELSE Away
      BY <1>2, <2>4, <3>1, <3>2
    <3>3. CASE \E j \in i + 1 .. n : MoveAt(c, j)
      <4>1. PICK j \in i + 1 .. n : MoveAt(c, j)
        BY <3>3
      <4>2. j \in 1 .. n /\ j \in i + 1 .. n + 1
        BY <1>1
      <4> QED
        BY <1>3, <4>1, <4>2
    <3> QED
      BY <1>8, <2>1, <2>4, <3>1, <3>2, <3>3 DEF LastMove, n
  <2> QED
    BY <1>1, <2>2, <2>3, <2>4
<1>9. ASSUME SenderInv PROVE SenderInv'
  <2>1. ASSUME NEW i \in 1 .. n + 1, areqs'[i].kind = "report"
        PROVE  i \in 1 .. n /\ areqs'[i] = areqs[i] /\ areqs[i].kind = "report"
               /\ \A j \in 1 .. i - 1 : j \in 1 .. n /\ areqs'[j] = areqs[j]
    BY <1>1, <2>1
  <2>2. ASSUME NEW i \in 1 .. n + 1, areqs'[i].kind = "report", NEW e \in Known,
               e.nwk = areqs'[i].nwk, e.ieee # areqs'[i].dev
        PROVE  \E j \in 1 .. i - 1 : MoveAt(e.ieee, j)'
    BY <1>3, <1>9, <2>1, <2>2 DEF SenderInv, n
  <2>3. ASSUME NEW i \in 1 .. n + 1, areqs'[i].kind = "report",
               NEW j \in 1 .. i - 1, areqs'[j].kind = "join",
               areqs'[j].nwk = areqs'[i].nwk, areqs'[j].dev # areqs'[i].dev,
               NEW c, c = areqs'[j].dev
        PROVE  \E k \in j + 1 .. i - 1 : MoveAt(c, k)'
    <3>1. PICK k \in j + 1 .. i - 1 : MoveAt(c, k)
      BY <1>9, <2>1, <2>3 DEF SenderInv, n
    <3>2. k \in 1 .. n
      BY <1>1
    <3> QED
      BY <1>3, <3>1, <3>2
  <2> QED
    BY <1>1, <2>2, <2>3 DEF SenderInv, MoveAt
<1> QED
  BY <1>6, <1>7, <1>8, <1>9 DEF Ordered

\* A device sends from the address it has: another that the registry takes to
\* be there has moved.
LEMMA OrderedSend ==
    ASSUME Typed, NetInv, NEW d \in Devices, NEW m \in Messages, m.dev = d,
           m.kind \notin {"join", "leave"}, m.nwk = net[d], net[d] # Away,
           areqs' = Append(areqs, m), Known' = Known, net' = net,
           \A e \in Known : e.nwk \in Addresses => e.ieee \in Devices
    PROVE  (Ordered => Ordered') /\ (Complete => Complete')
<1> DEFINE n == Len(areqs)
<1>1. /\ n \in Nat /\ Len(areqs') = n + 1 /\ areqs'[n + 1] = m
      /\ \A i \in 1 .. n : areqs'[i] = areqs[i]
  BY Appended
<1> HIDE DEF n
<1>3. \A c : \A i \in 1 .. n : MoveAt(c, i)' <=> MoveAt(c, i)
  BY <1>1 DEF MoveAt
<1>5. \A c : Moving(c) => Moving(c)'
  BY <1>1, <1>3 DEF Moving, n
<1>6. Current => Current'
  BY <1>5 DEF Current
<1>7. Complete => Complete'
  BY <1>5 DEF Complete
<1>8. ASSUME LastMove PROVE LastMove'
  <2>1. SUFFICES ASSUME NEW i \in 1 .. n + 1, areqs'[i].kind \in {"join", "leave"},
                        NEW c, c = areqs'[i].dev
                 PROVE  \/ net'[c] = IF areqs'[i].kind = "join" THEN areqs'[i].nwk
                                     ELSE Away
                        \/ \E j \in i + 1 .. n + 1 : MoveAt(c, j)'
    BY <1>1 DEF LastMove, MoveAt, Away
  <2>2. i \in 1 .. n /\ areqs'[i] = areqs[i]
    BY <1>1, <2>1
  <2>3. CASE \E j \in i + 1 .. n : MoveAt(c, j)
    <3>1. PICK j \in i + 1 .. n : MoveAt(c, j)
      BY <2>3
    <3>2. j \in 1 .. n /\ j \in i + 1 .. n + 1
      BY <1>1
    <3> QED
      BY <1>3, <3>1, <3>2
  <2> QED
    BY <1>8, <2>1, <2>2, <2>3 DEF LastMove, n
<1>9. ASSUME Ordered PROVE SenderInv'
  <2>1. ASSUME NEW i \in 1 .. n + 1, NEW j \in 1 .. i - 1
        PROVE  j \in 1 .. n /\ areqs'[j] = areqs[j]
    BY <1>1
  <2>2. ASSUME NEW i \in 1 .. n + 1, areqs'[i].kind = "report", NEW e \in Known,
               e.nwk = areqs'[i].nwk, e.ieee # areqs'[i].dev
        PROVE  \E j \in 1 .. i - 1 : MoveAt(e.ieee, j)'
    <3>1. \E j \in 1 .. i - 1 : MoveAt(e.ieee, j)
      <4>1. CASE i \in 1 .. n
        BY <1>1, <1>9, <2>2, <4>1 DEF Ordered, SenderInv, n
      <4>2. CASE i = n + 1
        <5>1. e.nwk = net[d] /\ e.ieee # d
          BY <1>1, <2>2, <4>2
        <5>2. e.ieee \in Devices /\ net[e.ieee] # e.nwk
          BY <5>1 DEF Typed, NetTyped, NetInv
        <5>3. PICK j \in 1 .. n : MoveAt(e.ieee, j)
          BY <1>9, <5>2 DEF Ordered, Current, Moving, n
        <5> QED
          BY <1>1, <4>2, <5>3
      <4> QED
        BY <1>1, <4>1, <4>2
    <3> QED
      BY <1>3, <2>1, <2>2, <3>1
  <2>3. ASSUME NEW i \in 1 .. n + 1, areqs'[i].kind = "report",
               NEW j \in 1 .. i - 1, areqs'[j].kind = "join",
               areqs'[j].nwk = areqs'[i].nwk, areqs'[j].dev # areqs'[i].dev,
               NEW c, c = areqs'[j].dev
        PROVE  \E k \in j + 1 .. i - 1 : MoveAt(c, k)'
    <3>1. j \in 1 .. n /\ areqs'[j] = areqs[j]
      BY <2>1
    <3>2. \E k \in j + 1 .. i - 1 : MoveAt(c, k)
      <4>1. CASE i \in 1 .. n
        BY <1>1, <1>9, <2>3, <3>1, <4>1 DEF Ordered, SenderInv, n
      <4>2. CASE i = n + 1
        <5>1. areqs[j].kind = "join" /\ areqs[j].nwk = net[d] /\ c # d /\ c = areqs[j].dev
          BY <1>1, <2>3, <3>1, <4>2
        <5>0. areqs[j] \in Messages
          BY <3>1 DEF Typed, QueueTyped, QueueType, n
        <5>2. c \in Devices
          BY <5>0, <5>1 DEF Messages
        <5>3. net[c] # areqs[j].nwk
          BY <5>1, <5>2 DEF NetInv
        <5>4. PICK k \in j + 1 .. n : MoveAt(c, k)
          BY <1>9, <3>1, <5>1, <5>3 DEF Ordered, LastMove, n
        <5> QED
          BY <1>1, <4>2, <5>4
      <4> QED
        BY <1>1, <4>1, <4>2
    <3>3. PICK k \in j + 1 .. i - 1 : MoveAt(c, k)
      BY <3>2
    <3>4. k \in 1 .. n
      BY <1>1
    <3> QED
      BY <1>3, <3>3, <3>4
  <2> QED
    BY <1>1, <2>2, <2>3 DEF SenderInv, MoveAt
<1> QED
  BY <1>6, <1>7, <1>8, <1>9 DEF Ordered

\* With nothing lost, what is absorbed is what the registry then knows.
LEMMA CompleteTake ==
    ASSUME Typed, Complete, LastMove, areqs # <<>>, areqs' = Tail(areqs), net' = net,
           \A e : Absorbed(e) => e \in Known'
    PROVE  Complete'
<1> USE EntryFields
<1> DEFINE n == Len(areqs)
<1>1. /\ n \in Nat \ {0} /\ Len(areqs') = n - 1 /\ Head(areqs) = areqs[1]
      /\ \A i \in 1 .. n - 1 : areqs'[i] = areqs[i + 1]
  BY TakeHead DEF Typed, QueueTyped
<1> HIDE DEF n
<1>2. ASSUME NEW d, NEW i \in 2 .. n, MoveAt(d, i) PROVE Moving(d)'
  <2>1. i - 1 \in 1 .. n - 1 /\ (i - 1) + 1 = i
    BY <1>1
  <2>2. areqs'[i - 1] = areqs[i]
    BY <1>1, <2>1
  <2> QED
    BY <1>1, <1>2, <2>1, <2>2 DEF Moving, MoveAt
<1>3. SUFFICES ASSUME NEW d \in Devices, net[d] # Away
               PROVE  Entry(d, net[d]) \in Known' \/ Moving(d)'
  BY DEF Complete, Away
<1>4. CASE Head(areqs).kind \in Moves /\ Head(areqs).dev = d
  <2>1. 1 \in 1 .. n /\ areqs[1].kind \in {"join", "leave"} /\ areqs[1].dev = d
    BY <1>1, <1>4 DEF Moves
  <2>2. CASE \E j \in 2 .. n : MoveAt(d, j)
    BY <1>2, <2>2
  <2>3. CASE net[d] = IF areqs[1].kind = "join" THEN areqs[1].nwk ELSE Away
    BY <1>1, <1>3, <2>1, <2>3 DEF Absorbed
  <2> QED
    BY <2>1, <2>2, <2>3 DEF LastMove, n
<1>5. CASE ~(Head(areqs).kind \in Moves /\ Head(areqs).dev = d)
  <2>1. CASE Entry(d, net[d]) \in Known
    BY <1>5, <2>1 DEF Absorbed
  <2>2. CASE Moving(d)
    <3>1. PICK i \in 1 .. n : MoveAt(d, i)
      BY <2>2 DEF Moving, n
    <3>2. i \in 2 .. n
      BY <1>1, <1>5, <3>1 DEF MoveAt, Moves
    <3> QED
      BY <1>2, <3>1, <3>2
  <2> QED
    BY <1>3, <2>1, <2>2 DEF Complete
<1> QED
  BY <1>4, <1>5

LEMMA QueueTake ==
    ASSUME Typed, QueueInv, areqs # <<>>, areqs' = Tail(areqs), net' = net,
           trouble \subseteq trouble',
           Lossless' => credited' = credited \/ credited'[1] = credited'[2],
           Lossless' => \A e : e \in Known' <=> Absorbed(e)
    PROVE  QueueInv'
<1>1. NetInv'
  BY DEF QueueInv, NetInv, Away
<1>2. Lossless' => Lossless /\ Ordered'
  BY OrderedTake DEF QueueInv, Ordered, Lossless
<1>3. trouble' = {} => Complete'
  BY CompleteTake DEF QueueInv, Lossless
<1> QED
  BY <1>1, <1>2, <1>3 DEF QueueInv, Ordered

LEMMA QueueSame ==
    ASSUME QueueInv, Known' = Known, areqs' = areqs, net' = net,
           trouble \subseteq trouble', credited' = credited
    PROVE  QueueInv'
  BY OrderedSame DEF QueueInv, Ordered, Lossless

LEMMA KnownIdle ==
    /\ ~Filling => Known = Held
    /\ Filling => Known = Held \cup {Entry(msg.dev, msg.nwk)}
  BY DEF Known

LEMMA QueueStep ==
    ASSUME Typed, HandlerInv, RegistryInv, QueueInv, OnAreq
    PROVE  QueueInv'
<1> DEFINE m == Head(areqs)
<1>1. CASE JoinSlot
  <2>1. /\ pc = "idle" /\ pc' = "ieee" /\ msg' = m /\ areqs # <<>>
        /\ areqs' = Tail(areqs) /\ net' = net /\ trouble' = trouble
        /\ credited' = credited
    BY <1>1 DEF JoinSlot, Receive
  <2>2. m.kind = "join"
    BY <1>1, ReceiveTyped DEF JoinSlot
  <2>3. Held' = NotOf(Held, m.dev)
    BY <1>1, JoinSlotOthers, HeldWithout
  <2>4. Known = Held /\ Known' = Held' \cup {Entry(m.dev, m.nwk)}
    BY <2>1, KnownIdle DEF Filling, Known
  <2>5. \A e : e \in Known' <=> Absorbed(e)
    BY <2>2, <2>3, <2>4 DEF Absorbed, NotOf, Moves
  <2> QED
    BY <2>1, <2>5, QueueTake
<1>2. CASE JoinRefused
  <2>1. /\ pc = "idle" /\ areqs # <<>> /\ areqs' = Tail(areqs) /\ net' = net
        /\ trouble' = trouble \cup {"full"} /\ credited' = credited /\ Still
        /\ WithIeee(m.dev) = {} /\ m.kind = "join"
    BY <1>2 DEF JoinRefused, Receive, registry, told, handler, Still
  <2>2. Known' = Known /\ Known = Held /\ Others = Active
    BY <2>1, StillOthers, KnownIdle DEF Filling, Others
  <2>3. \A e \in Held : e.ieee # m.dev
    BY <2>1, <2>2, HeldSlots DEF WithIeee
  <2>5. \A e \in Known' : Absorbed(e)
    BY <2>1, <2>2, <2>3 DEF Absorbed, Moves
  <2>6. NetInv'
    BY <2>1 DEF QueueInv, NetInv, Away
  <2>7. Lossless' => Lossless /\ Ordered'
    BY <2>1, <2>5, OrderedTake DEF QueueInv, Ordered, Lossless
  <2> QED
    BY <2>1, <2>6, <2>7 DEF QueueInv, Ordered
<1>3. CASE JoinIeee
  <2>1. Held' = Held
    BY <1>3, JoinIeeeOthers, HeldKept
  <2>2. Known' = Known
    BY <1>3, <2>1 DEF JoinIeee, Known, Filling
  <2> QED
    BY <1>3, <2>2, QueueSame DEF JoinIeee
<1>4. CASE JoinNwk
  <2>1. Held' = Held \cup {Entry(msg.dev, msg.nwk)}
    BY <1>4, JoinNwkOthers, HeldAdds
  <2>2. Known' = Known
    BY <1>4, <2>1 DEF JoinNwk, Known, Filling
  <2> QED
    BY <1>4, <2>2, QueueSame DEF JoinNwk
<1>5. CASE OpenFile \/ WriteFile \/ SaveFails \/ EmitJoined \/ DeleteFile \/ EmitLeft
  <2>1. Held' = Held /\ ~Filling /\ ~Filling'
    BY <1>5, SaveOthers, HeldKept DEF Kept
  <2>2. Known' = Known
    BY <2>1 DEF Known
  <2>3. /\ areqs' = areqs /\ net' = net /\ credited' = credited
        /\ trouble \subseteq trouble'
    BY <1>5 DEF OpenFile, WriteFile, SaveFails, EmitJoined, DeleteFile, EmitLeft
  <2> QED
    BY <2>2, <2>3, QueueSame
<1>6. CASE LeaveSlot
  <2>1. /\ pc = "idle" /\ pc' = "delete" /\ areqs # <<>>
        /\ areqs' = Tail(areqs) /\ net' = net /\ trouble' = trouble
        /\ credited' = credited
    BY <1>6 DEF LeaveSlot, Receive
  <2>2. m.kind = "leave"
    BY <1>6, ReceiveTyped DEF LeaveSlot
  <2>3. Held' = NotOf(Held, m.dev)
    BY <1>6, LeaveSlotOthers, HeldWithout
  <2>4. Known = Held /\ Known' = Held'
    BY <2>1 DEF Filling, Known
  <2>5. \A e : e \in Known' <=> Absorbed(e)
    BY <2>2, <2>3, <2>4 DEF Absorbed, NotOf, Moves
  <2> QED
    BY <2>1, <2>5, QueueTake
<1>7. CASE AfIncoming \/ SimpleDescRsp
  <2>1. /\ pc = "idle" /\ pc' \in {"idle", "open"} /\ areqs # <<>>
        /\ areqs' = Tail(areqs) /\ net' = net /\ trouble' = trouble
    BY <1>7 DEF AfIncoming, SimpleDescRsp, Receive, handler
  <2>2. m.kind \in {"report", "desc"} /\ m.nwk \in Addresses
    BY <1>7, ReceiveTyped DEF AfIncoming, SimpleDescRsp
  <2>3. Held' = Held
    BY <1>7, LearnOthers, HeldKept
  <2>4. Known = Held /\ Known' = Held
    BY <2>1, <2>3 DEF Filling, Known
  <2>5. \A e : e \in Known' <=> Absorbed(e)
    BY <2>2, <2>4 DEF Absorbed, Moves
  <2>6. Lossless => credited' = credited \/ credited'[1] = credited'[2]
    <3>1. CASE SimpleDescRsp
      BY <3>1 DEF SimpleDescRsp
    <3>2. CASE AfIncoming
      <4>1. CASE WithNwk(m.nwk) = {}
        BY <3>2, <4>1 DEF AfIncoming
      <4>2. ASSUME WithNwk(m.nwk) # {}, Lossless
            PROVE  credited'[1] = credited'[2]
        <5> DEFINE f == First(WithNwk(m.nwk))
        <5>1. f \in Others /\ slot[f].nwk = m.nwk
          BY <2>1, <4>2, SenderSlot DEF Others, Filling, Active
        <5>2. credited' = <<m.dev, slot[f].ieee>>
          BY <3>2, <4>2 DEF AfIncoming
        <5>3. Entry(slot[f].ieee, slot[f].nwk) \in Known
          BY <2>4, <5>1, HeldSlots
        <5>4. m = areqs[1] /\ 1 \in 1 .. Len(areqs) /\ 1 .. 1 - 1 = {}
          BY <2>1, TakeHead DEF Typed, QueueTyped
        <5>5. m.kind = "report"
          BY <3>2, ReceiveTyped DEF AfIncoming
        <5>6. slot[f].ieee = m.dev
          BY <4>2, <5>1, <5>3, <5>4, <5>5, EntryFields DEF QueueInv, SenderInv
        <5> QED
          BY <5>2, <5>6
      <4> QED
        BY <4>1, <4>2
    <3> QED
      BY <1>7, <3>1, <3>2
  <2> QED
    BY <2>1, <2>5, <2>6, QueueTake DEF Lossless
<1> QED
  BY <1>1, <1>2, <1>3, <1>4, <1>5, <1>6, <1>7 DEF OnAreq

\* What the registry knows of an address in use is a device.
LEMMA KnownType ==
    ASSUME Typed, HandlerInv, RegistryInv, NEW e \in Known, e.nwk \in Addresses
    PROVE  e.ieee \in Devices
<1>1. CASE e \in Held
  <2>1. NoEntry.nwk = Zero
    BY EntryFields DEF NoEntry
  <2> QED
    BY <1>1, <2>1, HeldType, DeviceAssumption
<1>2. CASE e \notin Held
  BY <1>2, KnownIdle, EntryFields DEF HandlerInv, Filling
<1> QED
  BY <1>1, <1>2

LEMMA QueueNetwork ==
    ASSUME Typed, HandlerInv, RegistryInv, QueueInv, Network
    PROVE  QueueInv'
<1>0. PICK d \in Devices :
          \/ \E a \in Addresses : Announce(d, a)
          \/ Leaves(d)
          \/ \E kind \in {"report", "desc"}, c \in CapsOf[d] : Sends(d, kind, c)
  BY DEF Network
<1>1. ASSUME NEW m \in Messages, m.dev = d, m.kind \in {"join", "leave"}, Post(m),
             Known' = Known, credited' = credited,
             net' = [net EXCEPT ![d] = IF m.kind = "join" THEN m.nwk ELSE Away],
             m.kind = "join" => \A e \in Devices \ {d} : net[e] # m.nwk
      PROVE  QueueInv'
  <2>1. NetInv'
    <3>1. \A e \in Devices : net'[e] = IF e # d THEN net[e]
                                       ELSE IF m.kind = "join" THEN m.nwk ELSE Away
      BY <1>1 DEF Typed, NetTyped
    <3> QED
      BY <1>1, <3>1 DEF QueueInv, NetInv, Away
  <2>2. CASE Len(areqs) < AreqDepth
    <3>1. areqs' = Append(areqs, m) /\ trouble' = trouble
      BY <1>1, <2>2 DEF Post
    <3> QED
      BY <1>1, <2>1, <3>1, OrderedMove DEF QueueInv, Ordered, Lossless
  <2>3. CASE ~(Len(areqs) < AreqDepth)
    <3>1. "overflow" \in trouble'
      BY <1>1, <2>3 DEF Post
    <3> QED
      BY <2>1, <3>1 DEF QueueInv, Lossless
  <2> QED
    BY <2>2, <2>3
<1>2. ASSUME NEW a \in Addresses, Announce(d, a) PROVE QueueInv'
  <2> DEFINE m == Message("join", d, a, {})
  <2>1. m \in Messages /\ m.dev = d /\ m.kind = "join" /\ m.nwk = a
    BY DEF Message, Messages
  <2>2. Still /\ credited' = credited /\ net' = [net EXCEPT ![d] = a] /\ Post(m)
        /\ \A e \in Devices \ {d} : net[e] # a
    BY <1>2 DEF Announce, Still, registry, told, handler
  <2>3. Known' = Known
    BY <2>2, StillOthers
  <2> HIDE DEF m
  <2> QED
    BY <1>1, <2>1, <2>2, <2>3
<1>3. ASSUME Leaves(d) PROVE QueueInv'
  <2> DEFINE m == Message("leave", d, net[d], {})
  <2>1. m \in Messages /\ m.dev = d /\ m.kind = "leave"
    BY <1>3 DEF Leaves, Message, Messages, Typed, NetTyped
  <2>2. Still /\ credited' = credited /\ net' = [net EXCEPT ![d] = Away] /\ Post(m)
    BY <1>3 DEF Leaves, Still, registry, told, handler
  <2>3. Known' = Known
    BY <2>2, StillOthers
  <2> HIDE DEF m
  <2> QED
    BY <1>1, <2>1, <2>2, <2>3
<1>4. ASSUME NEW kind \in {"report", "desc"}, NEW c \in CapsOf[d], Sends(d, kind, c)
      PROVE  QueueInv'
  <2> DEFINE m == Message(kind, d, net[d], {c})
  <2>1. m \in Messages /\ m.dev = d /\ m.kind = kind /\ m.nwk = net[d]
    BY <1>4, DeviceAssumption DEF Sends, Message, Messages, Typed, NetTyped
  <2>2. /\ Still /\ credited' = credited /\ net' = net /\ trouble' = trouble
        /\ net[d] # Away /\ areqs' = Append(areqs, m)
    BY <1>4 DEF Sends, Still, registry, told, handler
  <2>3. Known' = Known
    BY <2>2, StillOthers
  <2> HIDE DEF m
  <2>4. kind \notin {"join", "leave"}
    OBVIOUS
  <2>5. (Ordered => Ordered') /\ (Complete => Complete')
    BY <2>1, <2>2, <2>3, <2>4, KnownType, OrderedSend DEF QueueInv
  <2>6. NetInv'
    BY <2>2 DEF QueueInv, NetInv, Away
  <2> QED
    BY <2>2, <2>5, <2>6 DEF QueueInv, Ordered, Lossless
<1> QED
  BY <1>0, <1>2, <1>3, <1>4

LEMMA QueueDiscards ==
    ASSUME Typed, QueueInv, StartupDiscards
    PROVE  QueueInv'
<1>1. /\ areqs # <<>> /\ areqs' = Tail(areqs) /\ net' = net /\ Still
      /\ credited' = credited
      /\ trouble' = IF Head(areqs).kind \in {"join", "leave"}
                    THEN trouble \cup {"discard"} ELSE trouble
  BY DEF StartupDiscards, registry, told, handler, Still
<1>2. Known' = Known
  BY <1>1, StillOthers
<1>3. Lossless' => Head(areqs).kind \notin {"join", "leave"}
  BY <1>1 DEF Lossless
<1>4. Lossless' => \A e : e \in Known' <=> Absorbed(e)
  BY <1>2, <1>3 DEF Absorbed, Moves
<1> QED
  BY <1>1, <1>4, QueueTake

\* Between two AREQs the files say what the slots do.
LEMMA HeldStored ==
    ASSUME DiskInv, pc = "idle", "io" \notin trouble
    PROVE  Stored = Held
<1>1. \A d \in Devices : Book(disk[d]) = OfDevice(Held, d)
  BY DEF DiskInv, Saving, Changing
<1>2. \A e \in Held : e.ieee \in Devices
  BY DEF DiskInv
<1>3. \A e \in Stored : \E d \in Devices : e \in Book(disk[d])
  BY DEF Stored, Files, Book
<1>4. \A d \in Devices : Book(disk[d]) \subseteq Stored
  BY DEF Stored, Files, Book
<1>5. \A e \in Stored : e \in Held
  BY <1>1, <1>3 DEF OfDevice
<1>6. \A e \in Held : e \in Stored
  BY <1>1, <1>2, <1>4 DEF OfDevice
<1> QED
  BY <1>5, <1>6

\* A restart with nothing on its way brings back the registry there was.
LEMMA QueueRestart ==
    ASSUME Typed, HandlerInv, RegistryInv, DiskInv, QueueInv, Restart
    PROVE  QueueInv'
<1>1. /\ trouble' = trouble \cup RestartLoses /\ areqs' = <<>> /\ net' = net
      /\ credited' = credited /\ pc' = "idle"
  BY DEF Restart
<1>2. CASE "restart" \in trouble'
  <2>1. NetInv'
    BY <1>1 DEF QueueInv, NetInv, Away
  <2> QED
    BY <1>2, <2>1 DEF QueueInv, Lossless
<1>3. CASE "restart" \notin trouble'
  <2>1. pc = "idle" /\ areqs = <<>> /\ "io" \notin trouble
    BY <1>1, <1>3 DEF RestartLoses
  <2>2. Held' = Stored
    BY <2>1, RestartHeld
  <2>3. Stored = Held
    BY <2>1, HeldStored
  <2>4. Known' = Known
    BY <1>1, <2>1, <2>2, <2>3 DEF Known, Filling
  <2> QED
    BY <1>1, <2>1, <2>4, QueueSame
<1> QED
  BY <1>2, <1>3

-----------------------------------------------------------------------------
(* The invariant is inductive *)

Inv == Typed /\ HandlerInv /\ RegistryInv /\ EventsInv /\ DiskInv /\ ReaderInv
         /\ QueueInv

LEMMA InitInv == Init => Inv
<1> SUFFICES ASSUME Init PROVE Inv
  OBVIOUS
<1>1. pc = "idle" /\ Active = {}
  BY DEF Init, Active, Free
<1>2. Others = {} /\ Held = {} /\ Known = {}
  BY <1>1 DEF Others, Held, Known, Filling
<1>3. HandlerInv /\ RegistryInv
  BY <1>1, <1>2 DEF HandlerInv, RegistryInv, Filling
<1>4. EventsInv
  BY <1>1, <1>2 DEF Init, EventsInv, Heard
<1>5. DiskInv
  <2>1. \A d \in Devices : disk[d] = {}
    BY DEF Init
  <2> QED
    BY <1>1, <1>2, <2>1 DEF DiskInv, FileShape, OfDevice, Book
<1>6. ReaderInv
  BY DEF Init, ReaderInv, IdleReader
<1>7. QueueInv
  <2>1. areqs = <<>> /\ Len(areqs) = 0 /\ credited[1] = credited[2]
    BY DEF Init
  <2>2. \A d \in Devices : net[d] = Away
    BY DEF Init
  <2> QED
    BY <1>2, <2>1, <2>2
       DEF QueueInv, NetInv, Current, LastMove, SenderInv, Complete
<1> QED
  BY <1>3, <1>4, <1>5, <1>6, <1>7, InitTyped DEF Inv

\* Steps of others leave what the handler works on alone.
LEMMA StillInv ==
    ASSUME Inv, Still, UNCHANGED <<disk, told>>,
           trouble \subseteq trouble', "io" \in trouble' => "io" \in trouble
    PROVE  HandlerInv' /\ RegistryInv' /\ EventsInv' /\ DiskInv'
<1>1. Others' = Others /\ Held' = Held /\ (Filling' <=> Filling)
  BY StillOthers
<1>2. HandlerInv' /\ RegistryInv'
  BY <1>1 DEF Inv, Still, HandlerInv, RegistryInv
<1>3. EventsInv'
  BY <1>1 DEF Inv, Still, EventsInv, Heard, told, Changing
<1>4. DiskInv'
  BY <1>1 DEF Inv, Still, DiskInv, FileShape, Saving, Changing
<1> QED
  BY <1>2, <1>3, <1>4

LEMMA StepInv == Inv /\ [Next]_vars => Inv'
<1> SUFFICES ASSUME Inv, [Next]_vars PROVE Inv'
  OBVIOUS
<1>1. Typed'
  BY StepTyped DEF Inv
<1>2. CASE OnAreq
  BY <1>1, <1>2, HandlerStep, RegistryStep, EventsStep, DiskStep, ReaderStep, QueueStep
     DEF Inv
<1>3. CASE Network
  <2>1. Still /\ UNCHANGED <<disk, told, reader>>
    BY <1>3 DEF Network, Announce, Leaves, Sends, registry, handler, Still
  <2>2. trouble \subseteq trouble' /\ ("io" \in trouble' => "io" \in trouble)
    <3>1. ASSUME NEW m, Post(m)
          PROVE  trouble' \in {trouble, trouble \cup {"overflow"}}
      BY <3>1 DEF Post
    <3>2. trouble' \in {trouble, trouble \cup {"overflow"}}
      BY <1>3, <3>1 DEF Network, Announce, Leaves, Sends
    <3> QED
      BY <3>2
  <2>3. ReaderInv'
    BY <2>1, StillOthers, ReaderSame DEF Inv, Still, Kept
  <2> QED
    BY <1>1, <1>3, <2>1, <2>2, <2>3, StillInv, QueueNetwork DEF Inv
<1>4. CASE Lookup
  <2>1. Still /\ UNCHANGED <<disk, told, trouble, areqs, net, credited>>
    BY <1>4 DEF Lookup, ReadNwk, FindDevice, registry, handler, Still
  <2> QED
    BY <1>1, <1>4, <2>1, StillInv, StillOthers, ReaderLookup, QueueSame DEF Inv
<1>5. CASE LeaveReady \/ EnterReady \/ UNCHANGED vars
  <2>1. Still /\ UNCHANGED <<disk, told, trouble, areqs, net, credited, reader>>
    BY <1>5 DEF LeaveReady, EnterReady, vars, registry, handler, Still
  <2> QED
    BY <1>1, <2>1, StillInv, StillOthers, ReaderSame, QueueSame DEF Inv, Still, Kept
<1>6. CASE FormNetwork
  <2>1. Still /\ UNCHANGED <<disk, told, areqs, credited, reader>>
    BY <1>6 DEF FormNetwork, registry, handler, Still
  <2>2. net' = [d \in Devices |-> Away] /\ trouble' = trouble \cup {"reformed"}
    BY <1>6 DEF FormNetwork
  <2>3. trouble \subseteq trouble' /\ ("io" \in trouble' => "io" \in trouble)
    BY <2>2
  <2>4. ReaderInv'
    BY <2>1, StillOthers, ReaderSame DEF Inv, Still, Kept
  <2>5. QueueInv'
    <3>1. NetInv'
      BY <2>2 DEF NetInv, Away
    <3> QED
      BY <2>2, <3>1 DEF QueueInv, Lossless
  <2> QED
    BY <1>1, <2>1, <2>3, <2>4, <2>5, StillInv DEF Inv
<1>8. CASE StartupDiscards
  <2>1. Still /\ UNCHANGED <<disk, told, reader>>
    BY <1>8 DEF StartupDiscards, registry, handler, Still
  <2>2. trouble \subseteq trouble' /\ ("io" \in trouble' => "io" \in trouble)
    BY <1>8 DEF StartupDiscards
  <2>3. ReaderInv'
    BY <2>1, StillOthers, ReaderSame DEF Inv, Still, Kept
  <2> QED
    BY <1>1, <1>8, <2>1, <2>2, <2>3, StillInv, QueueDiscards DEF Inv
<1>7. CASE Restart
  <2>1. ReaderInv'
    BY <1>7 DEF Restart, ReaderInv, IdleReader
  <2> QED
    BY <1>1, <1>7, <2>1, RestartRegistry, RestartDisk, QueueRestart DEF Inv, DiskInv
<1> QED
  BY <1>2, <1>3, <1>4, <1>5, <1>6, <1>7, <1>8 DEF Next

LEMMA Invariant == Spec => []Inv
  BY InitInv, StepInv, PTL DEF Spec

-----------------------------------------------------------------------------
(* The properties *)

LEMMA IdleEntries == ASSUME pc = "idle" PROVE Entries = Held
  BY DEF Entries, Held, Others, Filling

LEMMA HeldInEntries == Held \subseteq Entries
  BY DEF Entries, Held, Others

\* Between two AREQs the files hold the devices of the registry at their
\* addresses and no others, whatever joined, moved, left or restarted before,
\* while no access to a file has failed. Capabilities are not among what is
\* compared: CapsOnDisk does not hold.
THEOREM RegistryIsOnDisk == Spec => []RegistryOnDisk
<1>1. Inv => RegistryOnDisk
  <2> SUFFICES ASSUME Inv, pc = "idle", "io" \notin trouble PROVE Entries = Stored
    BY DEF RegistryOnDisk
  <2> QED
    BY IdleEntries, HeldStored DEF Inv
<1> QED
  BY <1>1, Invariant, PTL

\* The join and leave events since the boot, put on what the boot loaded, give
\* the registry as it is, whether or not the files can be written, as long as the
\* notify queue dropped none of them (FR-5.4).
THEOREM EventsTell == Spec => []EventsTellRegistry
<1>1. Inv => EventsTellRegistry
  <2> SUFFICES ASSUME Inv, pc = "idle", ~eventLost PROVE Entries = seen \cup booted
    BY DEF EventsTellRegistry
  <2>1. Heard \subseteq Entrys /\ Held \subseteq Entrys
    BY HeldType DEF Inv, Typed, RestTyped, Heard
  <2>2. \A e \in Entrys : e \in Heard <=> e \in Held
    BY DEF Inv, EventsInv, Changing
  <2> QED
    BY <2>1, <2>2, IdleEntries DEF Heard
<1> QED
  BY <1>1, Invariant, PTL

\* An attribute report is credited to the device that sent it as long as no join
\* or leave was lost and the network not formed anew, although another device may
\* have had its address before.
THEOREM ReportsCredited == Spec => []ReportsNameSender
<1>1. Inv => ReportsNameSender
  BY DEF Inv, QueueInv, Lossless, ReportsNameSender
<1> QED
  BY <1>1, Invariant, PTL

\* With nothing lost, the network not formed anew and nothing left to do, the
\* registry holds every device of the network at its address, and no other.
THEOREM RegistryIsNetwork == Spec => []RegistryFollowsNetwork
<1>1. Inv => RegistryFollowsNetwork
  <2> SUFFICES ASSUME Inv, pc = "idle", areqs = <<>>, trouble = {},
                      NEW d \in Devices, NEW a \in Addresses
               PROVE  net[d] = a <=> Entry(d, a) \in Entries
    BY DEF RegistryFollowsNetwork, InStep
  <2>1. Known = Entries
    BY IdleEntries, KnownIdle DEF Filling
  <2>2. ~Moving(d)
    BY DEF Moving
  <2>3. a # Away
    BY DeviceAssumption DEF Away
  <2>4. Current /\ Complete
    BY DEF Inv, QueueInv, Lossless
  <2>5. Entry(d, a).ieee = d /\ Entry(d, a).nwk = a
    BY EntryFields
  <2> QED
    BY <2>1, <2>2, <2>3, <2>4, <2>5 DEF Current, Complete
<1> QED
  BY <1>1, Invariant, PTL

\* A lookup without s_mutex finds the address of a device that is not joining or
\* leaving meanwhile, whatever the handler does to other slots.
THEOREM LookupIsSettled == Spec => []LookupSettled
<1>1. Inv => LookupSettled
  <2> SUFFICES ASSUME Inv, NEW r \in Readers,
                      reader[r].pc = "done" /\ reader[r].steady
               PROVE  Entry(reader[r].dev, reader[r].nwk) \in Entries
    BY DEF LookupSettled
  <2>1. /\ reader[r].slot \in Others
        /\ slot[reader[r].slot].ieee = reader[r].dev
        /\ slot[reader[r].slot].nwk = reader[r].nwk
    BY DEF Inv, ReaderInv
  <2> QED
    BY <2>1, HeldSlots, HeldInEntries
<1> QED
  BY <1>1, Invariant, PTL
=============================================================================
