------------------------- MODULE ZbFrameworkProofs -------------------------
(***************************************************************************)
(* Theorems about ZbFramework, for every value of its constants.           *)
(***************************************************************************)
EXTENDS ZbFramework, TLAPS

\* Where the task is past NETWORK_CHECK and the NV it saw or wrote agrees
\* with what it wants.
NvSettled == {"startup", "wait", "save", "enterReady",
              "commands", "changeChannel", "receive"}

\* The state that is reported follows from where the task is; "reset" is
\* reached from everywhere and keeps the state it was reached with.
StateFollowsPc ==
    /\ pc \in {"pulse", "resetWait", "ping", "register", "load"} => s_state = "ZNP_INIT"
    /\ pc \in {"readPan", "readChannel"} => s_state = "NETWORK_CHECK"
    /\ pc = "clear" => s_state = "RECONFIGURING"
    /\ pc \in {"form", "startup", "wait", "save", "enterReady"} => s_state = "FORMING"
    /\ InReady => s_state = "READY"
    /\ pc = "halted" => s_state # "READY"

\* Applications hear READY exactly while the READY loop runs, and only then
\* is the join window open.
EventsFollowPc ==
    /\ announced = "READY" <=> InReady
    /\ joinWindow # "closed" => InReady

\* After load_net_config() the parameters are set, and published.
WantFollowsPc ==
    pc \in NvSettled \cup {"readPan", "readChannel", "clear", "form"} =>
        /\ want.pan \in Pans /\ want.channel \in Channels
        /\ active = Active(want)

\* What NV holds at each point of NETWORK_CHECK, FORMING and after, unless an
\* SRSP that came too late may have been taken for that of a lost write.
NvFollowsPc ==
    /\ pc = "readChannel" => nvPan \in {nv.PANID, Zero, Absent}
    /\ pc = "clear" => item <= 3
    /\ late > 0 => slow
    /\ pc = "form" /\ ~slow =>
           /\ item > 2 => nv.PANID = want.pan
           /\ item > 3 => nv.CHANLIST = want.channel
    /\ pc \in NvSettled /\ ~slow => nv.PANID = want.pan /\ nv.CHANLIST = want.channel
    /\ s_state = "READY" /\ ~slow
           => nv.PANID = active.pan /\ nv.CHANLIST = active.channel

IInv == StateFollowsPc /\ EventsFollowPc /\ WantFollowsPc /\ NvFollowsPc

-----------------------------------------------------------------------------
(* Type correctness *)

LEMMA DataFacts ==
    /\ ZeroConfig \in NetConfig
    /\ Active(ZeroConfig) \in [pan : PanValues, channel : ChannelValues]
    /\ EmptyNv \in NvContents
    /\ \A file \in NetConfig \cup {Absent} :
           /\ LoadNetConfig(file) \in [pan : Pans, channel : Channels, key : Keys]
           /\ LoadNetConfig(file) \in NetConfig
    /\ \A w \in NetConfig :
           Active(w) \in [pan : PanValues, channel : ChannelValues]
BY FrameworkAssumption
   DEF ZeroConfig, NetConfig, PanValues, ChannelValues, KeyValues, Active, EmptyNv,
       NvContents, LoadNetConfig, OrDefault

LEMMA OrderFacts == Len(FormOrder) = 5 /\ Len(ClearOrder) = 3
BY DEF FormOrder, ClearOrder

LEMMA BoundFacts ==
    /\ AreqDepth \in Nat \ {0} /\ CmdDepth \in Nat \ {0}
    /\ MaxInitRetries \in Nat /\ MaxFaults \in Nat /\ MaxEvents \in Nat
BY FrameworkAssumption

LEMMA InitTypeOK == Init => TypeOK
<1> SUFFICES ASSUME Init PROVE TypeOK
  OBVIOUS
<1>1. TaskTypeOK
  <2>1. want \in NetConfig /\ loaded \in NetConfig
    BY DataFacts DEF Init
  <2>2. retry \in 0 .. MaxInitRetries
    BY BoundFacts DEF Init
  <2>3. item \in 1 .. Len(FormOrder)
    BY OrderFacts DEF Init
  <2>4. /\ pc \in PcValues /\ nvPan \in PanValues \cup {Absent}
        /\ resuming \in BOOLEAN /\ latePan \in BOOLEAN
    BY DEF Init, PcValues, PanValues
  <2>5. QED
    BY <2>1, <2>2, <2>3, <2>4 DEF TaskTypeOK
<1>2. PublicTypeOK
  BY DataFacts DEF Init, PublicTypeOK, States, Windows
<1>3. QueueTypeOK
  <2>1. cmdQueue = <<>>
    BY DEF Init
  <2>2. areqQueue = <<>>
    BY DEF Init
  <2>3. cmdQueue \in Seq(Command) /\ Len(cmdQueue) <= CmdDepth
    BY <2>1, BoundFacts
  <2>4. areqQueue \in Seq(Areq) /\ Len(areqQueue) <= AreqDepth
    BY <2>2, BoundFacts
  <2>5. QED
    BY <2>3, <2>4 DEF Init, QueueTypeOK
<1>4. WorldTypeOK
  <2>1. config \in NetConfig \cup {Absent}
    <3>1. config \in [pan : Pans, channel : Channels, key : Keys] \cup {Absent}
      BY DEF Init
    <3>2. QED
      BY <3>1 DEF NetConfig, PanValues, ChannelValues, KeyValues
  <2>2. nv \in NvContents
    <3>1. nv = EmptyNv \/ nv \in [PANID : Pans, CHANLIST : Channels, PRECFGKEY : Keys]
      BY DEF Init
    <3>2. QED
      BY <3>1, DataFacts DEF NvContents, PanValues, ChannelValues, KeyValues
  <2>3. QED
    <3>1. late \in Nat /\ slow \in BOOLEAN
      BY DEF Init
    <3>2. /\ faults \in 0 .. MaxFaults /\ events \in 0 .. MaxEvents
          /\ setting \in NetConfig \cup {Absent}
          /\ chip \in {"booting", "idle", "starting", "coord"}
      BY BoundFacts DEF Init
    <3>3. QED
      BY <2>1, <2>2, <3>1, <3>2 DEF WorldTypeOK
<1>5. QED
  BY <1>1, <1>2, <1>3, <1>4 DEF TypeOK

\* What the helper operators do to the types.

LEMMA FaultTypes ==
    ASSUME WorldTypeOK, Fault \/ NoFault \/ Answered \/ Unanswered
    PROVE  faults' \in 0 .. MaxFaults
BY BoundFacts DEF WorldTypeOK, Fault, NoFault, Answered, Unanswered

LEMMA RetryTypes ==
    ASSUME TaskTypeOK, pc # "halted", RetryOrHalt
    PROVE  /\ pc' \in {"reset", "halted"}
           /\ \/ retry' \in 0 .. MaxInitRetries
              \/ retry' = MaxInitRetries + 1 /\ pc' = "halted"
BY BoundFacts DEF TaskTypeOK, RetryOrHalt

LEMMA PostTypes ==
    ASSUME QueueTypeOK, NEW frame \in Areq, Post(frame)
    PROVE  /\ areqQueue' \in Seq(Areq) /\ Len(areqQueue') <= AreqDepth
           /\ resetLost' \in BOOLEAN
<1>1. CASE Len(areqQueue) < AreqDepth
  BY <1>1, BoundFacts DEF QueueTypeOK, Post
<1>2. CASE ~(Len(areqQueue) < AreqDepth)
  BY <1>2, BoundFacts DEF QueueTypeOK, Post
<1>3. QED
  BY <1>1, <1>2

LEMMA WriteTypes ==
    ASSUME WorldTypeOK, NEW i, NEW value, NEW ok \in BOOLEAN, WriteNv(i, value, ok),
           i = "PANID" => value \in PanValues,
           i = "CHANLIST" => value \in ChannelValues,
           i = "PRECFGKEY" => value \in KeyValues
    PROVE  /\ nv' \in NvContents /\ faults' \in 0 .. MaxFaults
           /\ late' \in Nat /\ slow' \in BOOLEAN
<1>1. faults' \in 0 .. MaxFaults
  BY FaultTypes DEF WriteNv
<1>2. nv' \in NvContents
  <2>1. nv \in NvContents
    BY DEF WorldTypeOK
  <2>2. nv' = nv \/ (i \in DOMAIN nv /\ nv' = [nv EXCEPT ![i] = value])
    BY DEF WriteNv, memory
  <2>3. CASE nv' = nv
    BY <2>1, <2>3
  <2>4. CASE i \in DOMAIN nv /\ nv' = [nv EXCEPT ![i] = value]
    <3>1. i \in {"PANID", "CHANLIST", "PRECFGKEY"}
      BY <2>1, <2>4 DEF NvContents
    <3>2. CASE i = "PANID"
      BY <2>1, <2>4, <3>2 DEF NvContents
    <3>3. CASE i = "CHANLIST"
      BY <2>1, <2>4, <3>3 DEF NvContents
    <3>4. CASE i = "PRECFGKEY"
      BY <2>1, <2>4, <3>4 DEF NvContents
    <3>5. QED
      BY <3>1, <3>2, <3>3, <3>4
  <2>5. QED
    BY <2>2, <2>3, <2>4
<1>3. late' \in Nat
  <2>1. /\ late \in Nat
        /\ late' \in 0 .. late \/ late' = late + 1 \/ late' \in 0 .. late - 1
    BY DEF WriteNv, WorldTypeOK, memory
  <2>2. QED
    BY <2>1
<1>4. slow' \in BOOLEAN
  BY DEF WriteNv, WorldTypeOK, memory
<1>5. QED
  BY <1>1, <1>2, <1>3, <1>4

LEMMA NextTypeOK == TypeOK /\ [Next]_vars => TypeOK'
<1> SUFFICES ASSUME TypeOK, [Next]_vars PROVE TypeOK'
  OBVIOUS
<1> USE DEF TypeOK
<1>1. CASE ZnpInit
  <2>1. TaskTypeOK'
    BY <1>1 DEF ZnpInit, TaskTypeOK, PcValues, locals
  <2>2. PublicTypeOK'
    BY <1>1 DEF ZnpInit, PublicTypeOK, States
  <2>3. QueueTypeOK'
    BY <1>1 DEF ZnpInit, QueueTypeOK
  <2>4. WorldTypeOK'
    BY <1>1 DEF ZnpInit, WorldTypeOK, store, copro, memory
  <2>5. QED
    BY <2>1, <2>2, <2>3, <2>4
<1>2. CASE PulseReset
  BY <1>2, BoundFacts, DataFacts, OrderFacts, FaultTypes, RetryTypes
  DEF PulseReset, TaskTypeOK, PublicTypeOK, QueueTypeOK, WorldTypeOK, PcValues, States, Windows,
      task, locals, public, areqs, store, copro, memory
<1>3. CASE ResetHeard
  <2>1. TaskTypeOK'
    BY <1>3 DEF ResetHeard, TaskTypeOK, PcValues, task, locals, public, areqs, store, copro, memory
  <2>2. PublicTypeOK'
    BY <1>3 DEF ResetHeard, PublicTypeOK, task, locals, public, areqs, store, copro, memory
  <2>3. QueueTypeOK'
    BY <1>3 DEF ResetHeard, QueueTypeOK, task, locals, public, areqs, store, copro, memory
  <2>4. WorldTypeOK'
    BY <1>3 DEF ResetHeard, WorldTypeOK, task, locals, public, areqs, store, copro, memory
  <2>5. QED
    BY <2>1, <2>2, <2>3, <2>4
<1>4. CASE ResetTimeout
  BY <1>4, BoundFacts, DataFacts, OrderFacts, FaultTypes, RetryTypes
  DEF ResetTimeout, TaskTypeOK, PublicTypeOK, QueueTypeOK, WorldTypeOK, PcValues, States, Windows,
      task, locals, public, areqs, store, copro, memory
<1>5. CASE Ping
  BY <1>5, BoundFacts, DataFacts, OrderFacts, FaultTypes, RetryTypes
  DEF Ping, TaskTypeOK, PublicTypeOK, QueueTypeOK, WorldTypeOK, PcValues, States, Windows,
      task, locals, public, areqs, store, copro, memory
<1>6. CASE Register
  BY <1>6, BoundFacts, DataFacts, OrderFacts, FaultTypes, RetryTypes
  DEF Register, TaskTypeOK, PublicTypeOK, QueueTypeOK, WorldTypeOK, PcValues, States, Windows,
      task, locals, public, areqs, store, copro, memory
<1>7. CASE LoadConfig
  BY <1>7, BoundFacts, DataFacts, OrderFacts, FaultTypes, RetryTypes
  DEF LoadConfig, TaskTypeOK, PublicTypeOK, QueueTypeOK, WorldTypeOK, PcValues, States, Windows,
      task, locals, public, areqs, store, copro, memory
<1>8. CASE ReadPanId
  <2>1. PICK value \in PanValues \cup {Absent} : ReadNv("PANID", value) /\ nvPan' = value
    BY <1>8 DEF ReadPanId
  <2>2. faults' \in 0 .. MaxFaults
    BY <2>1, FaultTypes DEF ReadNv
  <2>3. nvPan' \in PanValues \cup {Absent}
    BY <2>1
  <2>4. QED
    BY <1>8, <2>2, <2>3
    DEF ReadPanId, TaskTypeOK, PublicTypeOK, QueueTypeOK, WorldTypeOK, PcValues,
        public, areqs, store, copro, memory
<1>9. CASE ReadChanlist
  <2>1. faults' \in 0 .. MaxFaults
    BY <1>9, FaultTypes DEF ReadChanlist, ReadNv
  <2>2. TaskTypeOK'
    <3>1. /\ pc' \in PcValues /\ resuming' \in BOOLEAN /\ item' = 1
          /\ pc = "readChannel"
      BY <1>9 DEF ReadChanlist, PcValues
    <3>2. latePan' \in BOOLEAN /\ UNCHANGED <<retry, want, nvPan, loaded>>
      BY <1>9 DEF ReadChanlist
    <3>3. item' \in 1 .. Len(FormOrder)
      BY <3>1, OrderFacts
    <3>4. QED
      BY <3>1, <3>2, <3>3 DEF TaskTypeOK
  <2>3. PublicTypeOK'
    BY <1>9 DEF ReadChanlist, PublicTypeOK, States, task, locals, public, areqs, store, copro, memory
  <2>4. QueueTypeOK'
    BY <1>9 DEF ReadChanlist, QueueTypeOK, task, locals, public, areqs, store, copro, memory
  <2>5. WorldTypeOK'
    BY <1>9, <2>1 DEF ReadChanlist, WorldTypeOK, task, locals, public, areqs, store, copro, memory
  <2>6. QED
    BY <2>2, <2>3, <2>4, <2>5
<1>10. CASE ClearNv
  <2>1. /\ nv' \in NvContents /\ faults' \in 0 .. MaxFaults
        /\ late' \in Nat /\ slow' \in BOOLEAN
    <3>1. PICK ok \in BOOLEAN : WriteNv(ClearOrder[item], Zero, ok)
      BY <1>10 DEF ClearNv
    <3>2. QED
      BY <3>1, WriteTypes DEF PanValues, ChannelValues, KeyValues
  <2>2. TaskTypeOK'
    BY <1>10, OrderFacts DEF ClearNv, TaskTypeOK, PcValues, task, locals, public, areqs, store, copro, memory
  <2>3. PublicTypeOK'
    BY <1>10 DEF ClearNv, PublicTypeOK, States, task, locals, public, areqs, store, copro, memory
  <2>4. QueueTypeOK'
    BY <1>10 DEF ClearNv, QueueTypeOK, task, locals, public, areqs, store, copro, memory
  <2>5. WorldTypeOK'
    BY <1>10, <2>1 DEF ClearNv, WorldTypeOK, task, locals, public, areqs, store, copro, memory
  <2>6. QED
    BY <2>2, <2>3, <2>4, <2>5
<1>11. CASE FormNetwork
  <2>1. PICK ok \in BOOLEAN :
           WriteNv(FormOrder[item], IF FormOrder[item] \in DOMAIN FormValue
                                    THEN FormValue[FormOrder[item]] ELSE Zero, ok)
    BY <1>11 DEF FormNetwork
  <2>2. /\ nv' \in NvContents /\ faults' \in 0 .. MaxFaults
        /\ late' \in Nat /\ slow' \in BOOLEAN
    <3> DEFINE i == FormOrder[item]
               value == IF i \in DOMAIN FormValue THEN FormValue[i] ELSE Zero
    <3>1. WriteNv(i, value, ok)
      BY <2>1
    <3>2. /\ i = "PANID" => value \in PanValues
          /\ i = "CHANLIST" => value \in ChannelValues
          /\ i = "PRECFGKEY" => value \in KeyValues
      BY DEF TaskTypeOK, NetConfig, FormValue
    <3> HIDE DEF i, value
    <3>3. QED
      BY <3>1, <3>2, WriteTypes
  <2>3. TaskTypeOK'
    <3>1. CASE RetryOrHalt /\ item' = 1
      BY <3>1, <1>11, OrderFacts, RetryTypes DEF FormNetwork, TaskTypeOK, PcValues, locals
    <3>2. CASE ~(RetryOrHalt /\ item' = 1)
      BY <3>2, <1>11, OrderFacts DEF FormNetwork, TaskTypeOK, PcValues, locals
    <3>3. QED
      BY <3>1, <3>2
  <2>4. PublicTypeOK'
    BY <1>11 DEF FormNetwork, PublicTypeOK, task, locals, public, areqs, store, copro, memory
  <2>5. QueueTypeOK'
    BY <1>11 DEF FormNetwork, QueueTypeOK, task, locals, public, areqs, store, copro, memory
  <2>6. WorldTypeOK'
    BY <1>11, <2>2 DEF FormNetwork, WorldTypeOK, task, locals, public, areqs, store, copro, memory
  <2>7. QED
    BY <2>3, <2>4, <2>5, <2>6
<1>12. CASE StartupFromApp
  <2>1. TaskTypeOK'
    <3>1. CASE RetryOrHalt
      BY <3>1, <1>12, RetryTypes DEF StartupFromApp, TaskTypeOK, PcValues, locals
    <3>2. CASE ~RetryOrHalt
      BY <3>2, <1>12 DEF StartupFromApp, TaskTypeOK, PcValues, locals
    <3>3. QED
      BY <3>1, <3>2
  <2>2. PublicTypeOK'
    BY <1>12 DEF StartupFromApp, PublicTypeOK, task, locals, public, areqs, store, copro, memory
  <2>3. QueueTypeOK'
    BY <1>12 DEF StartupFromApp, QueueTypeOK, task, locals, public, areqs, store, copro, memory
  <2>4. WorldTypeOK'
    <3>1. faults' \in 0 .. MaxFaults
      BY <1>12, FaultTypes DEF StartupFromApp
    <3>2. QED
      BY <3>1, <1>12 DEF StartupFromApp, WorldTypeOK, store, memory
  <2>5. QED
    BY <2>1, <2>2, <2>3, <2>4
<1>13. CASE WaitForCoordinator
  BY <1>13, BoundFacts, DataFacts, OrderFacts, FaultTypes, RetryTypes
  DEF WaitForCoordinator, TaskTypeOK, PublicTypeOK, QueueTypeOK, WorldTypeOK, PcValues, States, Windows,
      task, locals, public, areqs, store, copro, memory
<1>14. CASE WaitTimeout
  BY <1>14, BoundFacts, DataFacts, OrderFacts, FaultTypes, RetryTypes
  DEF WaitTimeout, TaskTypeOK, PublicTypeOK, QueueTypeOK, WorldTypeOK, PcValues, States, Windows,
      task, locals, public, areqs, store, copro, memory
<1>15. CASE SaveNetConfig
  BY <1>15, BoundFacts, DataFacts, OrderFacts, FaultTypes, RetryTypes
  DEF SaveNetConfig, TaskTypeOK, PublicTypeOK, QueueTypeOK, WorldTypeOK, PcValues, States, Windows,
      task, locals, public, areqs, store, copro, memory
<1>16. CASE EnterReady
  BY <1>16, BoundFacts, DataFacts, OrderFacts, FaultTypes, RetryTypes
  DEF EnterReady, TaskTypeOK, PublicTypeOK, QueueTypeOK, WorldTypeOK, PcValues, States, Windows,
      task, locals, public, areqs, store, copro, memory
<1>17. CASE DrainCommands
  <2>1. WorldTypeOK'
    BY <1>17 DEF DrainCommands, WorldTypeOK, store, copro, memory
  <2>2. QueueTypeOK'
    <3>1. CASE cmdQueue = <<>>
      BY <1>17, <3>1 DEF DrainCommands, QueueTypeOK, areqs
    <3>2. CASE cmdQueue # <<>>
      <4>1. Tail(cmdQueue) \in Seq(Command) /\ Len(Tail(cmdQueue)) <= CmdDepth
        BY <3>2, BoundFacts DEF QueueTypeOK
      <4>2. cmdQueue' = Tail(cmdQueue)
        BY <1>17, <3>2 DEF DrainCommands
      <4>3. QED
        BY <1>17, <4>1, <4>2 DEF DrainCommands, QueueTypeOK, areqs
    <3>3. QED
      BY <3>1, <3>2
  <2>3. /\ pc' \in PcValues /\ pc' # "halted"
        /\ pc = "commands"
        /\ UNCHANGED <<retry, item, resuming, want, nvPan, latePan>>
    BY <1>17 DEF DrainCommands, LeaveReady, PcValues
  <2>4. /\ loaded' \in NetConfig
        /\ joinWindow' \in Windows /\ announced' \in {"NONE", "READY", "LOST"}
    <3>1. CASE cmdQueue = <<>>
      BY <1>17, <3>1 DEF DrainCommands, TaskTypeOK, PublicTypeOK
    <3>2. CASE cmdQueue # <<>>
      <4> DEFINE cmd == Head(cmdQueue)
      <4>1. cmd \in Command
        BY <3>2 DEF QueueTypeOK
      <4>2. CASE cmd.type = "PERMIT_JOIN"
        <5>1. cmd.window \in Windows
          BY <4>1, <4>2 DEF Command
        <5>2. QED
          BY <1>17, <3>2, <4>2, <5>1 DEF DrainCommands, TaskTypeOK, PublicTypeOK
      <4>3. CASE cmd.type = "CHANGE_CHANNEL"
        <5>1. cmd.channel \in ChannelValues
          BY <4>1, <4>3 DEF Command, ChannelValues
        <5>2. /\ loaded' = [(IF config = Absent THEN ZeroConfig ELSE config)
                            EXCEPT !.channel = cmd.channel]
              /\ UNCHANGED <<joinWindow, announced>>
          BY <1>17, <3>2, <4>3 DEF DrainCommands
        <5>3. (IF config = Absent THEN ZeroConfig ELSE config) \in NetConfig
          BY DataFacts DEF WorldTypeOK
        <5>4. QED
          BY <5>1, <5>2, <5>3 DEF NetConfig, PublicTypeOK
      <4>4. CASE cmd.type = "RECONFIGURE"
        BY <1>17, <3>2, <4>4
        DEF DrainCommands, LeaveReady, TaskTypeOK, PublicTypeOK, Windows
      <4>5. QED
        BY <1>17, <3>2, <4>2, <4>3, <4>4 DEF DrainCommands
    <3>3. QED
      BY <3>1, <3>2
  <2>5. TaskTypeOK'
    BY <2>3, <2>4 DEF TaskTypeOK
  <2>6. PublicTypeOK'
    BY <1>17, <2>4 DEF DrainCommands, PublicTypeOK
  <2>7. QED
    BY <2>1, <2>2, <2>5, <2>6
<1>18. CASE ChangeChannel
  BY <1>18, FaultTypes
  DEF ChangeChannel, LeaveReady, TaskTypeOK, PublicTypeOK, QueueTypeOK, WorldTypeOK,
      PcValues, Windows, locals, areqs, copro, memory
<1>19. CASE ReceiveAreq
  <2>1. /\ Tail(areqQueue) \in Seq(Areq) /\ Len(Tail(areqQueue)) <= AreqDepth
        /\ areqQueue' = Tail(areqQueue)
    BY <1>19, BoundFacts DEF ReceiveAreq, QueueTypeOK
  <2>2. pc' \in PcValues /\ joinWindow' \in Windows /\ announced' \in {"NONE", "READY", "LOST"}
    BY <1>19 DEF ReceiveAreq, LeaveReady, PublicTypeOK, PcValues, Windows
  <2>3. QED
    BY <1>19, <2>1, <2>2
    DEF ReceiveAreq, TaskTypeOK, PublicTypeOK, QueueTypeOK, WorldTypeOK, locals, store, copro, memory
<1>20. CASE ReceiveTimeout
  BY <1>20, BoundFacts, DataFacts, OrderFacts, FaultTypes, RetryTypes
  DEF ReceiveTimeout, TaskTypeOK, PublicTypeOK, QueueTypeOK, WorldTypeOK, PcValues, States, Windows,
      task, locals, public, areqs, store, copro, memory
<1>21. CASE ChipBoots
  <2>1. /\ areqQueue' \in Seq(Areq) /\ Len(areqQueue') <= AreqDepth
        /\ resetLost' \in BOOLEAN
    BY <1>21, PostTypes DEF ChipBoots, QueueTypeOK, Areq
  <2>2. faults' \in 0 .. MaxFaults /\ events' \in 0 .. MaxEvents
    BY <1>21, FaultTypes, BoundFacts DEF ChipBoots, WorldTypeOK
  <2>3. QED
    BY <1>21, <2>1, <2>2
    DEF ChipBoots, TaskTypeOK, PublicTypeOK, QueueTypeOK, WorldTypeOK,
        task, locals, public, store, memory
<1>22. CASE ChipStarts
  <2>1. /\ areqQueue' \in Seq(Areq) /\ Len(areqQueue') <= AreqDepth
        /\ resetLost' \in BOOLEAN
    BY <1>22, PostTypes DEF ChipStarts, QueueTypeOK, Areq
  <2>2. faults' \in 0 .. MaxFaults /\ events' \in 0 .. MaxEvents
    BY <1>22, FaultTypes, BoundFacts DEF ChipStarts, WorldTypeOK
  <2>3. QED
    BY <1>22, <2>1, <2>2
    DEF ChipStarts, TaskTypeOK, PublicTypeOK, QueueTypeOK, WorldTypeOK,
        task, locals, public, store, memory
<1>23. CASE ChipReports
  <2>1. /\ areqQueue' \in Seq(Areq) /\ Len(areqQueue') <= AreqDepth
        /\ resetLost' \in BOOLEAN
    BY <1>23, PostTypes DEF ChipReports, QueueTypeOK, Areq
  <2>2. faults' \in 0 .. MaxFaults /\ events' \in 0 .. MaxEvents
    BY <1>23, FaultTypes, BoundFacts DEF ChipReports, WorldTypeOK, copro, memory
  <2>3. QED
    BY <1>23, <2>1, <2>2
    DEF ChipReports, TaskTypeOK, PublicTypeOK, QueueTypeOK, WorldTypeOK,
        task, locals, public, store, copro, memory
<1>24. CASE ChipResets
  BY <1>24, BoundFacts, DataFacts, OrderFacts, FaultTypes, RetryTypes
  DEF ChipResets, TaskTypeOK, PublicTypeOK, QueueTypeOK, WorldTypeOK, PcValues, States, Windows,
      task, locals, public, areqs, store, copro, memory
<1>25. CASE ParamTrigger
  <2>1. cmdQueue' \in Seq(Command) /\ Len(cmdQueue') <= CmdDepth
    <3>1. [type |-> "RECONFIGURE"] \in Command
      BY DEF Command
    <3>2. cmdQueue' = cmdQueue \/ (/\ Len(cmdQueue) < CmdDepth
                                  /\ cmdQueue' = Append(cmdQueue, [type |-> "RECONFIGURE"]))
      BY <1>25 DEF ParamTrigger
    <3> HIDE DEF Command
    <3>3. QED
      BY <3>1, <3>2, BoundFacts DEF QueueTypeOK
  <2>2. QED
    BY <1>25, <2>1
    DEF ParamTrigger, TaskTypeOK, PublicTypeOK, QueueTypeOK, WorldTypeOK,
        task, locals, public, areqs, copro, memory
<1>26. CASE EspRestarts
  <2>1. TaskTypeOK'
    <3>1. want' \in NetConfig /\ loaded' \in NetConfig
      BY <1>26, DataFacts DEF EspRestarts
    <3>2. retry' \in 0 .. MaxInitRetries /\ item' \in 1 .. Len(FormOrder)
      BY <1>26, BoundFacts, OrderFacts DEF EspRestarts
    <3>3. /\ pc' \in PcValues /\ nvPan' \in PanValues \cup {Absent}
          /\ resuming' \in BOOLEAN /\ latePan' \in BOOLEAN
      BY <1>26 DEF EspRestarts, PcValues, PanValues
    <3>4. QED
      BY <3>1, <3>2, <3>3 DEF TaskTypeOK
  <2>2. PublicTypeOK'
    BY <1>26, DataFacts DEF EspRestarts, PublicTypeOK, States, Windows
  <2>3. QueueTypeOK'
    <3>1. cmdQueue' = <<>> /\ areqQueue' = <<>>
      BY <1>26 DEF EspRestarts
    <3>2. /\ cmdQueue' \in Seq(Command) /\ Len(cmdQueue') <= CmdDepth
          /\ areqQueue' \in Seq(Areq) /\ Len(areqQueue') <= AreqDepth
      BY <3>1, BoundFacts
    <3>3. QED
      BY <1>26, <3>2 DEF EspRestarts, QueueTypeOK
  <2>4. WorldTypeOK'
    BY <1>26, FaultTypes DEF EspRestarts, WorldTypeOK, copro, memory
  <2>5. QED
    BY <2>1, <2>2, <2>3, <2>4
<1>27. CASE Halted
  BY <1>27 DEF Halted, vars, TaskTypeOK, PublicTypeOK, QueueTypeOK, WorldTypeOK,
      task, locals, public, areqs, store, copro, memory
<1>28. ASSUME NEW cmd \in Requests, Submit(cmd) PROVE TypeOK'
  BY <1>28, FrameworkAssumption, BoundFacts
  DEF Submit, TaskTypeOK, PublicTypeOK, QueueTypeOK, WorldTypeOK,
      task, locals, public, areqs, store, copro, memory
<1>29. ASSUME NEW cfg \in Settings, ParamSave(cfg) PROVE TypeOK'
  BY <1>29, FrameworkAssumption, BoundFacts, FaultTypes
  DEF ParamSave, TaskTypeOK, PublicTypeOK, QueueTypeOK, WorldTypeOK,
      task, locals, public, areqs, store, copro, memory
<1>30. CASE UNCHANGED vars
  BY <1>30 DEF vars, TaskTypeOK, PublicTypeOK, QueueTypeOK, WorldTypeOK,
      task, locals, public, areqs, store, copro, memory
<1>31. QED
  BY <1>1, <1>2, <1>3, <1>4, <1>5, <1>6, <1>7, <1>8, <1>9, <1>10, <1>11, <1>12, <1>13, <1>14, <1>15, <1>16, <1>17, <1>18, <1>19, <1>20, <1>21, <1>22, <1>23, <1>24, <1>25, <1>26, <1>27, <1>28, <1>29, <1>30
  DEF Next, FrameworkTask, Bringup, Ready, Chip, Applications

\* Every variable keeps its type, the two queues never outgrow their depth,
\* and the failure counter stops one past MAX_INIT_RETRIES, with the task.
THEOREM TypeCorrect == Spec => []TypeOK
BY InitTypeOK, NextTypeOK, PTL DEF Spec

-----------------------------------------------------------------------------
(* The invariant that relates the task to what the hub reports and to NV *)

LEMMA WantIsSet ==
    ASSUME WantFollowsPc, pc \in NvSettled \cup {"readPan", "readChannel", "clear", "form"}
    PROVE  /\ want.pan \notin {Zero, Absent} /\ want.channel \notin {Zero, Absent}
BY FrameworkAssumption DEF WantFollowsPc, PanValues, ChannelValues

LEMMA LateIsSlow ==
    ASSUME WorldTypeOK, late > 0 => slow, NEW i, NEW value, NEW ok \in BOOLEAN,
           WriteNv(i, value, ok)
    PROVE  late' > 0 => slow'
<1>1. late \in Nat /\ slow \in BOOLEAN
  BY DEF WorldTypeOK
<1>2. \/ late' \in 0 .. late /\ slow' = slow
      \/ slow' = TRUE
      \/ late > 0 /\ slow' = slow
  BY <1>1 DEF WriteNv, memory
<1>3. QED
  BY <1>1, <1>2

LEMMA InitIInv == Init => IInv
BY DEF Init, IInv, StateFollowsPc, EventsFollowPc, WantFollowsPc, NvFollowsPc, InReady,
    NvSettled

LEMMA NextIInv == TypeOK /\ IInv /\ [Next]_vars => IInv'
<1> SUFFICES ASSUME TypeOK, IInv, [Next]_vars PROVE IInv'
  OBVIOUS
<1> USE DEF IInv, InReady, NvSettled, task, locals, public, areqs, store, copro, memory
<1>1. CASE ZnpInit
  BY <1>1 DEF ZnpInit, StateFollowsPc, EventsFollowPc, WantFollowsPc, NvFollowsPc
<1>2. CASE PulseReset
  BY <1>2 DEF PulseReset, StateFollowsPc, EventsFollowPc, WantFollowsPc, NvFollowsPc
<1>3. CASE ResetHeard
  BY <1>3 DEF ResetHeard, StateFollowsPc, EventsFollowPc, WantFollowsPc, NvFollowsPc
<1>4. CASE ResetTimeout
  BY <1>4 DEF ResetTimeout, RetryOrHalt, StateFollowsPc, EventsFollowPc, WantFollowsPc, NvFollowsPc
<1>5. CASE Ping
  BY <1>5 DEF Ping, RetryOrHalt, StateFollowsPc, EventsFollowPc, WantFollowsPc, NvFollowsPc
<1>6. CASE Register
  BY <1>6 DEF Register, StateFollowsPc, EventsFollowPc, WantFollowsPc, NvFollowsPc
<1>7. CASE LoadConfig
  <2>1. config \in NetConfig \cup {Absent}
    BY DEF TypeOK, WorldTypeOK
  <2>2. want'.pan \in Pans /\ want'.channel \in Channels /\ active' = Active(want')
    BY <1>7, <2>1, DataFacts DEF LoadConfig
  <2>3. QED
    BY <1>7, <2>2 DEF LoadConfig, StateFollowsPc, EventsFollowPc, WantFollowsPc, NvFollowsPc
<1>8. CASE ReadPanId
  <2>1. nvPan' \in {nv.PANID, Zero, Absent}
    BY <1>8 DEF ReadPanId, ReadNv
  <2>2. QED
    BY <1>8, <2>1 DEF ReadPanId, StateFollowsPc, EventsFollowPc, WantFollowsPc, NvFollowsPc
<1>9. CASE ReadChanlist
  <2>1. PICK value :
           /\ value \in {nv.CHANLIST, Zero, Absent}
           /\ resuming' = (NvState(nvPan, value) = "match")
           /\ \/ NvState(nvPan, value) = "empty" /\ pc' = "form" /\ s_state' = "FORMING"
              \/ NvState(nvPan, value) = "match" /\ pc' = "startup" /\ s_state' = "FORMING"
              \/ /\ NvState(nvPan, value) = "mismatch"
                 /\ pc' = "clear" /\ s_state' = "RECONFIGURING"
    BY <1>9 DEF ReadChanlist, ReadNv
  <2>2. /\ pc = "readChannel" /\ item' = 1
        /\ UNCHANGED <<want, nvPan, active, joinWindow, announced, nv, late, slow>>
    BY <1>9 DEF ReadChanlist
  <2>3. CASE NvState(nvPan, value) = "match"
    <3>1. nvPan = want.pan /\ value = want.channel
      BY <2>3 DEF NvState
    <3>2. nvPan \in {nv.PANID, Zero, Absent}
      BY <2>2 DEF NvFollowsPc
    <3>3. nv.PANID = want.pan /\ nv.CHANLIST = want.channel
      BY <2>1, <2>2, <3>1, <3>2, WantIsSet
    <3>4. QED
      BY <2>1, <2>2, <2>3, <3>3 DEF StateFollowsPc, EventsFollowPc, WantFollowsPc, NvFollowsPc
  <2>4. CASE NvState(nvPan, value) # "match"
    BY <2>1, <2>2, <2>4 DEF StateFollowsPc, EventsFollowPc, WantFollowsPc, NvFollowsPc
  <2>5. QED
    BY <2>3, <2>4
<1>10. CASE ClearNv
  <2>1. /\ pc = "clear" /\ s_state = "RECONFIGURING"
        /\ UNCHANGED <<want, nvPan, active, joinWindow, announced>>
    BY <1>10 DEF ClearNv, StateFollowsPc
  <2>2. \/ item < 3 /\ item' = item + 1 /\ UNCHANGED <<pc, s_state>>
        \/ item' = 1 /\ pc' = "form" /\ s_state' = "FORMING"
    BY <1>10, OrderFacts DEF ClearNv
  <2>3. item \in 1 .. 5
    BY OrderFacts DEF TypeOK, TaskTypeOK
  <2>4. late' > 0 => slow'
    <3>1. PICK ok \in BOOLEAN : WriteNv(ClearOrder[item], Zero, ok)
      BY <1>10 DEF ClearNv
    <3>2. QED
      BY <3>1, LateIsSlow DEF NvFollowsPc, TypeOK
  <2>5. QED
    BY <2>1, <2>2, <2>3, <2>4 DEF StateFollowsPc, EventsFollowPc, WantFollowsPc, NvFollowsPc
<1>11. CASE FormNetwork
  <2>1. PICK ok \in BOOLEAN :
           /\ WriteNv(FormOrder[item], IF FormOrder[item] \in DOMAIN FormValue
                                       THEN FormValue[FormOrder[item]] ELSE Zero, ok)
           /\ \/ ~ok /\ RetryOrHalt /\ item' = 1
              \/ /\ ok
                 /\ UNCHANGED retry
                 /\ \/ item < 5 /\ item' = item + 1 /\ UNCHANGED pc
                    \/ item = 5 /\ item' = 1 /\ pc' = "startup"
    BY <1>11, OrderFacts DEF FormNetwork
  <2>2. /\ pc = "form" /\ s_state = "FORMING"
        /\ UNCHANGED <<s_state, want, nvPan, active, joinWindow, announced>>
    BY <1>11 DEF FormNetwork, StateFollowsPc
  <2>3. late' > 0 => slow'
    BY <2>1, LateIsSlow DEF NvFollowsPc, TypeOK
  <2>4. CASE ~ok
    BY <2>1, <2>2, <2>3, <2>4
    DEF RetryOrHalt, StateFollowsPc, EventsFollowPc, WantFollowsPc, NvFollowsPc
  <2>5. CASE ok
    <3>1. /\ item \in 1 .. 5
          /\ nv \in NvContents
      BY OrderFacts DEF TypeOK, TaskTypeOK, WorldTypeOK
    <3>2. ~slow' => ~slow
      BY <2>1, <2>5 DEF WriteNv
    <3>3. ~slow' => /\ nv'.PANID = IF item = 2 THEN want.pan ELSE nv.PANID
                    /\ nv'.CHANLIST = IF item = 3 THEN want.channel ELSE nv.CHANLIST
      <4>1. SUFFICES ASSUME ~slow'
                     PROVE  /\ nv'.PANID = IF item = 2 THEN want.pan ELSE nv.PANID
                            /\ nv'.CHANLIST = IF item = 3 THEN want.channel ELSE nv.CHANLIST
        OBVIOUS
      <4>2. ~(late > 0)
        BY <3>2, <4>1 DEF NvFollowsPc
      <4>3. /\ item = 2 => nv' = [nv EXCEPT !.PANID = want.pan]
            /\ item = 3 => nv' = [nv EXCEPT !.CHANLIST = want.channel]
            /\ item = 5 => nv' = [nv EXCEPT !.PRECFGKEY = want.key]
            /\ item \in {1, 4} => nv' = nv
        BY <2>1, <2>5, <3>1, <4>2 DEF WriteNv, FormOrder, FormValue, NvContents
      <4>4. QED
        BY <3>1, <4>3 DEF NvContents
    <3>4. \/ item < 5 /\ item' = item + 1 /\ pc' = "form"
          \/ item = 5 /\ pc' = "startup"
      BY <2>1, <2>2, <2>5
    <3>5. QED
      BY <2>2, <2>3, <3>1, <3>2, <3>3, <3>4
      DEF StateFollowsPc, EventsFollowPc, WantFollowsPc, NvFollowsPc
  <2>6. QED
    BY <2>4, <2>5
<1>12. CASE StartupFromApp
  BY <1>12 DEF StartupFromApp, RetryOrHalt, StateFollowsPc, EventsFollowPc, WantFollowsPc, NvFollowsPc
<1>13. CASE WaitForCoordinator
  BY <1>13 DEF WaitForCoordinator, StateFollowsPc, EventsFollowPc, WantFollowsPc, NvFollowsPc
<1>14. CASE WaitTimeout
  BY <1>14 DEF WaitTimeout, RetryOrHalt, StateFollowsPc, EventsFollowPc, WantFollowsPc, NvFollowsPc
<1>15. CASE SaveNetConfig
  BY <1>15 DEF SaveNetConfig, StateFollowsPc, EventsFollowPc, WantFollowsPc, NvFollowsPc
<1>16. CASE EnterReady
  BY <1>16 DEF EnterReady, Active, StateFollowsPc, EventsFollowPc, WantFollowsPc, NvFollowsPc
<1>17. CASE DrainCommands
  BY <1>17 DEF DrainCommands, LeaveReady, StateFollowsPc, EventsFollowPc, WantFollowsPc, NvFollowsPc
<1>18. CASE ChangeChannel
  BY <1>18 DEF ChangeChannel, LeaveReady, StateFollowsPc, EventsFollowPc, WantFollowsPc, NvFollowsPc
<1>19. CASE ReceiveAreq
  BY <1>19 DEF ReceiveAreq, LeaveReady, StateFollowsPc, EventsFollowPc, WantFollowsPc, NvFollowsPc
<1>20. CASE ReceiveTimeout
  BY <1>20 DEF ReceiveTimeout, StateFollowsPc, EventsFollowPc, WantFollowsPc, NvFollowsPc
<1>21. CASE ChipBoots
  BY <1>21 DEF ChipBoots, StateFollowsPc, EventsFollowPc, WantFollowsPc, NvFollowsPc
<1>22. CASE ChipStarts
  BY <1>22 DEF ChipStarts, StateFollowsPc, EventsFollowPc, WantFollowsPc, NvFollowsPc
<1>23. CASE ChipReports
  BY <1>23 DEF ChipReports, StateFollowsPc, EventsFollowPc, WantFollowsPc, NvFollowsPc
<1>24. CASE ChipResets
  BY <1>24 DEF ChipResets, StateFollowsPc, EventsFollowPc, WantFollowsPc, NvFollowsPc
<1>25. CASE ParamTrigger
  BY <1>25 DEF ParamTrigger, StateFollowsPc, EventsFollowPc, WantFollowsPc, NvFollowsPc
<1>26. CASE EspRestarts
  BY <1>26 DEF EspRestarts, StateFollowsPc, EventsFollowPc, WantFollowsPc, NvFollowsPc
<1>27. CASE Halted
  BY <1>27 DEF Halted, vars, StateFollowsPc, EventsFollowPc, WantFollowsPc, NvFollowsPc
<1>28. CASE \E cmd \in Requests : Submit(cmd)
  BY <1>28 DEF Submit, StateFollowsPc, EventsFollowPc, WantFollowsPc, NvFollowsPc
<1>29. CASE \E cfg \in Settings : ParamSave(cfg)
  BY <1>29 DEF ParamSave, StateFollowsPc, EventsFollowPc, WantFollowsPc, NvFollowsPc
<1>30. CASE UNCHANGED vars
  BY <1>30 DEF vars, StateFollowsPc, EventsFollowPc, WantFollowsPc, NvFollowsPc
<1>31. QED
  BY <1>1, <1>2, <1>3, <1>4, <1>5, <1>6, <1>7, <1>8, <1>9, <1>10, <1>11, <1>12, <1>13, <1>14, <1>15, <1>16, <1>17, <1>18, <1>19, <1>20, <1>21, <1>22, <1>23, <1>24, <1>25, <1>26, <1>27, <1>28, <1>29, <1>30
  DEF Next, FrameworkTask, Bringup, Ready, Chip, Applications

\* The reported state, the announced event, the join window and the parameters
\* in use follow from where the task is, in every state of every run, and so does
\* the NV of the coprocessor until an NV write is answered after its timeout.
THEOREM TaskInvariant == Spec => []IInv
BY InitTypeOK, NextTypeOK, InitIInv, NextIInv, PTL DEF Spec

\* READY is only reported on the PAN and channel the coprocessor holds in NV,
\* whatever SREQs fail, whoever resets and whatever config.json says, unless an
\* NV write of the bring-up was answered after its timeout.
THEOREM ReadyParams == Spec => []ReadyParamsInNv
<1>1. IInv => ReadyParamsInNv
  BY DEF IInv, NvFollowsPc, ReadyParamsInNv
<1>2. QED
  BY <1>1, TaskInvariant, PTL

\* The join window is only open in READY: no way out of READY leaves it open.
THEOREM WindowClosed == Spec => []WindowOnlyWhenReady
<1>1. IInv => WindowOnlyWhenReady
  BY DEF IInv, StateFollowsPc, EventsFollowPc, WindowOnlyWhenReady
<1>2. QED
  BY <1>1, TaskInvariant, PTL

-----------------------------------------------------------------------------
(* The hub implements HubService *)

LEMMA InitService == Init => Service!Init
BY DEF Init, Service!Init, Status

\* What applications see is the same after most steps.
LEMMA Unseen ==
    ASSUME UNCHANGED <<s_state, announced, cmdQueue, joinWindow>>
    PROVE  UNCHANGED Service!vars
BY DEF Service!vars, Status

\* While the task is on its way up, the detailed state may change unseen.
LEMMA UnseenForming ==
    ASSUME UNCHANGED <<announced, cmdQueue, joinWindow>>,
           s_state \in {"NETWORK_CHECK", "FORMING", "RECONFIGURING"},
           s_state' \in {"NETWORK_CHECK", "FORMING", "RECONFIGURING"}
    PROVE  UNCHANGED Service!vars
BY DEF Service!vars, Status

\* The way out of READY: a loss that is announced before the state tells it.
LEMMA LeaveReadyDown ==
    ASSUME EventsFollowPc, InReady, LeaveReady, UNCHANGED <<s_state, cmdQueue>>
    PROVE  Service!Down
BY DEF EventsFollowPc, LeaveReady, Service!Down, Status

\* ZNP_INIT begins where a bring-up failed, where READY was left, or at boot.
LEMMA ZnpInitService ==
    ASSUME TypeOK, IInv, ZnpInit
    PROVE  Service!Retry \/ Service!Leave \/ UNCHANGED Service!vars
<1>1. /\ s_state \in States /\ s_state' = "ZNP_INIT"
      /\ UNCHANGED <<announced, cmdQueue, joinWindow>>
  BY DEF TypeOK, PublicTypeOK, ZnpInit
<1>2. announced # "READY"
  BY DEF IInv, EventsFollowPc, InReady, ZnpInit
<1>3. CASE s_state \in {"UNINITIALIZED", "ZNP_INIT"}
  BY <1>1, <1>3 DEF Service!vars, Status
<1>4. CASE s_state \in {"NETWORK_CHECK", "FORMING", "RECONFIGURING"}
  BY <1>1, <1>4 DEF Service!Retry, Status
<1>5. CASE s_state = "READY"
  BY <1>1, <1>2, <1>5 DEF Service!Leave, Status
<1>6. QED
  BY <1>1, <1>3, <1>4, <1>5 DEF States

\* A command runs where HubService lets it: after NETWORK_READY, the oldest first.
LEMMA DrainService ==
    ASSUME TypeOK, IInv, DrainCommands
    PROVE  Service!Serve \/ Service!ServeLast \/ UNCHANGED Service!vars
<1>1. announced = "READY" /\ UNCHANGED s_state
  BY DEF IInv, EventsFollowPc, InReady, DrainCommands
<1>2. CASE cmdQueue = <<>>
  BY <1>1, <1>2, Unseen DEF DrainCommands
<1>3. CASE cmdQueue # <<>>
  <2>1. cmdQueue' = Tail(cmdQueue)
    BY <1>3 DEF DrainCommands
  <2>2. CASE UNCHANGED announced
    BY <1>1, <1>3, <2>1, <2>2 DEF Service!Serve, Status
  <2>3. CASE LeaveReady
    BY <1>1, <1>3, <2>1, <2>3 DEF LeaveReady, Service!ServeLast, Status
  <2>4. QED
    BY <1>3, <2>2, <2>3 DEF DrainCommands
<1>4. QED
  BY <1>2, <1>3

LEMMA AcceptService ==
    ASSUME NEW cmd \in Command, Len(cmdQueue) < CmdDepth,
           cmdQueue' = Append(cmdQueue, cmd),
           UNCHANGED <<s_state, announced, joinWindow>>
    PROVE  \E c \in Command : Service!Accept(c)
<1>1. Service!Accept(cmd)
  BY DEF Service!Accept, Status
<1>2. QED
  BY <1>1

LEMMA NextService == TypeOK /\ IInv /\ [Next]_vars => [Service!Next]_(Service!vars)
<1> SUFFICES ASSUME TypeOK, IInv, [Next]_vars
             PROVE  Service!Next \/ UNCHANGED Service!vars
  OBVIOUS
<1> USE DEF task, locals, public, areqs, store, copro, memory
<1>1. CASE ZnpInit
  BY <1>1, ZnpInitService DEF Service!Next
<1>2. CASE PulseReset \/ ResetHeard \/ ResetTimeout \/ Ping \/ Register \/ ReadPanId
  BY <1>2, Unseen DEF PulseReset, ResetHeard, ResetTimeout, Ping, Register, ReadPanId
<1>3. CASE LoadConfig
  <2>1. Service!Contact
    BY <1>3 DEF LoadConfig, IInv, StateFollowsPc, Service!Contact, Status
  <2>2. QED
    BY <2>1 DEF Service!Next
<1>4. CASE ReadChanlist
  BY <1>4, UnseenForming DEF ReadChanlist, IInv, StateFollowsPc
<1>5. CASE ClearNv
  BY <1>5, UnseenForming DEF ClearNv, IInv, StateFollowsPc
<1>6. CASE FormNetwork \/ StartupFromApp \/ WaitForCoordinator \/ WaitTimeout \/ SaveNetConfig
  BY <1>6, Unseen
  DEF FormNetwork, StartupFromApp, WaitForCoordinator, WaitTimeout, SaveNetConfig
<1>7. CASE EnterReady
  <2>1. Service!Up
    BY <1>7 DEF EnterReady, IInv, StateFollowsPc, Service!Up, Status
  <2>2. QED
    BY <2>1 DEF Service!Next
<1>8. CASE DrainCommands
  BY <1>8, DrainService DEF Service!Next
<1>9. CASE ChangeChannel
  <2>1. Service!Down
    BY <1>9, LeaveReadyDown DEF ChangeChannel, IInv, InReady
  <2>2. QED
    BY <2>1 DEF Service!Next
<1>10. CASE ReceiveAreq
  <2>1. CASE LeaveReady
    <3>1. Service!Down
      BY <1>10, <2>1, LeaveReadyDown DEF ReceiveAreq, IInv, InReady
    <3>2. QED
      BY <3>1 DEF Service!Next
  <2>2. CASE UNCHANGED <<joinWindow, announced>>
    BY <1>10, <2>2, Unseen DEF ReceiveAreq
  <2>3. QED
    BY <1>10, <2>1, <2>2 DEF ReceiveAreq
<1>11. CASE ReceiveTimeout
  BY <1>11, Unseen DEF ReceiveTimeout
<1>12. CASE Chip
  BY <1>12, Unseen DEF Chip, ChipBoots, ChipStarts, ChipReports, ChipResets
<1>13. ASSUME NEW cmd \in Requests, Submit(cmd)
       PROVE  Service!Next
  <2>1. \E c \in Command : Service!Accept(c)
    BY <1>13, AcceptService, FrameworkAssumption DEF Submit
  <2>2. QED
    BY <2>1 DEF Service!Next
<1>14. ASSUME NEW cfg \in Settings, ParamSave(cfg)
       PROVE  UNCHANGED Service!vars
  BY <1>14, Unseen DEF ParamSave
<1>15. CASE ParamTrigger
  <2> DEFINE cmd == [type |-> "RECONFIGURE"]
  <2>1. cmd \in Command
    BY DEF Command
  <2> HIDE DEF cmd
  <2>2. \/ UNCHANGED cmdQueue
        \/ Len(cmdQueue) < CmdDepth /\ cmdQueue' = Append(cmdQueue, cmd)
    BY <1>15 DEF ParamTrigger, cmd
  <2>3. UNCHANGED <<s_state, announced, joinWindow>>
    BY <1>15 DEF ParamTrigger
  <2>4. CASE UNCHANGED cmdQueue
    BY <2>3, <2>4, Unseen
  <2>5. CASE Len(cmdQueue) < CmdDepth /\ cmdQueue' = Append(cmdQueue, cmd)
    BY <2>1, <2>3, <2>5, AcceptService DEF Service!Next
  <2>6. QED
    BY <2>2, <2>4, <2>5
<1>16. CASE EspRestarts
  <2>1. Service!Restart
    BY <1>16 DEF EspRestarts, Service!Restart, Status
  <2>2. QED
    BY <2>1 DEF Service!Next
<1>17. CASE Halted \/ UNCHANGED vars
  BY <1>17, Unseen DEF Halted, vars
<1>18. QED
  BY <1>1, <1>2, <1>3, <1>4, <1>5, <1>6, <1>7, <1>8, <1>9, <1>10, <1>11, <1>12, <1>13,
     <1>14, <1>15, <1>16, <1>17
  DEF Next, FrameworkTask, Bringup, Ready, Applications

\* Whatever fails, applications see what HubService promises: NETWORK_READY and
\* NETWORK_LOST alternate with the status, and commands run in order, once, and
\* only in between.
THEOREM ImplementsService == Spec => ServiceSpec
<1>1. Spec => [](TypeOK /\ IInv)
  BY TypeCorrect, TaskInvariant, PTL
<1>2. QED
  BY <1>1, InitService, NextService, PTL DEF Spec, ServiceSpec, Service!Spec

-----------------------------------------------------------------------------
(* What the AREQ queue tells of the coprocessor *)

ResetQueued == \E i \in DOMAIN areqQueue : areqQueue[i] = "RESET"

\* A coprocessor that was heard to reset does not run a network until it is
\* told to start one.
StoppedOnceHeard ==
    /\ pc \in {"pulse", "resetWait"} /\ resetInd => chip \in {"booting", "idle"}
    /\ pc \in {"ping", "register", "load", "readPan", "readChannel", "clear",
               "form", "startup"} => chip \in {"booting", "idle"}

\* DeadCoordinatorNoticed from the DEV_ZB_COORD report on.
DeathQueued ==
    (InReady \/ pc \in {"save", "enterReady"}) /\ chip # "coord" =>
        chip = "booting" \/ ResetQueued \/ resetLost

ChipInv == StoppedOnceHeard /\ FreshCoordReport /\ DeathQueued

LEMMA InitChipInv == Init => ChipInv
BY DEF Init, ChipInv, StoppedOnceHeard, FreshCoordReport, DeathQueued, InReady

LEMMA PostCases ==
    ASSUME QueueTypeOK, NEW frame \in Areq, Post(frame)
    PROVE  \/ /\ areqQueue' = Append(areqQueue, frame)
              /\ DOMAIN areqQueue' = 1 .. Len(areqQueue) + 1
              /\ \A i \in 1 .. Len(areqQueue) : areqQueue'[i] = areqQueue[i]
              /\ areqQueue'[Len(areqQueue) + 1] = frame
              /\ resetLost' = (resetLost /\ frame # "RESET")
           \/ /\ UNCHANGED areqQueue
              /\ resetLost' = (resetLost \/ frame = "RESET")
BY DEF QueueTypeOK, Post

LEMMA QueueDomain ==
    ASSUME QueueTypeOK
    PROVE  DOMAIN areqQueue = 1 .. Len(areqQueue) /\ Len(areqQueue) \in Nat
BY DEF QueueTypeOK

LEMMA TailFacts ==
    ASSUME QueueTypeOK, areqQueue # <<>>, areqQueue' = Tail(areqQueue)
    PROVE  /\ Len(areqQueue) > 0
           /\ DOMAIN areqQueue' = 1 .. Len(areqQueue) - 1
           /\ \A i \in 1 .. Len(areqQueue) - 1 : areqQueue'[i] = areqQueue[i + 1]
BY DEF QueueTypeOK

\* Taking a frame from the queue brings no report to the front of a reset.
LEMMA TakeKeepsFresh ==
    ASSUME QueueTypeOK, FreshCoordReport, areqQueue # <<>>,
           areqQueue' = Tail(areqQueue), UNCHANGED <<chip, resetLost>>
    PROVE  FreshCoordReport'
<1> SUFFICES ASSUME NEW i \in DOMAIN areqQueue', areqQueue'[i] = "COORD",
                    \A j \in DOMAIN areqQueue' : j > i => areqQueue'[j] # "RESET"
             PROVE  chip \in {"coord", "booting"} \/ resetLost
  BY DEF FreshCoordReport
<1>1. /\ i + 1 \in DOMAIN areqQueue
      /\ areqQueue[i + 1] = "COORD"
  BY TailFacts, QueueDomain
<1>2. \A j \in DOMAIN areqQueue : j > i + 1 => areqQueue[j] # "RESET"
  <2> SUFFICES ASSUME NEW j \in DOMAIN areqQueue, j > i + 1
               PROVE  areqQueue[j] # "RESET"
    OBVIOUS
  <2>1. j - 1 \in DOMAIN areqQueue' /\ j - 1 > i /\ areqQueue'[j - 1] = areqQueue[j]
    BY TailFacts, QueueDomain
  <2>2. QED
    BY <2>1
<1>3. QED
  BY <1>1, <1>2 DEF FreshCoordReport

\* A reset report is not passed over in READY, nor one behind the report taken.
LEMMA TakeKeepsReset ==
    ASSUME QueueTypeOK, areqQueue # <<>>, areqQueue' = Tail(areqQueue),
           Head(areqQueue) # "RESET", ResetQueued
    PROVE  ResetQueued'
<1>1. PICK i \in DOMAIN areqQueue : areqQueue[i] = "RESET"
  BY DEF ResetQueued
<1>2. i > 1 /\ i - 1 \in DOMAIN areqQueue' /\ areqQueue'[i - 1] = "RESET"
  BY <1>1, TailFacts, QueueDomain
<1>3. QED
  BY <1>2 DEF ResetQueued

LEMMA PostKeepsReset ==
    ASSUME QueueTypeOK, NEW frame \in Areq, Post(frame), ResetQueued
    PROVE  ResetQueued'
BY PostCases, QueueDomain DEF ResetQueued

\* A reset is reported, and its report is queued or known to be lost.
LEMMA BootStep ==
    ASSUME TypeOK, ChipInv, ChipBoots
    PROVE  FreshCoordReport' /\ (ResetQueued \/ resetLost)'
<1>1. CASE Post("RESET")
  <2>1. QueueTypeOK /\ "RESET" \in Areq
    BY DEF TypeOK, Areq
  <2>2. CASE resetLost' = (resetLost \/ "RESET" = "RESET")
    BY <2>2 DEF FreshCoordReport
  <2>3. CASE ~(resetLost' = (resetLost \/ "RESET" = "RESET"))
    <3> DEFINE last == Len(areqQueue) + 1
    <3>1. /\ DOMAIN areqQueue' = 1 .. last /\ last \in Nat /\ last > 0
          /\ areqQueue'[last] = "RESET"
      BY <1>1, <2>1, <2>3, PostCases, QueueDomain
    <3>2. \A i \in DOMAIN areqQueue' :
              areqQueue'[i] = "COORD" => last > i /\ last \in DOMAIN areqQueue'
      BY <3>1
    <3>3. QED
      BY <3>1, <3>2 DEF FreshCoordReport, ResetQueued
  <2>4. QED
    BY <2>2, <2>3
<1>2. CASE resetLost' = TRUE
  BY <1>2 DEF FreshCoordReport
<1>3. QED
  BY <1>1, <1>2 DEF ChipBoots

LEMMA StartStep ==
    ASSUME TypeOK, ChipInv, ChipStarts
    PROVE  FreshCoordReport'
BY DEF ChipStarts, FreshCoordReport

LEMMA ReportStep ==
    ASSUME TypeOK, ChipInv, ChipReports
    PROVE  FreshCoordReport'
BY DEF ChipReports, copro, memory, FreshCoordReport

LEMMA NextChipInv == TypeOK /\ ChipInv /\ [Next]_vars => ChipInv'
<1> SUFFICES ASSUME TypeOK, ChipInv, [Next]_vars PROVE ChipInv'
  OBVIOUS
<1> USE DEF ChipInv, InReady, task, locals, public, areqs, store, copro, memory
<1> DEFINE Quiet == UNCHANGED <<areqQueue, resetLost>>
<1>0. QueueTypeOK /\ chip \in {"booting", "idle", "starting", "coord"}
  BY DEF TypeOK, WorldTypeOK
<1>1. ASSUME Quiet, chip' \in {chip, "booting"} PROVE FreshCoordReport'
  BY <1>1 DEF FreshCoordReport
<1>2. ASSUME Quiet, chip' \in {chip, "booting"},
             InReady' \/ pc' \in {"save", "enterReady"}
                 => InReady \/ pc \in {"save", "enterReady"}
      PROVE  DeathQueued'
  BY <1>2 DEF DeathQueued, ResetQueued
<1>3. CASE \/ ZnpInit \/ PulseReset \/ ResetHeard \/ ResetTimeout \/ Ping \/ Register
           \/ LoadConfig \/ ReadPanId \/ ReadChanlist \/ ClearNv \/ FormNetwork
  <2>1. /\ Quiet /\ chip' \in {chip, "booting"}
        /\ ~(InReady' \/ pc' \in {"save", "enterReady"})
    BY <1>3 DEF ZnpInit, PulseReset, ResetHeard, ResetTimeout, Ping, Register, LoadConfig,
                ReadPanId, ReadChanlist, ClearNv, FormNetwork, RetryOrHalt
  <2>2. StoppedOnceHeard'
    <3>1. CASE ZnpInit \/ PulseReset \/ ResetHeard
      BY <3>1 DEF StoppedOnceHeard, ZnpInit, PulseReset, ResetHeard
    <3>2. CASE ResetTimeout \/ Ping \/ Register \/ LoadConfig \/ ReadPanId
      BY <3>2 DEF StoppedOnceHeard, ResetTimeout, Ping, Register, LoadConfig, ReadPanId,
                  RetryOrHalt
    <3>3. CASE ReadChanlist
      <4>1. pc = "readChannel" /\ pc' \in {"form", "startup", "clear"} /\ chip' = chip
        BY <3>3 DEF ReadChanlist
      <4>2. QED
        BY <4>1 DEF StoppedOnceHeard
    <3>4. CASE ClearNv \/ FormNetwork
      <4>1. /\ pc \in {"clear", "form"} /\ chip' = chip
            /\ pc' \in {"clear", "form", "startup", "reset", "halted"}
        BY <3>4 DEF ClearNv, FormNetwork, RetryOrHalt
      <4>2. QED
        BY <4>1 DEF StoppedOnceHeard
    <3>5. QED
      BY <1>3, <3>1, <3>2, <3>3, <3>4
  <2>3. QED
    BY <2>1, <2>2, <1>1, <1>2
<1>4. CASE StartupFromApp
  <2>1. /\ Quiet
        /\ chip # "booting" => chip = "idle"
        /\ ~(InReady' \/ pc' \in {"save", "enterReady"})
    BY <1>4 DEF StartupFromApp, RetryOrHalt, StoppedOnceHeard
  <2>2. StoppedOnceHeard' /\ DeathQueued'
    BY <1>4, <2>1 DEF StartupFromApp, RetryOrHalt, StoppedOnceHeard, DeathQueued
  <2>3. chip' \in {chip, "booting"} \/ chip = "idle"
    BY <1>4, <2>1 DEF StartupFromApp, Answered
  <2>4. CASE chip' \in {chip, "booting"}
    BY <2>1, <2>2, <2>4, <1>1
  <2>5. CASE chip = "idle"
    BY <2>1, <2>2, <2>5 DEF FreshCoordReport
  <2>6. QED
    BY <2>3, <2>4, <2>5
<1>5. CASE WaitForCoordinator
  <2>1. /\ areqQueue # <<>> /\ areqQueue' = Tail(areqQueue)
        /\ UNCHANGED <<chip, resetLost>>
    BY <1>5 DEF WaitForCoordinator
  <2>2. FreshCoordReport'
    BY <1>0, <2>1, TakeKeepsFresh
  <2>3. StoppedOnceHeard'
    BY <1>5 DEF WaitForCoordinator, StoppedOnceHeard
  <2>4. DeathQueued'
    <3>1. CASE Head(areqQueue) # "COORD"
      BY <1>5, <3>1 DEF WaitForCoordinator, DeathQueued
    <3>2. CASE Head(areqQueue) = "COORD"
      <4>1. 1 \in DOMAIN areqQueue /\ areqQueue[1] = "COORD"
        BY <1>0, <2>1, <3>2, TailFacts, QueueDomain
      <4>2. CASE ResetQueued
        BY <1>0, <2>1, <3>2, <4>2, TakeKeepsReset DEF DeathQueued
      <4>3. CASE ~ResetQueued
        BY <2>1, <4>1, <4>3 DEF FreshCoordReport, ResetQueued, DeathQueued
      <4>4. QED
        BY <4>2, <4>3
    <3>3. QED
      BY <3>1, <3>2
  <2>5. QED
    BY <2>2, <2>3, <2>4
<1>6. CASE WaitTimeout \/ SaveNetConfig \/ EnterReady \/ DrainCommands \/ ChangeChannel
           \/ ReceiveTimeout \/ ParamTrigger \/ Halted
  <2>1. /\ Quiet /\ UNCHANGED <<chip, resetInd>>
        /\ \/ InReady' \/ pc' \in {"save", "enterReady"}
              => InReady \/ pc \in {"save", "enterReady"}
        /\ UNCHANGED pc \/ pc' \in {"reset", "halted", "enterReady", "commands",
                                    "changeChannel", "receive"}
    BY <1>6 DEF WaitTimeout, SaveNetConfig, EnterReady, DrainCommands, ChangeChannel,
                ReceiveTimeout, ParamTrigger, Halted, vars, LeaveReady, RetryOrHalt
  <2>2. StoppedOnceHeard'
    BY <2>1 DEF StoppedOnceHeard
  <2>3. QED
    BY <2>1, <2>2, <1>1, <1>2
<1>7. CASE ReceiveAreq
  <2>1. /\ areqQueue # <<>> /\ areqQueue' = Tail(areqQueue)
        /\ UNCHANGED <<chip, resetLost>>
    BY <1>7 DEF ReceiveAreq
  <2>2. FreshCoordReport' /\ StoppedOnceHeard'
    BY <1>0, <1>7, <2>1, TakeKeepsFresh DEF ReceiveAreq, LeaveReady, StoppedOnceHeard
  <2>3. CASE Head(areqQueue) = "RESET"
    BY <1>7, <2>2, <2>3 DEF ReceiveAreq, LeaveReady, DeathQueued
  <2>4. CASE Head(areqQueue) # "RESET"
    BY <1>0, <1>7, <2>1, <2>2, <2>4, TakeKeepsReset DEF ReceiveAreq, DeathQueued
  <2>5. QED
    BY <2>3, <2>4
<1>8. CASE ChipBoots
  <2>1. UNCHANGED pc /\ chip' = "idle"
    BY <1>8 DEF ChipBoots
  <2>2. StoppedOnceHeard'
    BY <1>8 DEF ChipBoots, StoppedOnceHeard
  <2>3. QED
    BY <1>8, <2>1, <2>2, BootStep DEF DeathQueued
<1>9. CASE ChipStarts
  <2>1. /\ UNCHANGED <<pc, resetInd>> /\ chip = "starting" /\ chip' = "coord"
    BY <1>9 DEF ChipStarts
  <2>2. QED
    BY <1>9, <2>1, StartStep DEF StoppedOnceHeard, DeathQueued
<1>10. CASE ChipReports
  <2>1. UNCHANGED <<pc, resetInd, chip>> /\ chip = "coord"
    BY <1>10 DEF ChipReports
  <2>2. QED
    BY <1>10, <2>1, ReportStep DEF StoppedOnceHeard, DeathQueued
<1>11. CASE ChipResets
  <2>1. UNCHANGED <<pc, resetInd>> /\ Quiet /\ chip' = "booting"
    BY <1>11 DEF ChipResets
  <2>2. QED
    BY <2>1, <1>1, <1>2 DEF StoppedOnceHeard
<1>12. CASE EspRestarts
  BY <1>12 DEF EspRestarts, StoppedOnceHeard, FreshCoordReport, DeathQueued
<1>13. CASE \/ \E cmd \in Requests : Submit(cmd)
            \/ \E cfg \in Settings : ParamSave(cfg)
            \/ UNCHANGED vars
  <2>1. UNCHANGED <<pc, resetInd, chip, areqQueue, resetLost>>
    BY <1>13 DEF Submit, ParamSave, vars
  <2>2. QED
    BY <2>1, <1>1, <1>2 DEF StoppedOnceHeard
<1>14. QED
  BY <1>3, <1>4, <1>5, <1>6, <1>7, <1>8, <1>9, <1>10, <1>11, <1>12, <1>13
  DEF Next, FrameworkTask, Bringup, Ready, Chip, Applications

\* A start report with no reset report behind it is of the coordinator that
\* runs, however many restarts left their frames in the queue.
THEOREM FreshReport == Spec => []FreshCoordReport
<1>1. ChipInv => FreshCoordReport
  BY DEF ChipInv
<1>2. QED
  BY <1>1, InitTypeOK, NextTypeOK, InitChipInv, NextChipInv, PTL DEF Spec

\* In READY a dead coprocessor is found out, unless the one report of its reset
\* was lost or dropped.
THEOREM DeadNoticed == Spec => []DeadCoordinatorNoticed
<1>1. ChipInv => DeadCoordinatorNoticed
  BY DEF ChipInv, DeathQueued, ResetQueued, DeadCoordinatorNoticed
<1>2. QED
  BY <1>1, InitTypeOK, NextTypeOK, InitChipInv, NextChipInv, PTL DEF Spec
=============================================================================
