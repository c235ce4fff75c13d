---------------------------- MODULE ZbFramework ----------------------------
(***************************************************************************)
(* The framework task of the hub (zb_framework.c) with the network helpers *)
(* it calls (zb_network.c), its command queue (zb_cmd.c), config.json       *)
(* (zb_storage_config.c) and, external to the repository, the CC2652P7     *)
(* coprocessor it drives.                                                  *)
(*                                                                         *)
(* One step of the task is one call that can block or fail: one SREQ to    *)
(* the coprocessor, one queue operation, one access to config.json.        *)
(* Between two of them the coprocessor may reset or report, applications   *)
(* may call the command API and zb_network_param_set(), and the ESP32 may  *)
(* restart.                                                                *)
(*                                                                         *)
(* Everything that goes wrong spends one of MaxFaults; every call of an    *)
(* application and every report of a device spends one of MaxEvents.       *)
(***************************************************************************)
EXTENDS Naturals, Sequences

CONSTANTS
    Pans, Channels, Keys,       \* network parameters, none of them zero
    Zero,                       \* a parameter that is unset or cleared
    Absent,                     \* an NV item that does not exist, no file
    DefaultPan, DefaultChannel, DefaultKey,     \* zb_config_t and Kconfig
    AreqDepth, CmdDepth,        \* capacities of the two queues
    MaxInitRetries,             \* MAX_INIT_RETRIES
    Requests,                   \* commands applications submit
    Settings,                   \* what they pass to zb_network_param_set()
    MaxFaults, MaxEvents         \* bounds of the model

VARIABLES
    pc,             \* the call framework_task is at
    retry,          \* its failure counter
    item,           \* which NV item it clears or writes next
    resuming,       \* NV matched: start the stored network, save nothing
    want,           \* its pan_id, channel and nwk_key
    nvPan,          \* what reading ZCD_NV_PANID returned
    loaded,         \* the copy of config.json that CHANGE_CHANNEL modifies
    s_state,        \* the state zb_framework_get_state() returns
    active,         \* s_active_pan_id, s_active_channel
    joinWindow,     \* s_permit_join_deadline: closed, timed, indefinite
    announced,      \* the last NETWORK_ event emitted since the ESP32 booted
    cmdQueue,       \* s_queue of zb_cmd.c
    areqQueue,      \* s_areq_queue of the transport
    resetInd,       \* s_reset_ind_sem of the transport
    config,         \* /zb/config.json
    setting,        \* a zb_network_param_set() that has saved its argument
    chip,           \* the coprocessor: booting, idle, starting, coord
    nv,             \* its non-volatile memory
    late,           \* SRSPs of NV writes that timed out, still to come
    slow,           \* one was, since the coprocessor was heard to reset
    latePan,        \* the SRSP of the PANID read is still to come
    resetLost,      \* the report of the last reset never reached the queue
    faults, events  \* budgets spent

task == <<pc, retry, item, resuming>>
locals == <<want, nvPan, latePan, loaded>>
public == <<s_state, active, joinWindow, announced>>
areqs == <<areqQueue, resetInd, resetLost>>
store == <<config, setting>>
memory == <<nv, late, slow>>
copro == <<chip, memory>>
vars == <<task, locals, public, areqs, cmdQueue, store, copro, faults, events>>

-----------------------------------------------------------------------------
(* Data *)

PanValues == Pans \cup {Zero}
ChannelValues == Channels \cup {Zero}
KeyValues == Keys \cup {Zero}

\* zb_net_config_t; the baud rate plays no part here.
NetConfig == [pan : PanValues, channel : ChannelValues, key : KeyValues]
ZeroConfig == [pan |-> Zero, channel |-> Zero, key |-> Zero]

\* The NV items whose value varies.
NvContents == [PANID : PanValues \cup {Absent},
               CHANLIST : ChannelValues \cup {Absent},
               PRECFGKEY : KeyValues \cup {Absent}]
EmptyNv == [PANID |-> Absent, CHANLIST |-> Absent, PRECFGKEY |-> Absent]

Windows == {"closed", "timed", "indefinite"}

\* zb_cmd_t; a PERMIT_JOIN carries the window its duration asks for.
Command == [type : {"PERMIT_JOIN"}, window : Windows]
           \cup [type : {"CHANGE_CHANNEL"}, channel : Channels]
           \cup [type : {"RECONFIGURE"}]

\* AREQ frames the framework tells apart: SYS_RESET_IND, ZDO_STATE_CHANGE_IND
\* with DEV_ZB_COORD, and all others (joins, leaves, reports).
Areq == {"RESET", "COORD", "DEVICE"}

States == {"UNINITIALIZED", "ZNP_INIT", "NETWORK_CHECK", "FORMING",
           "RECONFIGURING", "READY"}

ClearOrder == <<"PANID", "CHANLIST", "PRECFGKEY">>
FormOrder == <<"LOGICAL_TYPE", "PANID", "CHANLIST", "PRECFGKEYS_EN", "PRECFGKEY">>

OrDefault(v, default) == IF v \in {Zero, Absent} THEN default ELSE v

\* load_net_config(): the file where it has a value, the defaults elsewhere.
LoadNetConfig(file) ==
    IF file = Absent
    THEN [pan |-> DefaultPan, channel |-> DefaultChannel, key |-> DefaultKey]
    ELSE [pan |-> OrDefault(file.pan, DefaultPan),
          channel |-> OrDefault(file.channel, DefaultChannel),
          key |-> OrDefault(file.key, DefaultKey)]

ASSUME FrameworkAssumption ==
    /\ DefaultPan \in Pans /\ DefaultChannel \in Channels /\ DefaultKey \in Keys
    /\ Zero \notin Pans \cup Channels \cup Keys
    /\ Absent \notin PanValues \cup ChannelValues \cup KeyValues \cup NetConfig
    /\ Requests \subseteq Command /\ Settings \subseteq NetConfig
    /\ AreqDepth \in Nat \ {0} /\ CmdDepth \in Nat \ {0}
    /\ MaxInitRetries \in Nat /\ MaxFaults \in Nat /\ MaxEvents \in Nat

Active(w) == [pan |-> w.pan, channel |-> w.channel]

\* A bug: only the PAN ID is compared.
NvStateIgnoringChannel(pan, channel) ==
    IF pan = Absent \/ channel = Absent THEN "empty"
    ELSE IF pan = want.pan THEN "match" ELSE "mismatch"

\* zb_net_check_nv_state(), given what its two reads returned.
NvState(pan, channel) ==
    IF pan = Absent \/ channel = Absent THEN "empty"
    ELSE IF pan = want.pan /\ channel = want.channel THEN "match" ELSE "mismatch"

\* The bytes zb_net_form_network() writes to an NV item that varies.
FormValue == [PANID |-> want.pan, CHANLIST |-> want.channel, PRECFGKEY |-> want.key]

-----------------------------------------------------------------------------
(* Faults, SREQs and the AREQ queue *)

Fault == faults < MaxFaults /\ faults' = faults + 1
NoFault == UNCHANGED faults

\* An SREQ fails because the coprocessor is booting, or by a fault: a lost or
\* late frame, or an error status.
Answered == chip # "booting" /\ NoFault
Unanswered == (chip = "booting" /\ NoFault) \/ Fault

\* zb_net_read_nv(): a timeout leaves the caller's zeros in the buffer, an
\* error status reads as a missing item. Without a timeout before it, the
\* answer is that of the item asked for.
ReadNv(i, value) ==
    \/ Answered /\ value = nv[i]
    \/ Unanswered /\ value = Zero
    \/ Fault /\ chip # "booting" /\ value = Absent

\* zb_net_write_nv(). A write that times out may have been made, and its SRSP
\* may come yet. The transport compares no more than the command with what it
\* waits for (znp_transport.c:444), so the next write takes that SRSP for its
\* own: it returns ESP_OK whether it was made, and leaves its own SRSP to the
\* write after it, or was lost or refused.
WriteNv(i, value, ok) ==
    LET Written == IF i \in DOMAIN nv THEN nv' = [nv EXCEPT ![i] = value]
                                      ELSE UNCHANGED nv
    IN  \/ ok /\ Answered /\ Written /\ late' \in 0 .. late /\ UNCHANGED slow
        \/ ~ok /\ Unanswered /\ UNCHANGED memory
        \/ ~ok /\ Fault /\ chip # "booting" /\ Written /\ UNCHANGED <<late, slow>>
        \/ ~ok /\ Fault /\ chip # "booting" /\ Written /\ late' = late + 1 /\ slow' = TRUE
        \/ ok /\ late > 0 /\ Unanswered /\ late' \in 0 .. late - 1 /\ UNCHANGED <<nv, slow>>

\* A bug: an unbounded queue.
PostUnbounded(frame) ==
    /\ areqQueue' = Append(areqQueue, frame)
    /\ resetLost' = (resetLost /\ frame # "RESET")

\* A bug: SYS_RESET_IND overtakes the frames that wait.
PostResetFirst(frame) ==
    IF Len(areqQueue) < AreqDepth
    THEN /\ areqQueue' = IF frame = "RESET" THEN <<frame>> \o areqQueue
                         ELSE Append(areqQueue, frame)
         /\ resetLost' = (resetLost /\ frame # "RESET")
    ELSE /\ UNCHANGED areqQueue
         /\ resetLost' = (resetLost \/ frame = "RESET")

\* The dispatch task posts a frame, or drops it when the queue is full.
Post(frame) ==
    IF Len(areqQueue) < AreqDepth
    THEN /\ areqQueue' = Append(areqQueue, frame)
         /\ resetLost' = (resetLost /\ frame # "RESET")
    ELSE /\ UNCHANGED areqQueue
         /\ resetLost' = (resetLost \/ frame = "RESET")

\* framework_task() on a failure: retry from ZNP_INIT, or halt.
RetryOrHalt ==
    /\ retry' = retry + 1
    /\ pc' = IF retry < MaxInitRetries THEN "reset" ELSE "halted"

-----------------------------------------------------------------------------
(* ZNP_INIT: handle_znp_init() *)

\* znp_transport_reset_coprocessor() drains the semaphore ...
ZnpInit ==
    /\ pc = "reset"
    /\ s_state' = "ZNP_INIT"
    /\ resetInd' = FALSE
    /\ pc' = "pulse"
    /\ UNCHANGED <<retry, item, resuming, locals, active, joinWindow, announced,
                   areqQueue, resetLost, cmdQueue, store, copro, faults, events>>

\* ... pulses RESET through the I2C expander, whose errors it ignores ...
PulseReset ==
    /\ pc = "pulse"
    /\ pc' = "resetWait"
    /\ \/ chip' = "booting" /\ NoFault
       \/ UNCHANGED chip /\ Fault
    /\ UNCHANGED <<retry, item, resuming, locals, public, areqs, cmdQueue, store,
                   memory, events>>

\* ... and waits for SYS_RESET_IND, for a limited time. Frames come in order:
\* no SRSP of an SREQ before the drain comes after it.
ResetHeard ==
    /\ pc = "resetWait"
    /\ resetInd
    /\ resetInd' = FALSE
    /\ late' = 0 /\ slow' = FALSE
    /\ pc' = "ping"
    /\ UNCHANGED <<retry, item, resuming, locals, public, areqQueue, resetLost,
                   cmdQueue, store, chip, nv, faults, events>>

ResetTimeout ==
    /\ pc = "resetWait"
    /\ ~resetInd
    /\ (chip # "booting" /\ NoFault) \/ Fault
    /\ RetryOrHalt
    /\ UNCHANGED <<item, resuming, locals, public, areqs, cmdQueue, store, copro,
                   events>>

\* zb_net_ping()
Ping ==
    /\ pc = "ping"
    /\ \/ Answered /\ pc' = "register" /\ UNCHANGED retry
       \/ Unanswered /\ RetryOrHalt
    /\ UNCHANGED <<item, resuming, locals, public, areqs, cmdQueue, store, copro,
                   events>>

\* zb_net_get_version() and zb_net_af_register(), whose failure is only
\* logged; ZNP_INIT is over and the failure counter starts again.
Register ==
    /\ pc = "register"
    /\ pc' = "load"
    /\ retry' = 0
    /\ UNCHANGED <<item, resuming, locals, public, areqs, cmdQueue, store, copro,
                   faults, events>>

-----------------------------------------------------------------------------
(* NETWORK_CHECK: handle_network_check() *)

LoadConfig ==
    /\ pc = "load"
    /\ s_state' = "NETWORK_CHECK"
    /\ want' = LoadNetConfig(config)
    /\ active' = Active(want')
    /\ pc' = "readPan"
    /\ UNCHANGED <<retry, item, resuming, nvPan, latePan, loaded, joinWindow,
                   announced, areqs, cmdQueue, store, copro, faults, events>>

ReadPanId ==
    /\ pc = "readPan"
    /\ pc' = "readChannel"
    /\ \E value \in PanValues \cup {Absent} :
           /\ ReadNv("PANID", value) /\ nvPan' = value
           /\ latePan' \in {FALSE, value = Zero /\ faults' # faults /\ chip # "booting"}
    /\ UNCHANGED <<retry, item, resuming, want, loaded, public, areqs, cmdQueue,
                   store, copro, events>>

\* The second read, and the way the task takes from there. If the first one
\* timed out its SRSP may be taken for this one's: a PAN ID is no mask of the
\* channel wanted when no PAN ID was read, and a missing item is missing.
ReadChanlist ==
    /\ pc = "readChannel"
    /\ item' = 1
    /\ \E value \in ChannelValues \cup {Absent} :
           /\ \/ ReadNv("CHANLIST", value)
              \/ latePan /\ NoFault /\ value = IF nv.PANID = Absent THEN Absent ELSE Zero
           /\ LET verdict == NvState(nvPan, value)
              IN  /\ resuming' = (verdict = "match")
                  /\ \/ verdict = "empty" /\ pc' = "form" /\ s_state' = "FORMING"
                     \/ verdict = "match" /\ pc' = "startup" /\ s_state' = "FORMING"
                     \/ verdict = "mismatch" /\ pc' = "clear" /\ s_state' = "RECONFIGURING"
    /\ latePan' = FALSE
    /\ UNCHANGED <<retry, want, nvPan, loaded, active, joinWindow, announced, areqs,
                   cmdQueue, store, copro, events>>

-----------------------------------------------------------------------------
(* RECONFIGURING and FORMING *)

\* handle_reconfiguring() clears three items and ignores what that returns.
ClearNv ==
    /\ pc = "clear"
    /\ \E ok \in BOOLEAN : WriteNv(ClearOrder[item], Zero, ok)
    /\ IF item < Len(ClearOrder)
       THEN item' = item + 1 /\ UNCHANGED <<pc, s_state>>
       ELSE item' = 1 /\ pc' = "form" /\ s_state' = "FORMING"
    /\ UNCHANGED <<retry, resuming, locals, active, joinWindow, announced, areqs,
                   cmdQueue, store, chip, events>>

\* A bug: a failed write is logged and the next one follows.
FormNetworkIgnoringErrors ==
    /\ pc = "form"
    /\ \E i \in {FormOrder[item]}, ok \in BOOLEAN :
           WriteNv(i, IF i \in DOMAIN FormValue THEN FormValue[i] ELSE Zero, ok)
    /\ UNCHANGED retry
    /\ \/ item < Len(FormOrder) /\ item' = item + 1 /\ UNCHANGED pc
       \/ item = Len(FormOrder) /\ item' = 1 /\ pc' = "startup"
    /\ UNCHANGED <<resuming, locals, public, areqs, cmdQueue, store, chip, events>>

\* zb_net_form_network(): five writes, the first that fails ends it.
FormNetwork ==
    /\ pc = "form"
    /\ \E i \in {FormOrder[item]}, ok \in BOOLEAN :
           /\ WriteNv(i, IF i \in DOMAIN FormValue THEN FormValue[i] ELSE Zero, ok)
           /\ \/ ~ok /\ RetryOrHalt /\ item' = 1
              \/ /\ ok
                 /\ UNCHANGED retry
                 /\ \/ item < Len(FormOrder) /\ item' = item + 1 /\ UNCHANGED pc
                    \/ item = Len(FormOrder) /\ item' = 1 /\ pc' = "startup"
    /\ UNCHANGED <<resuming, locals, public, areqs, cmdQueue, store, chip, events>>

\* zb_net_startup_and_wait(): ZDO_STARTUP_FROM_APP, whose status is only
\* logged. A coprocessor that answers too late starts all the same.
StartupFromApp ==
    /\ pc = "startup"
    /\ \/ /\ pc' = "wait" /\ UNCHANGED retry
          /\ \/ Answered /\ chip' = "starting"
             \/ Fault /\ chip # "booting" /\ UNCHANGED chip
       \/ /\ RetryOrHalt
          /\ \/ Unanswered /\ UNCHANGED chip
             \/ Fault /\ chip # "booting" /\ chip' = "starting"
    /\ UNCHANGED <<item, resuming, locals, public, areqs, cmdQueue, store, memory,
                   events>>

\* Its loop drops every frame up to the first DEV_ZB_COORD.
WaitForCoordinator ==
    /\ pc = "wait"
    /\ areqQueue # <<>>
    /\ areqQueue' = Tail(areqQueue)
    /\ pc' = IF Head(areqQueue) # "COORD" THEN "wait"
             ELSE IF resuming THEN "enterReady" ELSE "save"
    /\ UNCHANGED <<retry, item, resuming, locals, public, resetInd, resetLost,
                   cmdQueue, store, copro, faults, events>>

\* A bug: the loop has no deadline.
WaitForever == pc = "wait" /\ areqQueue = <<>> /\ UNCHANGED vars

WaitTimeout ==
    /\ pc = "wait"
    /\ (areqQueue = <<>> /\ chip # "starting" /\ NoFault) \/ Fault
    /\ RetryOrHalt
    /\ UNCHANGED <<item, resuming, locals, public, areqs, cmdQueue, store, copro,
                   events>>

\* save_net_config(), after FORMING only; a failure is only logged.
SaveNetConfig ==
    /\ pc = "save"
    /\ pc' = "enterReady"
    /\ \/ config' = want /\ NoFault
       \/ UNCHANGED config /\ Fault
    /\ UNCHANGED <<retry, item, resuming, locals, public, areqs, cmdQueue, setting,
                   copro, events>>

-----------------------------------------------------------------------------
(* READY: handle_ready() *)

EnterReady ==
    /\ pc = "enterReady"
    /\ s_state' = "READY"
    /\ announced' = "READY"
    /\ retry' = 0
    /\ pc' = "commands"
    /\ UNCHANGED <<item, resuming, locals, active, joinWindow, areqs, cmdQueue,
                   store, copro, faults, events>>

\* A bug: the join window survives the network.
LeaveReadyOpen ==
    /\ UNCHANGED joinWindow
    /\ announced' = "LOST"
    /\ pc' = "reset"

\* A bug: the loss of the network is not announced.
LeaveReadySilently ==
    /\ joinWindow' = "closed"
    /\ UNCHANGED announced
    /\ pc' = "reset"

\* NETWORK_LOST, and back to ZNP_INIT; until ZnpInit the state is still READY.
LeaveReady ==
    /\ joinWindow' = "closed"
    /\ announced' = "LOST"
    /\ pc' = "reset"

\* One turn of the loop that drains the command queue, with process_cmd().
DrainCommands ==
    /\ pc = "commands"
    /\ \/ /\ cmdQueue = <<>>
          /\ pc' = "receive"
          /\ UNCHANGED <<cmdQueue, joinWindow, announced, loaded>>
       \/ /\ cmdQueue # <<>>
          /\ cmdQueue' = Tail(cmdQueue)
          /\ LET cmd == Head(cmdQueue)
             IN  \/ /\ cmd.type = "PERMIT_JOIN"
                    /\ joinWindow' = cmd.window
                    /\ UNCHANGED <<pc, announced, loaded>>
                 \/ /\ cmd.type = "CHANGE_CHANNEL"
                    /\ loaded' = [(IF config = Absent THEN ZeroConfig ELSE config)
                                  EXCEPT !.channel = cmd.channel]
                    /\ pc' = "changeChannel"
                    /\ UNCHANGED <<joinWindow, announced>>
                 \/ /\ cmd.type = "RECONFIGURE"
                    /\ LeaveReady
                    /\ UNCHANGED loaded
    /\ UNCHANGED <<retry, item, resuming, want, nvPan, latePan, s_state, active,
                   areqs, store, copro, faults, events>>

\* The second half of CHANGE_CHANNEL: save the copy, failure ignored.
ChangeChannel ==
    /\ pc = "changeChannel"
    /\ \/ config' = loaded /\ NoFault
       \/ UNCHANGED config /\ Fault
    /\ LeaveReady
    /\ UNCHANGED <<retry, item, resuming, locals, s_state, active, areqs, cmdQueue,
                   setting, copro, events>>

\* A bug: SYS_RESET_IND is handed to the device manager like any other frame.
DispatchAreq ==
    /\ pc = "receive"
    /\ areqQueue # <<>>
    /\ areqQueue' = Tail(areqQueue)
    /\ pc' = "commands"
    /\ UNCHANGED <<joinWindow, announced>>
    /\ UNCHANGED <<retry, item, resuming, locals, s_state, active, resetInd,
                   resetLost, cmdQueue, store, copro, faults, events>>

\* The next AREQ; all but SYS_RESET_IND are for the device manager.
ReceiveAreq ==
    /\ pc = "receive"
    /\ areqQueue # <<>>
    /\ areqQueue' = Tail(areqQueue)
    /\ \/ Head(areqQueue) = "RESET" /\ LeaveReady
       \/ /\ Head(areqQueue) # "RESET"
          /\ pc' = "commands"
          /\ UNCHANGED <<joinWindow, announced>>
    /\ UNCHANGED <<retry, item, resuming, locals, s_state, active, resetInd,
                   resetLost, cmdQueue, store, copro, faults, events>>

\* A bug: the receive waits without a limit.
ReceiveBlocks == pc = "receive" /\ areqQueue = <<>> /\ UNCHANGED vars

\* None within 100 ms: back to the command queue.
ReceiveTimeout ==
    /\ pc = "receive"
    /\ areqQueue = <<>>
    /\ pc' = "commands"
    /\ UNCHANGED <<retry, item, resuming, locals, public, areqs, cmdQueue, store,
                   copro, faults, events>>

\* vTaskSuspend(NULL)
Halted == pc = "halted" /\ UNCHANGED vars

-----------------------------------------------------------------------------
(* The coprocessor (external) *)

\* After a reset it boots and reports SYS_RESET_IND: the transport gives the
\* semaphore, then posts the frame. The report may be lost on the UART.
ChipBoots ==
    /\ chip = "booting"
    /\ chip' = "idle"
    /\ \/ resetInd' = TRUE /\ Post("RESET") /\ NoFault
       \/ UNCHANGED <<areqQueue, resetInd>> /\ resetLost' = TRUE /\ Fault
    /\ UNCHANGED <<task, locals, public, cmdQueue, store, memory, events>>

\* The coordinator is up and says so in a ZDO_STATE_CHANGE_IND.
ChipStarts ==
    /\ chip = "starting"
    /\ chip' = "coord"
    /\ \/ Post("COORD") /\ NoFault
       \/ UNCHANGED <<areqQueue, resetLost>> /\ Fault
    /\ UNCHANGED <<task, locals, public, resetInd, cmdQueue, store, memory, events>>

\* Traffic of the Zigbee network.
ChipReports ==
    /\ chip = "coord"
    /\ events < MaxEvents
    /\ events' = events + 1
    /\ Post("DEVICE")
    /\ UNCHANGED <<task, locals, public, resetInd, cmdQueue, store, copro, faults>>

\* It resets on its own: a watchdog, a brown-out, someone's finger.
ChipResets ==
    /\ chip # "booting"
    /\ chip' = "booting"
    /\ Fault
    /\ UNCHANGED <<task, locals, public, areqs, cmdQueue, store, memory, events>>

-----------------------------------------------------------------------------
(* Applications, and the restart of the ESP32 *)

\* zb_cmd_permit_join(), zb_cmd_change_channel(), zb_cmd_reconfigure(). A
\* call that finds the queue full returns an error and changes nothing.
Submit(cmd) ==
    /\ events < MaxEvents
    /\ events' = events + 1
    /\ Len(cmdQueue) < CmdDepth
    /\ cmdQueue' = Append(cmdQueue, cmd)
    /\ UNCHANGED <<task, locals, public, areqs, store, copro, faults>>

\* zb_network_param_set() saves its argument, or returns the error ...
ParamSave(cfg) ==
    /\ events < MaxEvents
    /\ events' = events + 1
    /\ setting = Absent
    /\ \/ config' = cfg /\ setting' = cfg /\ NoFault
       \/ UNCHANGED store /\ Fault
    /\ UNCHANGED <<task, locals, public, areqs, cmdQueue, copro>>

\* ... and asks for a reconfiguration when that differs from what is active.
ParamTrigger ==
    /\ setting # Absent
    /\ setting' = Absent
    /\ IF /\ s_state = "READY"
          /\ Active(setting) # active
          /\ Len(cmdQueue) < CmdDepth
       THEN cmdQueue' = Append(cmdQueue, [type |-> "RECONFIGURE"])
       ELSE UNCHANGED cmdQueue
    /\ UNCHANGED <<task, locals, public, areqs, config, copro, faults, events>>

\* RAM is gone; config.json and the coprocessor stay as they are.
EspRestarts ==
    /\ Fault
    /\ pc' = "reset" /\ retry' = 0 /\ item' = 1 /\ resuming' = FALSE
    /\ want' = ZeroConfig /\ nvPan' = Zero /\ latePan' = FALSE /\ loaded' = ZeroConfig
    /\ s_state' = "UNINITIALIZED" /\ active' = Active(ZeroConfig)
    /\ joinWindow' = "closed" /\ announced' = "NONE"
    /\ areqQueue' = <<>> /\ resetInd' = FALSE /\ resetLost' = FALSE
    /\ cmdQueue' = <<>> /\ setting' = Absent
    /\ UNCHANGED <<config, copro, events>>

-----------------------------------------------------------------------------
(* The specification *)

\* A hub that was never used, or one whose config.json and NV date from
\* earlier runs and need not agree (an edited or deleted file).
Init ==
    /\ \/ config = Absent /\ nv = EmptyNv
       \/ /\ config \in [pan : Pans, channel : Channels, key : Keys] \cup {Absent}
          /\ nv \in [PANID : Pans, CHANLIST : Channels, PRECFGKEY : Keys]
    /\ pc = "reset" /\ retry = 0 /\ item = 1 /\ resuming = FALSE
    /\ want = ZeroConfig /\ nvPan = Zero /\ latePan = FALSE /\ loaded = ZeroConfig
    /\ s_state = "UNINITIALIZED" /\ active = Active(ZeroConfig)
    /\ joinWindow = "closed" /\ announced = "NONE"
    /\ areqQueue = <<>> /\ resetInd = FALSE /\ resetLost = FALSE
    /\ cmdQueue = <<>> /\ setting = Absent
    /\ chip = "idle" /\ late = 0 /\ slow = FALSE /\ faults = 0 /\ events = 0

Bringup ==
    \/ ZnpInit \/ PulseReset \/ ResetHeard \/ ResetTimeout \/ Ping \/ Register
    \/ LoadConfig \/ ReadPanId \/ ReadChanlist
    \/ ClearNv \/ FormNetwork \/ StartupFromApp
    \/ WaitForCoordinator \/ WaitTimeout \/ SaveNetConfig

Ready ==
    EnterReady \/ DrainCommands \/ ChangeChannel \/ ReceiveAreq \/ ReceiveTimeout

FrameworkTask == Bringup \/ Ready
Chip == ChipBoots \/ ChipStarts \/ ChipReports \/ ChipResets
Applications ==
    \/ \E cmd \in Requests : Submit(cmd)
    \/ \E cfg \in Settings : ParamSave(cfg)
    \/ ParamTrigger

Next == FrameworkTask \/ Chip \/ Applications \/ EspRestarts \/ Halted

Spec == Init /\ [][Next]_vars

\* The task is scheduled and its calls return, the coprocessor finishes what
\* it began; faults, traffic and requests are up to the environment.
FairSpec ==
    Spec /\ WF_vars(FrameworkTask) /\ WF_vars(ChipBoots) /\ WF_vars(ChipStarts)
         /\ WF_vars(ParamTrigger)

-----------------------------------------------------------------------------
(* Properties *)

PcValues ==
    {"reset", "pulse", "resetWait", "ping", "register", "load", "readPan",
     "readChannel", "clear", "form", "startup", "wait", "save", "enterReady",
     "commands", "changeChannel", "receive", "halted"}

TaskTypeOK ==
    /\ pc \in PcValues
    /\ \/ retry \in 0 .. MaxInitRetries
       \/ retry = MaxInitRetries + 1 /\ pc = "halted"
    /\ item \in 1 .. Len(FormOrder)
    /\ resuming \in BOOLEAN
    /\ want \in NetConfig /\ loaded \in NetConfig
    /\ nvPan \in PanValues \cup {Absent} /\ latePan \in BOOLEAN

PublicTypeOK ==
    /\ s_state \in States
    /\ active \in [pan : PanValues, channel : ChannelValues]
    /\ joinWindow \in Windows
    /\ announced \in {"NONE", "READY", "LOST"}

QueueTypeOK ==
    /\ cmdQueue \in Seq(Command) /\ Len(cmdQueue) <= CmdDepth
    /\ areqQueue \in Seq(Areq) /\ Len(areqQueue) <= AreqDepth
    /\ resetInd \in BOOLEAN /\ resetLost \in BOOLEAN

WorldTypeOK ==
    /\ config \in NetConfig \cup {Absent} /\ setting \in NetConfig \cup {Absent}
    /\ chip \in {"booting", "idle", "starting", "coord"}
    /\ nv \in NvContents
    /\ late \in Nat /\ slow \in BOOLEAN
    /\ faults \in 0 .. MaxFaults /\ events \in 0 .. MaxEvents

TypeOK == TaskTypeOK /\ PublicTypeOK /\ QueueTypeOK /\ WorldTypeOK

\* The framework may be in its READY loop, or just about to leave it.
InReady == pc \in {"commands", "changeChannel", "receive"}

\* READY is only reported on the PAN and channel the coprocessor holds in NV,
\* which it starts its network with: no refused, lost or half-done write of
\* zb_net_form_network() and no misread of zb_net_check_nv_state(), one that is
\* answered with the SRSP of another read included, gets a different network
\* past NETWORK_CHECK (FR-2.6, FR-11.1). This is claimed as long as no NV write
\* of the bring-up was answered after its timeout. It fails otherwise: a failed
\* clear of handle_reconfiguring() is ignored, and its SRSP can stand in for
\* that of a write that is lost while the network is formed.
ReadyParamsInNv ==
    s_state = "READY" /\ ~slow => nv.PANID = active.pan /\ nv.CHANLIST = active.channel

\* In the READY loop a coprocessor that is not a coordinator (it was reset,
\* or a report of an earlier start was taken for this one) is found out: its
\* SYS_RESET_IND is still to come or waits in the queue, unless that frame
\* was itself lost or dropped (FR-2.8).
DeadCoordinatorNoticed ==
    InReady /\ chip # "coord" =>
        \/ chip = "booting"
        \/ \E i \in DOMAIN areqQueue : areqQueue[i] = "RESET"
        \/ resetLost

\* A DEV_ZB_COORD report with no SYS_RESET_IND behind it is the report of the
\* coordinator that runs now. This is what DeadCoordinatorNoticed rests on.
FreshCoordReport ==
    \A i \in DOMAIN areqQueue :
        /\ areqQueue[i] = "COORD"
        /\ \A j \in DOMAIN areqQueue : j > i => areqQueue[j] # "RESET"
        => chip \in {"coord", "booting"} \/ resetLost

\* Outside READY the join window that zb_network_info_get() reports is closed,
\* whichever way READY was left (FR-11.2, FR-11.6).
WindowOnlyWhenReady == joinWindow # "closed" => s_state = "READY"

\* zb_network_info_get(): the status an application sees (FR-11.3).
Status ==
    CASE s_state \in {"UNINITIALIZED", "ZNP_INIT"} -> "OFFLINE"
      [] s_state \in {"NETWORK_CHECK", "FORMING", "RECONFIGURING"} -> "FORMING"
      [] s_state = "READY" -> "READY"

\* What applications rely on: NETWORK_READY and NETWORK_LOST alternate,
\* commands run in the order they were accepted and only in between, none is
\* forgotten while the ESP32 runs (FR-5.3, FR-6.6).
Service == INSTANCE HubService
    WITH Commands <- Command, QueueDepth <- CmdDepth, status <- Status,
         announced <- announced = "READY", pending <- cmdQueue,
         joinOpen <- joinWindow # "closed"

ServiceSpec == Service!Spec

\* Every accepted command is run in the end, however often the coprocessor
\* fails in between, unless the task gives up for good (FR-6.6).
CommandsServed == cmdQueue # <<>> ~> cmdQueue = <<>> \/ pc = "halted"

\* Once failures stop the hub gets back to READY without help, unless the
\* task gave up (FR-2.8).
ReadyAgain == []<>(s_state = "READY" \/ pc = "halted")

\* ... and stays there: what FR-2.8 and TC-2.05 ("READY restored within 15
\* s") mean by restoring the network.
StaysReady == <>[](s_state = "READY" \/ pc = "halted")

\* FR-3.3: the network key is provisioned on coordinator initialization, so
\* the network that is READY is never secured by a cleared key.
KeyProvisioned == s_state = "READY" => nv.PRECFGKEY # Zero
=============================================================================
