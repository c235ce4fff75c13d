# Zigbee-Hub in TLA+

A verification project for the Zigbee-Hub firmware: an ESP32 that drives a
CC2652P7 Zigbee coprocessor over a UART (ZNP, the monitor and test protocol),
forms and supervises a Zigbee network, keeps a registry of devices and offers a
C API to applications. The modules here are read with the code under `src/`
beside them; `PROJECT.json` maps every definition to the lines it stands for.

## 1. Inventory

| Component | Source | State | Operations |
|---|---|---|---|
| Framework task | `zb_framework.c` | state, active PAN and channel, join deadline, retry counter | one task: ZNP_INIT, NETWORK_CHECK, FORMING, RECONFIGURING, READY loop; `zb_network_info_get`, `zb_network_param_set` from other tasks |
| Network helpers | `zb_network.c` | none (NV lives in the coprocessor) | ping, version, NV read and write, NV check, form, startup and wait, permit join, AF register |
| Command queue | `zb_cmd.c` | a FreeRTOS queue of 16 | permit join, change channel, reconfigure; dequeue |
| Configuration file | `zb_storage_config.c` | `/zb/config.json` | load, save |
| ZNP transport | `znp_transport.c` | SREQ mutex, pending command, SRSP frame and semaphore, reset semaphore, raw queue (16), AREQ queue (32) | send SREQ, reset coprocessor, receive AREQ; RX task, dispatch task |
| MT framing | `znp_mt_protocol.c`, parser in `znp_rx_task` | parser state | encode, FCS, receive byte |
| Device registry | `zb_device_mgr.c` | 100 slots with address and capabilities | join, leave, learn capability, lookups, ZCL send, AREQ dispatch |
| Device storage | `zb_storage_device.c` | one file per device | save, load, delete, load all |
| Event bus | `zb_subscribe.c` | subscriber table 7 x 16, notify queue (32) | subscribe, unsubscribe, emit; notify task |
| Capability layer | `zb_cap.c`, `zb_cap_clusters.c` | table of schemas | translate attributes, set, get |
| Button | `zb_button.c` | five-state machine | poll |
| Main | `main.c` | none | start, poll for READY, subscribe |
| Storage mount, generated code | `zb_storage.c`, `proto/` | none | mount, nanopb tables |

The tasks are `znp_rx` and `znp_disp` (highest), `framework_task` (5),
`zb_notify` (4), `zb_btn` (3) and `app_main`, on two cores. They interact so:

    applications --command queue--> framework_task --SREQ--> UART --> CC2652P7
    applications --config.json----> framework_task
    CC2652P7 --> UART --> znp_rx --raw queue--> znp_disp --SRSP semaphore--> caller
                                                          --AREQ queue-----> framework_task
    framework_task --> device registry --> notify queue --> zb_notify --> callbacks

What makes it hard: every SREQ can be lost, refused, or answered too late; the
coprocessor can reset at any moment; what it reports goes through two bounded
queues that drop; the network's parameters are stored twice, in NV and in
`config.json`, and the ESP32 can restart between two writes; commands arrive in
any state; and only one mutex protects the transport, none the configuration.
The hazards are listed, each at its line, in `PROJECT.json`.

What makes each component correct:

- *Framework.* READY is announced only on the network NV holds; a coprocessor
  that dies is noticed; events alternate; commands run in order, once, and only
  while READY; the join window closes with the network; after the last failure
  the hub is READY again, and stays so.
- *Transport.* One SREQ at a time; an answer belongs to the SREQ; AREQs arrive in
  order and at most once; nobody keeps the mutex.
- *Parser.* It posts exactly the frames the decoder would accept, and after noise
  it finds the next one.
- *Device registry and storage.* The registry and the files agree, a slot never
  shows one device's capabilities as another's.
- *Event bus.* Every subscriber hears what it subscribed to, in order, and nothing
  once it has unsubscribed. (FR-5.8 asks for the dedicated task only; that nothing
  due is left out is what the table, mutex and queue of that task must provide.)
- *Main and capability layer.* READY opens the network; what is shown of a cluster
  is what its device reported last.
- *Button.* One gesture, one event, and a press opens the network; the time shown
  for the join window is the window's.

## 2. Modules

| Module | Models |
|---|---|
| `ZbFramework` | framework task, network helpers, command queue, configuration file; the coprocessor as environment |
| `HubService` | abstract: what the hub promises to applications |
| `ZbFrameworkProofs` | TLAPS proofs about `ZbFramework` |
| `ZnpTransport` | SREQ callers, RX and dispatch tasks, hard reset; UART and coprocessor as environment |
| `LossyFifo` | abstract: a channel that loses but never reorders or repeats |
| `ZnpTransportProofs` | TLAPS proofs about `ZnpTransport` |
| `ZbDeviceMgr` | device registry, device storage, a task that looks an address up; the network as environment |
| `ZbDeviceMgrProofs` | TLAPS proofs about `ZbDeviceMgr` |
| `ZnpRx` | the byte-wise parser of `znp_rx_task` and the MT wire format; the line as environment |
| `ZnpRxProofs` | TLAPS proofs about `ZnpRx` |
| `Ticks` | the tick count modulo its width and `TickType_t` arithmetic |
| `ZbButton` | the button task, beside an observer of the pin |
| `ZbButtonProofs` | TLAPS proofs about `ZbButton` |
| `ZbJoinWindow` | join deadline, join window, `permit_join_ttl` |
| `JoinButton` | composes `ZbJoinWindow` with the button's events, the bus, the default handler and the command queue |
| `JoinButtonProofs` | TLAPS proofs about `JoinButton` and `ZbJoinWindow` |
| `ZbSubscribe` | the event bus |
| `ZbSubscribeProofs` | TLAPS proofs about the bus, whoever uses it |
| `ZbCap` | translation of attributes, data type sizes, schema table: pure operators |
| `HubEvents` | composes `ZbSubscribe` and `ZbCap` with `framework_task`, the ZCL parser and `main.c`; devices as environment |
| `HubEventsProofs` | TLAPS proofs about `HubEvents`, from those about the bus |
| `MC...` | small instances for TLC |

### ZbFramework

`pc` is the call `framework_task` is at, and one action is one call that can
block or fail: one SREQ, one queue operation, one access to `config.json`. The
order of the actions is the order of the calls in `handle_znp_init`,
`handle_network_check`, `handle_reconfiguring`, `handle_forming` and
`handle_ready`.

| pc | code |
|---|---|
| reset, pulse, resetWait | `znp_transport_reset_coprocessor` (the delays of 0.5, 1 and 2 s before it are merged into `reset`) |
| ping, register | `zb_net_ping`; `zb_net_get_version` and `zb_net_af_register`, whose failures are only logged |
| load, readPan, readChannel | `load_net_config`, the two reads of `zb_net_check_nv_state` and the branch on its verdict |
| clear, form | `handle_reconfiguring`'s three writes; `zb_net_form_network`'s five (`item` is the next) |
| startup, wait | the SREQ and the loop of `zb_net_startup_and_wait` |
| save, enterReady | `save_net_config`, the start of `handle_ready` |
| commands, changeChannel, receive | `handle_ready`'s loop, `process_cmd` |
| halted | `vTaskSuspend(NULL)` |

`s_state`, `active`, `joinWindow` are the module's static variables, which other
tasks read; `announced` is the last NETWORK_ event. `nv` and `config` survive a
restart of the ESP32 (`EspRestarts`), everything else starts again. `Init`
covers a hub that was never used and one whose file and NV date from earlier
runs and may disagree.

Abstractions: an SREQ and its SRSP are one step that succeeds, fails unseen, or
fails although it took effect (how that happens is `ZnpTransport`'s subject).
The NV requests, several of which share a command, can also be answered with the
SRSP of an earlier one that timed out: `late` counts such SRSPs of writes still to
come, and a write that takes one returns ESP_OK whether or not it was made;
`latePan` says that the answer to the PANID read may be taken for the CHANLIST
read's. `slow` says that an NV write was answered late since the coprocessor was
last heard to reset.
A read that times out leaves the caller's zeros. `SYS_RESET_IND` gives the
semaphore and is posted in one step: the PING that follows is answered through
the same dispatch task, so that the post has happened before anything can tell.
A save of `config.json` replaces it whole or not at all, as LittleFS does when
the file is closed. `config.json` is absent or well formed. A join window is
closed, timed or indefinite; what remains of it is not counted. AREQs other
than SYS_RESET_IND and DEV_ZB_COORD are for the device registry, one "DEVICE".

Every failure spends one of `MaxFaults`: a lost or refused SREQ, a pulse the
coprocessor misses, a report lost on the UART, a spontaneous reset, a restart of
the ESP32, a failed save, a wait that ends early. Every call of an application
and every report of a device spends one of `MaxEvents`.

### ZnpTransport

One action is one access of a task to a shared variable, since only
`s_sreq_mutex` is locked and the dispatch task preempts callers or runs on the
other core. A caller goes idle, mutex, type, id, drain, write, wait, copy, give
through `znp_transport_send_sreq_timeout`; `Framework` also goes pulse,
resetWait through `znp_transport_reset_coprocessor` and receives AREQs. `dpc` is
where `znp_dispatch_task` is, `frame` what it holds. `uart` holds the frames the
coprocessor has sent and `znp_rx_task` has not assembled; one that is damaged is
rejected (`RxReject`).

`seq`, `lag` and `base` are history variables of a caller: the number of its
SREQ, the number of timeouts before it, the last SRSP given before it cleared
the semaphore. `got` is the set of frames its answer was copied from: two when
the dispatch task replaces `s_srsp_frame` during the copy. The coprocessor
answers SREQs in order and at any time; it forgets them when it resets.

### ZbDeviceMgr

`framework_task` alone writes the registry, so that `zb_dev_mgr_on_areq` is cut
where someone else can see or break what is half done: at the three stores of a
join, which `s_mutex` hides from no reader; between opening a file and closing
it, where the ESP32 may restart; and before the event. `pc` is the next step,
`msg` the AREQ, `at` the slot. A reader (`FindDevice`, `ReadNwk`) is a task in
`zb_zcl_send`: it finds a slot, and reads its address later.

| Actions | code |
|---|---|
| JoinSlot, JoinIeee, JoinNwk, OpenFile, WriteFile, EmitJoined; JoinRefused | `zb_dev_mgr_join`, `zb_storage_device_save` |
| LeaveSlot, DeleteFile, EmitLeft | `zb_dev_mgr_leave`, `zb_storage_device_delete` |
| AfIncoming, SimpleDescRsp | `parse_af_incoming`, `parse_simple_desc_rsp`, `zb_dev_mgr_learn_cap` |
| FormNetwork | `handle_reconfiguring`, as far as devices are concerned |
| StartupDiscards | the loop of `zb_net_startup_and_wait` |
| Restart | `zb_dev_mgr_init`, `zb_storage_device_load_all`, `on_pb_device_loaded` |

`disk` holds the record in each device's file. LittleFS makes a new file, empty,
at `fopen` and replaces the content at `fclose`; an empty file decodes, without
an error, to a device with the address 0 (`NoDevice`, `Zero`), and `Restart`
loads it. A record has a field for the capabilities (`endpoints`), which `Restart`
restores; neither save fills it in, which is what `CapsOnDisk` finds.

`zb_dev_mgr_init` emits no event and no call lists the devices, so that an
application learns of a device only by its events. `seen` is a history variable,
the registry as an application builds it from nothing that follows DEVICE_JOINED
and DEVICE_LEFT since the boot; `booted` is what the boot loaded, less the devices
an event has told of since; `eventLost` says that an event was dropped at the full
notify queue. `EventsTellRegistry` is about the three together; `credited` is the sender of the last attribute report and the device
its event names; `trouble` is what has gone wrong so far: an AREQ lost at
the full queue (`overflow`) or while the coordinator starts (`discard`), a join
at the full registry (`full`), a file access (`io`), what a restart forgets
(`restart`), a network formed anew (`reformed`). Properties that do not hold after all of it say after which they do.

A device's network address is any that no other device has; it may change, and
an address is reused. AREQs are posted in the order in which things happen. The
answer to discovery comes at any time, as devices answer late or twice. A reader
looks up once: it changes nothing, so that one lookup meets every state there is.

### ZnpRx

One action is one byte in one state of the parser: `HuntSof`, `ReadLen`,
`ReadType`, `ReadId`, `ReadPayload`, `ReadFcs`. `payload` stands for
`payload_idx` and the bytes below it, so that a length above `MaxPayload` leaves
it short for ever, as in the code. `line` is what is left of the transmission;
its environment loses, changes or invents bytes anywhere, `MaxFaults` of them.
`sending` and `read` (the bytes since the SOF that was hunted for) are history
variables. Nothing in MT framing escapes an SOF, so that frames may hold one behind
the first byte; a frame that does not is `Plain`. `since` counts the bytes read
since the last damage, and starts again when a frame that is not plain is sent
before the parser has had the time to find its step: it may take the inner SOF for
the start. `ByteXor`
is a parameter; the small instance has bytes of two bits.

### ZbButton and JoinButton

`Poll` is one turn of the loop of `button_task`: it sleeps for 1 to `MaxStep`
ticks and samples a pin that may have any level. The observer follows the
samples: `down` is the level once it has lasted for the debounce time, `gap` and
`apart` the time between presses, `taps` the presses within the multi-press time
of each other, `told` and `owed` what has been and has still to be reported.
`glitch` says that a press too short to count has come in the multi-press window.

`ZbJoinWindow` holds the arithmetic: `deadline` is the code's, `open` and `age`
are the window in the coprocessor and the time since it was set. `JoinButton`
takes presses through the notify queue, `default_button_handler`, the command
queue and `process_cmd`, beside commands of the application. `phase` is where
`framework_task` is: not READY, draining commands, or waiting for an AREQ. The
handler's look at `s_state` (`Handle`) and its call of `zb_cmd_permit_join`
(`Permit`) are two steps, READY may be left between them. One SINGLE queued in
READY is followed: its event and its command are marked, and `fate` says what
became of it. It lets the button emit any kind at any time, which includes all
that `ZbButton` does.

### ZbSubscribe, ZbCap, HubEvents

`table`, `locked`, `queue` are the bus's state; the notify task takes an event,
takes the mutex, calls the callbacks in the event's row of the table one by one
and gives the mutex back; `todo` is that row without those already
called. `due` is a history variable: the events in the bus that a callback had
subscribed to when they were emitted.

`HubEvents` adds `framework_task` as far as events go (`fwpc`; the rest is
`ZbFramework`'s), the ZCL part of `parse_af_incoming`, one record per step since
each emits an event, and `app_main`, one subscription per step. `told` is what
devices have reported, `shown` what `on_cap_event` last printed; `netLost` and
`capLost` say that an event was dropped or came before main had subscribed, and
`capLost` also that a report was lost on the line or at the full AREQ queue (`Send`
decides), was thrown away at a restart of the network, came of a sender that
`find_by_nwk` does not know, or held attributes the layer does not tell apart. `Translation` is
a table in the order of the cases of `translate_to_typed`; the value is a number,
lowest byte first; reports are those whose values have as many bytes as their
types say (`Fits`, assumed of `Reports`). Addresses and endpoints, and with them
which senders are unknown, are `ZbDeviceMgr`'s: here any may be. Only main's own
commands are in the command queue; those of other tasks, which can fill it, are in
`ZbFramework` and `JoinButton`. A command is `asked` once it has run, whether or not
the coprocessor granted it.

## 3. Runs

| Run | Properties | Shows |
|---|---|---|
| `framework` | `TypeOK ReadyParamsInNv DeadCoordinatorNoticed FreshCoordReport WindowOnlyWhenReady ServiceSpec CommandsServed ReadyAgain` | safety of the framework and that it implements `HubService`; accepted commands are served; READY comes back |
| `stays_ready` (violation) | `StaysReady` | one restart at the wrong moment and READY and LOST alternate for ever |
| `key_provisioned` (violation) | `KeyProvisioned` | one refused write and a network is READY with a cleared key |
| `transport` | `TypeOK AnswerLag AnswerFresh AreqFifo MutexReleased` | how old an answer can be; AREQs keep their order; the mutex is given back |
| `devices` | `TypeOK RegistryOnDisk EventsTellRegistry ReportsNameSender RegistryFollowsNetwork LookupSettled` | registry, files, events and network agree; lookups of settled devices are right |
| `caps_on_disk` (violation) | `CapsOnDisk` | the record saved after discovery names no capability |
| `rx` | `TypeOK RecoversUnlessStuck PostsWhatDecodes InStepFramesArrive` | the parser posts what decodes and finds its step again when plain frames follow |
| `parser_recovers` (violation) | `Recovers` | a damaged length byte over 250 stops the parser for ever |
| `button` | `TypeOK FsmFollowsPin PressReported CountTellsTaps LongOncePerPress` | gestures against bounce and the wrap of the tick count |
| `join` | `TypeOK TtlTellsWindow PressOpensNetwork` | a press taken in READY gets its command run, here or in a later READY; the time left is told right |
| `events` | `TypeOK AllHear HeardInOrder NoCallUnsubscribed NetworkKnown OpensIfHeard ShownIsReported` | delivery of events, and what main makes of them |
| `opens_on_ready` (violation) | `OpensOnReady` | main misses the first READY and the network stays closed |

Bounds. Framework: one PAN ID, two channels and one key besides the unset value
are enough for NV and `config.json` to match, differ in a parameter, or be empty
or cleared. An AREQ queue of two fills up with any two of a reset report, a start
report and a device; a command queue of two holds a command behind the one that ends
READY. One retry and two faults reach `halted` and every pair of failures, two
events a command and a concurrent parameter change. Transport: two callers, two
commands of one subsystem (they differ in the id only, so that a half-replaced
pending command is seen), two calls, one report, one fault. Timeouts are not faults: an
SREQ may time out at any time, so that late answers need none. Devices: with
three devices and two slots the registry fills up and slots are reused; with two
addresses an address is reused and changed; four events are a join, a leave, a
join at the same address or slot, and a report, or a network formed anew between
two of them; two faults are a restart after a failed file access, or after a lost
event; `MaxCaps` is 1 and one device has
two, so that its table fills up. The devices with one capability are symmetric,
and so are the addresses. Parser: the payload limit is 2 and the greatest byte 3,
so that one length is over the limit as 251 to 255 are; one of the three frames has
an SOF for a payload; two damaged bytes can change a length and then fake the end
of a frame. Button: the tick count wraps
after 16 and the thresholds, 2, 4 and 3, are reached exactly or overshot by
samples one or two ticks apart. Join: a window of two of 8 ticks, set at any
count, so that every deadline is met, 0 and the sentinel included; durations of 0,
1 and 255; a bus of one fills up, and a command queue of two has the followed
command behind one that leaves READY. Events: a
queue of two and two slots per type fill up; two things that happen are a report
beside a loss of the network, or two reports. `MCEvents` also evaluates the
translation of each standard attribute at the boundary values of its type. All
safety properties of the passing runs are also proved for every size (section 4),
so that the bounds matter for the four liveness properties only.

Fairness (`FairSpec`). `framework_task` runs and each of its calls returns: all
its waits have a limit. The coprocessor boots and starts when told to. A
`zb_network_param_set` that saved goes on. No fairness is assumed for faults,
requests or traffic. `MutexReleased` needs the caller to be scheduled and its
wait to end (it has a limit), nothing of the coprocessor. `PressOpensNetwork`
needs the notify task and `framework_task` to be scheduled, of which the latter
waits 100 ms at most for an AREQ. That the hub is READY again and again is its
premise, no fairness: READY may be left at every step, and the command is still
run, in order, in a later one. It ends by the run of the followed press's own
command, with the request granted or refused, or by the drop that is named; that
some other command opens the network does not count.

The five violations are disagreements of code and documentation, in
`PROJECT.json` under `findings`, each with the line it contradicts.

## 4. Proofs

`ZbFrameworkProofs` proves for every size of the instance that `Spec` implies
`[]TypeOK` (`TypeCorrect`), the task invariant (`TaskInvariant`), and from it
`[]ReadyParamsInNv` (`ReadyParams`), `[]WindowOnlyWhenReady` (`WindowClosed`) and
`ServiceSpec` (`ImplementsService`); with an invariant of its own
`[]FreshCoordReport` (`FreshReport`) and `[]DeadCoordinatorNoticed` (`DeadNoticed`).

`ReadyParamsInNv` says nothing of the states before READY, so it is not
inductive. The invariant `IInv` adds where each value comes from: from LOAD on,
`active` is what the task wants; while it forms, the items before `item` have
been written; from STARTUP to the loop NV holds what it wants, because nothing
else writes NV; `announced` and the window follow `pc`; and `s_state` is READY
only in the loop and on the way out of it. That is also what the refinement
needs: the step to READY and its event are one step of `HubService` (`Up`), the
loss is announced (`Down`, `ServeLast`) before `ZnpInit` shows it (`Leave`), and
commands are taken where `announced` says so. All other steps stutter.

`ChipInv` relates the queue to the coprocessor. A start report is taken in WAIT,
so that two things must hold before: a coprocessor that was heard to reset runs
nothing until it is told to (`StoppedOnceHeard`), and a report with no reset
report behind it is the running coordinator's (`FreshCoordReport`). From the
report on, `DeathQueued` says where the news of its death is.

`ZnpTransportProofs` proves, for any number of tasks and queues of any depth,
`[]TypeOK` (`TransportTypes`), `[]AnswerLag` (`AnswersLagByTimeouts`),
`[]AnswerFresh` (`AnswersAreFresh`) and that the section under `s_sreq_mutex`
has one task in it at a time (`OneSreqAtATime`). The invariant has three layers:

- `Order`: the numbers of SRSPs grow strictly along `srspFrame`, `frame`,
  `rawQueue`, `uart`, `toChip`, and none exceeds `sent`. Steps move an SRSP one
  place up this path or lose it. One lemma says that what is to come after `m`
  still does so after a step (`ComeAfterStep`); all the rest of the layer
  is about heads, tails and appended frames.
- `Lag`: every SREQ that ended with an answer used up at least one SRSP, so that
  all that can still be given is younger than `Floor`, the SREQs sent less
  those that timed out and less the one that waits. Only `TakeSrsp` raises
  `Floor`, and the token it takes pays for that (`TokenLag`). Here the mutex is
  needed: with two tasks waiting, one token could be taken for the other's SRSP.
- `Fresh`: a token given after a caller cleared the semaphore stands for an SRSP
  younger than the last one given before.

The assumptions are those on the constants (`TransportAssumption`) and that the
coprocessor answers SREQs in order, which is in the model's `ChipAnswers`.

The module also proves the refinement `AreqFifo` (`ImplementsFifo`). The content of
the channel, `InFlight`, is the numbers of the AREQs in `areqQueue`, in the hands of
the dispatch task, in `rawQueue` and on the UART. `Numbers` is a recursive function
of the queue, and the two lemmas that the steps need, on a frame put at the end
(`NumbersAppend`) and one taken from the front (`NumbersHead`), go by induction on
its length. The library's induction theorems cannot be instantiated by the provers
at hand, so `NatSetInduction` states induction with a set instead of a predicate, and
rests on the pigeonhole theorem. Then a frame that changes queues leaves `InFlight`
alone, a full queue is `Lose`, and the framework's receive is `Receive`. One
invariant is needed: the answers the coprocessor still owes are SRSPs, not AREQs.

`ZnpRxProofs` proves, for any set of bytes, payload limit, checksum and history of
the line, `[]TypeOK` (`TypeCorrect`), `PostsWhatDecodes` (`PostsTheDecoded`) and
`InStepFramesArrive` (`InStepArrives`), from the invariant that the registers hold
the parts of what has been read since the SOF (`ReadParts`, `ReadLength`). Three
more theorems say how the parser gets in and out of step: only a fault takes it
out (`StaysInStep`), so that without faults it is in step for ever
(`UndamagedInStep`), and nothing leads out of a length above the limit
(`StuckForEver`), which is the finding of `parser_recovers` for real sizes. That it
finds its step otherwise, `RecoversUnlessStuck` (`RecoversOtherwise`), needs a count:
`Resync` says that a wrong frame begun before the line was clean has all the bytes
counted since in it (`InWrong`), so that they are no more than the longest frame has,
and that when it ends, what is left of the frame it ends in has no SOF and fits into
the two lengths (`InRest`).
`RxAssumption` has the form of the frames that are sent: their length is that of
their payload and within the limit. Nothing is assumed of the bytes inside: frames
with an SOF in them are sent as well, and `since` keeps count of those sent out of
step. In step, where InStep is an invariant until the next damage, they do no harm.

`ZbButtonProofs` proves for all thresholds, sampling times and widths of the tick
count `[]TypeOK` (`TypeCorrect`), `[]FsmFollowsPin` (`FollowsPin`) and
`LongOncePerPress` (`LongOnce`). The invariant says what `state_enter` means in
each state: in one that debounces, the time in the state is the time the pin has
been the same (`Knows`); in HELD, until LONG is told, the time since the press
(`Holds`). Lemma `Elapsed` is about the wrap: a difference of counts is the time
passed, as long as that is less than the wrap. `ButtonAssumption` asks that a poll
is never late by so much. `CountTellsTaps` (`CountIsTaps`) and `PressReported`
(`PressIsReported`) say nothing of the states between two presses; the second
invariant, `Counts`, does: `press_count` is positive exactly while something is owed,
between presses the time in the state is the gap, and without a glitch the count is
that of the presses close to each other.

`JoinButtonProofs` proves for all tick rates, durations and widths of the count
`[]TypeOK` (`TypeCorrect`) and `[]TtlTellsWindow` (`TtlIsWindows`). Its invariant
is `DeadlineTellsWindow`: the signed difference of deadline and count is what the
window has left, or one less where the sentinel was avoided. `WindowAssumption`
asks that durations are shorter than half the count, as the cast to a signed
difference does; the permit-join durations of one byte are.

`ZbDeviceMgrProofs` proves for any sets of devices, slots, addresses and
capabilities, and any depth of the queue, `[]TypeOK` (`TypeCorrect`),
`[]RegistryOnDisk` (`RegistryIsOnDisk`), `[]EventsTellRegistry` (`EventsTell`),
`[]ReportsNameSender` (`ReportsCredited`), `[]RegistryFollowsNetwork`
(`RegistryIsNetwork`) and `[]LookupSettled` (`LookupIsSettled`). The properties speak
of the moments between two AREQs, so the invariant says for each step of the
handler what is already true:

- `RegistryInv`: the slot a join is filling may still have the fields of the device
  that left it, so it is set aside; the others (`Held`) hold each device once.
- `EventsInv`, `DiskInv`: what the boot loaded and the events have told since, and
  what the files say, differs from `Held` at most for the device the handler is about. When a file access has failed, all that is left is
  that each file is empty or about its own device.
- `QueueInv`: an entry that is no longer true has a join or leave of its device in
  the queue (`Current`), the last of these says where the device is (`LastMove`), and
  before a report every device that had the sender's address has moved
  (`SenderInv`). Without `SenderInv`, `ReportsNameSender` is not inductive: that an
  address is reused only once it is free must be carried along the queue. The
  three hold as long as no join or leave is lost and the network is not formed anew;
  `Complete` needs that nothing is lost.
- `ReaderInv`: a lookup of a device that stays has a slot that is not being filled.

`ZbSubscribeProofs` is about the bus alone: each operation preserves `BusInv`
(`BusPreserved`), and `BusInv` implies `AllHear`, `HeardInOrder` and
`NoCallUnsubscribed` (`BusDelivers`). Its core is `DueOnWay`: an event that a callback
is due waits in the queue or is in delivery with the callback still in the row to
call. That the rest of the row is as in the table is what the mutex is for.

`HubEventsProofs` composes it with the other tasks: `[]TypeOK` (`TypeCorrect`), the
three properties of the bus (`AllAreHeard`, `InOrder`, `NoneUnsubscribed`),
`[]NetworkKnown` (`NetworkIsKnown`), `[]OpensIfHeard` (`ReadyOpens`) and
`[]ShownIsReported` (`ReportIsShown`). The last three speak of a moment when nothing is
on its way, and each has an invariant that follows the last word on its way: the
last event of the network in the queue tells the state of `framework_task`
(`KnownInv`), a READY is in the queue, in delivery or has become a command
(`OpenInv`), and the last thing a device said of a cluster is told by the last
report on its way (`air`), else by the frame in the parser, else by the last event in the
queue, else by the one in delivery, else it is shown (`ShownInv`). The lemma that
joins `ZbCap` to this says that what `on_cap_event` reads in an event is what the
record meant. `EventsAssumption` asks of `Reports` that values fit their types.

TLAPS proves neither liveness nor `ENABLED`, so `CommandsServed`, `ReadyAgain`,
`MutexReleased` and `PressOpensNetwork` are model-checked only. Every other property of
the passing runs has a theorem. The properties of the runs that expect a violation
are false, and have none.

## 5. Plan

1. Done: `ZbFramework` with `HubService`; `ZnpTransport` with `LossyFifo`;
   `ZbDeviceMgr`; `ZnpRx`; `ZbButton`; `ZbJoinWindow` and `JoinButton`;
   `ZbSubscribe`, `ZbCap` and `HubEvents`.
2. Done: `ZbFrameworkProofs`, `ZnpTransportProofs`, `ZnpRxProofs`, `ZbButtonProofs`,
   `JoinButtonProofs`, `ZbDeviceMgrProofs`, `ZbSubscribeProofs`, `HubEventsProofs`.
3. Left to prove: the safety halves of the liveness properties, for instance that an
   SREQ's steps to the release of the mutex cannot return to an earlier one; that
   `Notify` of `JoinButton` is a case of the bus.
4. Left to model: capabilities that are read without the lock.

## 6. Deviations found on the way, and what is not modelled

Behaviour that differs from what a comment or the FSD lets expect, met while
modelling and described here; the properties of the passing runs name the exact
condition under which they hold because of it.

- *Late answers* (`znp_transport.c:444`): an SRSP is matched by its command only,
  so that the late answer of an SREQ that timed out is returned for the next SREQ
  with the same command. `AnswerLag` and `AnswerFresh` bound how late. For the NV
  that means: a clear of `handle_reconfiguring` that times out is ignored
  (`zb_framework.c:180`-`182`), its SRSP answers the next write, and the shift goes
  on, so that a later write that is lost returns ESP_OK and READY comes with
  CHANLIST cleared (against FR-2.6). `ReadyParamsInNv` claims nothing once an NV
  write was answered late (`slow`).
- *Joins during the start* (`zb_network.c:316`): AREQs taken while the coordinator
  starts are thrown away, though the comment says they are processed later
  (`discard` in `RegistryFollowsNetwork`).
- *A network formed anew* (`zb_framework.c:172`): RECONFIGURE and CHANGE_CHANNEL wipe
  the coprocessor's NV but leave registry and files. Devices of the old network stay
  registered without a DEVICE_LEFT, and when a new device is given an address one
  of them had, `find_by_nwk` (`zb_device_mgr.c:68`-`75`) returns the first slot with
  it: its reports are credited to the old device. `ReportsNameSender` and
  `RegistryFollowsNetwork` claim nothing after it (`reformed`).
- *Devices at the start* (`zb_device_mgr.c:118`): `zb_dev_mgr_init` loads devices
  without an event, and the API lists none; one whose file could not be deleted is
  back after a restart although DEVICE_LEFT was emitted. `EventsTellRegistry` tells
  what events say apart from what the boot loaded (`booted`).
- *Torn lookups* (`zb_device_mgr.c:207`): a lookup during a join may return 0 or the
  address of the slot's last device; `LookupSettled` is what remains.
- *Stale and lost capabilities* (`zb_device_mgr.c:153`, `160`, `486`): a device has the
  capabilities of the one that left its slot until the next restart, and none
  after it, since records are saved without endpoints; the latter is the finding
  of `caps_on_disk`.
- *SOF inside a frame*: after a fault the parser may take a payload byte for the
  start, in frame after frame if they hold one each, and never find its step; no
  bound holds. `RecoversUnlessStuck` counts from the last such frame sent out of step.
  Nor can the check sum, an exclusive or, tell all damage: what the parser posts is
  what the decoder accepts (`PostsWhatDecodes`), which may be a frame nobody sent.
- *Glitches between presses* (`zb_button.c:72`): a press too short to count in the
  multi-press window ends it without an event and leaves `press_count`: the press
  before is not reported, and the next one is DOUBLE.
- *Three presses* (`zb_button.c:121`): every number but two is emitted as SINGLE, and
  opens the network, while FR-10.3 (`zigbee-hub-fsd.md:521`-`524`) has SINGLE for a
  press without a second one and no event for three. `CountTellsTaps` claims
  nothing of three or more.
- *Join window* (`zb_framework.c:194`, `201`, `347`): a refused request is shown as
  granted, and nothing tries again: `OpensIfHeard` says no more than that the command
  was run, and `PressOpensNetwork` names the refusal as one of a press's fates; a deadline that wraps to 0 reads as closed; the deadline is not cleared
  when it passes, so that half a turn of the tick count later it is shown open
  again. `TtlTellsWindow` is stated up to there.
- *Saved parameters* (`zb_framework.c:168`, `212`, `395`): three writers replace
  `config.json` without a lock, and a change saved shortly before READY is applied
  at the next restart only.
- *Start deadline* (`zb_network.c:299`): a sum of ticks that wraps ends the wait at
  once, once in 49 days; the wait of `ZbFramework` may end at any time.
- *Attributes* (`zb_cap.c:41`-`65`, `107`, `zb_device_mgr.c:413`): five clusters ignore
  the attribute's number, so that any attribute is taken for the value; an int8
  PowerFactor is never decoded, since its cluster wants two bytes; an enum8 or
  enum16 is unknown and ends the report; Multiplier and Divisor are read but not
  decoded.
- *Reads* (`zb_device_mgr.c:387`): the answer to Read Attributes is ignored, so that
  `zb_cap_get` leads to no event.
- `ZB_EVENT_ZNP_ERROR` is never emitted.

Not modelled: driver setup (UART, I2C, GPIO) and the storage mount run once
before any task and keep no state afterwards. nanopb tables are generated.
Firmware update is documented (`ZB_STATE_FW_UPDATE`) but no code enters it. The
ZCL requests that `zb_cap_set` and `zb_cap_get` build byte by byte appear as what
devices do in answer.
