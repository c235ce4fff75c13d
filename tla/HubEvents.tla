----------------------------- MODULE HubEvents -----------------------------
(***************************************************************************)
(* The event bus between the framework task and the application (main.c):  *)
(* the framework emits what happens to the network and what devices        *)
(* report, app_main() subscribes once it has seen READY, its callbacks     *)
(* open the network and show values, and another subscriber comes and      *)
(* goes.                                                                   *)
(***************************************************************************)
EXTENDS ZbSubscribe, ZbCap

CONSTANTS
    OnNetwork, OnCap,   \* on_network_event, on_cap_event
    Guest,              \* a callback of another task
    CmdDepth,           \* CONFIG_ZB_CMD_QUEUE_DEPTH
    Reports,            \* reports devices send: pairs of a cluster and records
    MaxHappens          \* a bound: what devices and the coprocessor do

VARIABLES
    fwpc, s_state,  \* where the framework task is, and the state it shows
    frame,          \* the records it has still to take from a report
    air,            \* frames of devices that wait for it, in the AREQ queue or before
    cmds,           \* permit-join commands
    mainpc,         \* how far app_main() is
    known,          \* what on_network_event has heard of the network last
    shown,          \* the values on_cap_event has shown, by cluster
    told,           \* the values devices have reported, by cluster
    heardReady,     \* whether on_network_event had subscribed at the last READY
    asked,          \* a permit-join command has been run since
    netLost,        \* an event has been lost, or a LOST found main not subscribed
    capLost,        \* what main shows may differ from what was reported
    happened        \* counted up to MaxHappens

hubVars == <<fwpc, s_state, frame, air, cmds>>
mainVars == <<mainpc, known, shown>>
ghosts == <<told, heardReady, asked, netLost, capLost>>
vars == <<busVars, hubVars, mainVars, ghosts, happened>>

NetworkEvents == {"READY", "LOST", "JOINED", "LEFT"}
ASSUME EventsAssumption ==
    /\ Types = NetworkEvents \cup {"CAP"}
    /\ Callbacks = {OnNetwork, OnCap, Guest}
    /\ OnNetwork # OnCap /\ Guest \notin {OnNetwork, OnCap}
    /\ CmdDepth \in Nat \ {0}
    /\ MaxHappens \in Nat
    /\ \A rep \in Reports :
           /\ rep \in STRING \X (Seq(Attributes) \ {<<>>})
           /\ \A i \in DOMAIN rep[2] : Fits(rep[2][i])

\* The clusters whose value on_cap_event shows, and the field it reads.
ShownField == [OnOff |-> "on_off", LevelControl |-> "level",
               Temperature |-> "temperature_hundredths",
               Humidity |-> "humidity_hundredths"]
ShownClusters == DOMAIN ShownField

NoFrame == [cmd |-> "NONE", cluster |-> "NONE", records |-> <<>>]
Frame(k, c, rs) == [cmd |-> k, cluster |-> c, records |-> rs]

Happens == happened < MaxHappens /\ happened' = happened + 1

\* What an emitted event that finds the queue full, or main not subscribed,
\* means for what main knows.
Full == Len(queue) = QueueDepth
NetworkTold(t) == netLost' = (netLost \/ Full \/ (t = "LOST" /\ ~Subscribed(OnNetwork, t)))
CapTold == capLost' = (capLost \/ Full \/ ~Subscribed(OnCap, "CAP"))

-----------------------------------------------------------------------------
(* framework_task(): READY, handle_ready(), and back *)

SetReady ==
    /\ fwpc = "starting"
    /\ s_state' = "READY"
    /\ fwpc' = "announcing"
    /\ UNCHANGED <<busVars, frame, air, cmds, mainVars, ghosts, happened>>

EmitReady ==
    /\ fwpc = "announcing"
    /\ Emit("READY", "NONE")
    /\ heardReady' = (Subscribed(OnNetwork, "READY") /\ ~Full)
    /\ NetworkTold("READY")
    /\ fwpc' = "serving"
    /\ UNCHANGED <<s_state, frame, air, cmds, mainVars, told, asked, capLost, happened>>

\* ZB_CMD_PERMIT_JOIN
RunCmd ==
    /\ fwpc = "serving" /\ frame = NoFrame
    /\ cmds > 0
    /\ cmds' = cmds - 1
    /\ asked' = TRUE
    /\ UNCHANGED <<busVars, fwpc, s_state, frame, air, mainVars, told, heardReady,
                   netLost, capLost, happened>>

\* A device joins or leaves.
EmitDevice ==
    /\ fwpc = "serving" /\ frame = NoFrame
    /\ Happens
    /\ \E t \in {"JOINED", "LEFT"} : Emit(t, "NONE") /\ NetworkTold(t)
    /\ UNCHANGED <<hubVars, mainVars, told, heardReady, asked, capLost>>

\* A bug: a restart is not announced.
EmitNoLost ==
    /\ fwpc = "serving" /\ frame = NoFrame
    /\ Happens
    /\ heardReady' = FALSE /\ asked' = FALSE
    /\ fwpc' = "leaving"
    /\ UNCHANGED <<busVars, s_state, frame, air, cmds, mainVars, told, netLost, capLost>>

\* A command or a reset of the coprocessor makes it start again; s_state is
\* still READY.
EmitLost ==
    /\ fwpc = "serving" /\ frame = NoFrame
    /\ Happens
    /\ Emit("LOST", "NONE")
    /\ NetworkTold("LOST")
    /\ heardReady' = FALSE /\ asked' = FALSE
    /\ fwpc' = "leaving"
    /\ UNCHANGED <<s_state, frame, air, cmds, mainVars, told, capLost>>

\* What devices sent meanwhile is thrown away when the coordinator starts.
Restart ==
    /\ fwpc = "leaving"
    /\ s_state' = "ZNP_INIT"
    /\ fwpc' = "starting"
    /\ air' = <<>>
    /\ capLost' = (capLost \/ air # <<>>)
    /\ UNCHANGED <<busVars, frame, cmds, mainVars, told, heardReady, asked, netLost, happened>>

-----------------------------------------------------------------------------
(* parse_af_incoming(): the ZCL part *)

\* A frame of a sender that find_by_nwk() does not know has no effect. Of the
\* others, reports and the status change of an IAS zone have one; answers to Read
\* Attributes have none.
TakeFrame ==
    /\ fwpc = "serving" /\ frame = NoFrame
    /\ air # <<>>
    /\ air' = Tail(air)
    /\ LET f == Head(air)
       IN  \/ /\ f.cmd = "STATUS_CHANGE"
              /\ Emit("CAP", CapEvent(f.cluster, StatusChange(f.records[1])))
              /\ NetworkTold("CAP") /\ CapTold
              /\ UNCHANGED frame
           \/ /\ f.cmd = "REPORT"
              /\ frame' = f
              /\ UNCHANGED <<busVars, netLost, capLost>>
           \/ /\ f.cmd = "READ_RSP"
              /\ UNCHANGED <<busVars, frame, netLost, capLost>>
           \/ /\ capLost' = (capLost \/ f.cluster \in ShownClusters)
              /\ UNCHANGED <<busVars, frame, netLost>>
    /\ UNCHANGED <<fwpc, s_state, cmds, mainVars, told, heardReady, asked, happened>>

\* zb_cap_dispatch_attr()
Dispatch(cluster, r) ==
    /\ Emit("CAP", CapEvent(cluster, Translate(cluster, r)))
    /\ NetworkTold("CAP") /\ CapTold

Rest(f) == IF Len(f.records) > 1 THEN [f EXCEPT !.records = Tail(@)] ELSE NoFrame

\* A bug: only the first record is taken.
ParseFirst ==
    /\ frame # NoFrame
    /\ Dispatch(frame.cluster, Head(frame.records))
    /\ frame' = NoFrame
    /\ UNCHANGED <<fwpc, s_state, air, cmds, mainVars, told, heardReady, asked, happened>>

\* The loop ends at a record whose type it does not know.
ParseRecord ==
    /\ frame # NoFrame
    /\ LET r == Head(frame.records)
       IN  \/ /\ TypeSize[r.dtype] > 0
              /\ Dispatch(frame.cluster, r)
              /\ frame' = Rest(frame)
           \/ /\ TypeSize[r.dtype] = 0
              /\ frame' = NoFrame
              /\ capLost' = TRUE
              /\ UNCHANGED <<busVars, netLost>>
    /\ UNCHANGED <<fwpc, s_state, air, cmds, mainVars, told, heardReady, asked, happened>>

-----------------------------------------------------------------------------
(* Devices (external), and zb_cap_get() and zb_cap_set() *)

\* The frame of a device may get lost on its way, at the latest at a full queue
\* of AREQ frames.
Send(f) ==
    /\ Happens
    /\ air' \in {air, Append(air, f)}
    /\ UNCHANGED <<busVars, fwpc, s_state, frame, cmds, mainVars, heardReady, asked,
                   netLost>>

\* What the record of a shown cluster says, by its data type; an attribute that
\* is not the one shown is foreign.
Says(c, r) == \E s \in Standard : s[1] = c /\ s[2] = r.attr /\ s[3] = r.dtype
DeviceReports(rep) ==
    LET c == rep[1]
        rs == rep[2]
        said == {i \in DOMAIN rs : Says(c, rs[i])}
        newest == CHOOSE i \in said : \A j \in said : j <= i
    IN  /\ Send(Frame("REPORT", c, rs))
        /\ told' = IF c \in ShownClusters /\ said # {}
                   THEN [told EXCEPT ![c] = Meaning(rs[newest].dtype, rs[newest].value)]
                   ELSE told
        /\ capLost' = (capLost \/ (c \in ShownClusters /\ (said # DOMAIN rs \/ air' = air)))

ZoneChanges ==
    /\ Send(Frame("STATUS_CHANGE", "IASZone", <<1>>))
    /\ UNCHANGED <<told, capLost>>

\* zb_cap_get(): a device answers with the attributes it was asked for.
GetCap(c) ==
    /\ Gettable(c)
    /\ Send(Frame("READ_RSP", "NONE", <<>>))
    /\ UNCHANGED <<told, capLost>>

\* zb_cap_set(): the device reports what it has been set to.
SetCap(c) ==
    /\ Settable(c)
    /\ \E rep \in Reports : rep[1] = c /\ DeviceReports(rep)

-----------------------------------------------------------------------------
(* app_main() and its callbacks *)

Subscriptions ==
    << <<"READY", OnNetwork>>, <<"LOST", OnNetwork>>, <<"JOINED", OnNetwork>>,
       <<"LEFT", OnNetwork>>, <<"CAP", OnCap>> >>

MainSeesReady ==
    /\ mainpc = 0
    /\ s_state = "READY"
    /\ mainpc' = 1
    /\ UNCHANGED <<busVars, hubVars, known, shown, ghosts, happened>>

MainSubscribes ==
    /\ mainpc \in DOMAIN Subscriptions
    /\ Subscribe(Subscriptions[mainpc][2], Subscriptions[mainpc][1])
    /\ mainpc' = mainpc + 1
    /\ UNCHANGED <<hubVars, known, shown, ghosts, happened>>

\* A bug: the network is opened once only.
CallNetworkOnce ==
    /\ Called(OnNetwork)
    /\ cmds' = IF evt.type = "READY" /\ known = "unknown" /\ cmds < CmdDepth
               THEN cmds + 1 ELSE cmds
    /\ known' = IF evt.type \in {"READY", "LOST"} THEN evt.type ELSE known
    /\ UNCHANGED <<fwpc, s_state, frame, air, mainpc, shown, ghosts, happened>>

\* on_network_event(): READY enqueues a command, if there is room.
CallNetwork ==
    /\ Called(OnNetwork)
    /\ cmds' = IF evt.type = "READY" /\ cmds < CmdDepth THEN cmds + 1 ELSE cmds
    /\ known' = IF evt.type \in {"READY", "LOST"} THEN evt.type ELSE known
    /\ UNCHANGED <<fwpc, s_state, frame, air, mainpc, shown, ghosts, happened>>

\* on_cap_event()
CallCap ==
    /\ Called(OnCap)
    /\ shown' = IF evt.data.cluster \in ShownClusters
                THEN [shown EXCEPT ![evt.data.cluster] =
                          Reads(evt.data, ShownField[evt.data.cluster])]
                ELSE shown
    /\ UNCHANGED <<hubVars, mainpc, known, ghosts, happened>>

CallGuest ==
    /\ Called(Guest)
    /\ UNCHANGED <<hubVars, mainVars, ghosts, happened>>

\* Another task subscribes to reports, and unsubscribes.
GuestComes ==
    /\ Subscribe(Guest, "CAP")
    /\ UNCHANGED <<hubVars, mainVars, ghosts, happened>>

GuestGoes ==
    /\ Unsubscribe(Guest, "CAP")
    /\ UNCHANGED <<hubVars, mainVars, ghosts, happened>>

Notify ==
    \/ (TakeEvent \/ Lock \/ Unlock) /\ UNCHANGED <<hubVars, mainVars, ghosts, happened>>
    \/ CallNetwork \/ CallCap \/ CallGuest

-----------------------------------------------------------------------------
(* The specification *)

Init ==
    /\ BusInit
    /\ fwpc = "starting" /\ s_state = "ZNP_INIT" /\ frame = NoFrame
    /\ air = <<>> /\ cmds = 0
    /\ mainpc = 0 /\ known = "unknown"
    /\ shown = [c \in ShownClusters |-> 0] /\ told = [c \in ShownClusters |-> 0]
    /\ heardReady = FALSE /\ asked = FALSE /\ netLost = FALSE /\ capLost = FALSE
    /\ happened = 0

Framework == SetReady \/ EmitReady \/ RunCmd \/ Restart \/ TakeFrame \/ ParseRecord
Environment ==
    \/ EmitDevice \/ EmitLost \/ ZoneChanges
    \/ (\E rep \in Reports : DeviceReports(rep))
    \/ \E c \in {rep[1] : rep \in Reports} : GetCap(c) \/ SetCap(c)
Main == MainSeesReady \/ MainSubscribes

Next == Framework \/ Environment \/ Main \/ Notify \/ GuestComes \/ GuestGoes

Spec == Init /\ [][Next]_vars

-----------------------------------------------------------------------------
(* Properties *)

TypeOK ==
    /\ BusTypeOK
    /\ fwpc \in {"starting", "announcing", "serving", "leaving"}
    /\ s_state \in {"ZNP_INIT", "READY"}
    /\ cmds \in 0 .. CmdDepth /\ mainpc \in 0 .. 6
    /\ known \in {"unknown", "READY", "LOST"}
    /\ DOMAIN shown = ShownClusters /\ DOMAIN told = ShownClusters
    /\ {heardReady, asked, netLost, capLost} \subseteq BOOLEAN
    /\ happened \in 0 .. MaxHappens

\* FR-5.3: once nothing is on its way, what main has heard of the network last
\* is how it is, though the events may have been queued while it subscribed.
NetworkKnown ==
    Settled /\ known # "unknown" /\ ~netLost
        => known = IF fwpc = "serving" THEN "READY" ELSE "LOST"

\* main.c: a READY that main has subscribed to has its permit-join command run,
\* though it comes back to the framework task by way of two other queues. Whether
\* the coprocessor then takes the request is not part of it.
OpensIfHeard ==
    Settled /\ cmds = 0 /\ fwpc = "serving" /\ heardReady => asked

\* main.c: "permit-join opens automatically on READY".
OpensOnReady ==
    Settled /\ cmds = 0 /\ fwpc = "serving" /\ mainpc = 6 /\ ~netLost => asked

\* FR-5.5: what main shows of a cluster is what its device reported last, unless
\* - the report was lost on the line, at the full queue of AREQ frames or when the
\*   coordinator was started again, or its sender was not in the registry;
\* - its event was lost at the full notify queue, or main was late to subscribe;
\* - the cluster's other attributes, which the layer does not tell apart, were
\*   reported too.
ShownIsReported ==
    Settled /\ air = <<>> /\ frame = NoFrame /\ ~capLost => shown = told
=============================================================================
