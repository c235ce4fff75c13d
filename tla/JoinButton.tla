----------------------------- MODULE JoinButton -----------------------------
(***************************************************************************)
(* How a press of the button opens the network: the button task emits      *)
(* (ZbButton says when), the notify task calls default_button_handler(),   *)
(* the handler enqueues a command if the hub is READY, and the framework   *)
(* task runs it, in this READY or in a later one.                          *)
(***************************************************************************)
EXTENDS ZbJoinWindow, Sequences

CONSTANTS
    PressDuration,  \* CONFIG_ZB_BUTTON_PERMIT_JOIN_SECONDS
    Reinit,         \* ZB_CMD_RECONFIGURE, ZB_CMD_CHANGE_CHANNEL
    BusDepth,       \* the depth of the notify queue
    CmdDepth,       \* CONFIG_ZB_CMD_QUEUE_DEPTH
    MaxStep         \* a bound: ticks that go by at once

VARIABLES
    phase,          \* where framework_task is
    bus,            \* button events not delivered
    calling,        \* the press whose handler is about to enqueue, if any
    cmds,           \* commands not run
    fate            \* what has become of the press that is followed

vars == <<now, windowVars, phase, bus, calling, cmds, fate>>

ASSUME JoinAssumption ==
    /\ PressDuration \in Durations \ {0}
    /\ Reinit \notin Durations \cup {Always}
    /\ MaxStep \in Nat \ {0}
    /\ BusDepth \in Nat \ {0} /\ CmdDepth \in Nat \ {0}

-----------------------------------------------------------------------------

\* s_state = ZB_STATE_READY: handle_ready() drains the commands, then waits for
\* an AREQ.
ready == phase \in {"drain", "wait"}

Kinds == {"SINGLE", "DOUBLE", "LONG"}
Orders == Durations \cup {Always, Reinit}

\* A press or a command, and whether it is the press followed or comes of it.
Item(k, f) == [kind |-> k, followed |-> f]

\* zb_event_emit() drops an event that finds the queue full. One SINGLE, any
\* that is queued while the hub is READY, is followed.
Press(kind) ==
    /\ IF Len(bus) < BusDepth
       THEN \/ bus' = Append(bus, Item(kind, FALSE)) /\ UNCHANGED fate
            \/ /\ kind = "SINGLE" /\ ready /\ fate = "none"
               /\ bus' = Append(bus, Item(kind, TRUE)) /\ fate' = "wanted"
       ELSE UNCHANGED <<bus, fate>>
    /\ UNCHANGED <<now, windowVars, phase, calling, cmds>>

Tick ==
    /\ \E step \in 1 .. MaxStep : now' = Plus(now, step) /\ Pass(step)
    /\ UNCHANGED <<phase, bus, calling, cmds, fate>>

\* A bug: it does not.
EnqueueUnbounded(c) == cmds' = Append(cmds, c)

\* A command that finds the queue full is dropped. The caller waits a little for
\* room first: who waits is taken to enqueue later.
Enqueue(c) == cmds' = IF Len(cmds) < CmdDepth THEN Append(cmds, c) ELSE cmds

\* default_button_handler() looks at s_state,
Handle ==
    /\ calling = "none" /\ bus # <<>>
    /\ bus' = Tail(bus)
    /\ LET e == Head(bus) IN
        /\ calling' = IF e.kind # "SINGLE" \/ ~ready THEN "none"
                      ELSE IF e.followed THEN "followed" ELSE "other"
        /\ fate' = IF e.followed /\ ~ready THEN "ignored" ELSE fate
    /\ UNCHANGED <<now, windowVars, phase, cmds>>

\* and then calls zb_cmd_permit_join(), whatever has become of READY.
Permit ==
    /\ calling # "none"
    /\ calling' = "none"
    /\ Enqueue(Item(PressDuration, calling = "followed"))
    /\ fate' = IF calling = "followed" /\ Len(cmds) = CmdDepth THEN "dropped"
               ELSE fate
    /\ UNCHANGED <<now, windowVars, phase, bus>>

\* The application opens or closes the network itself, or changes its parameters.
AppCommands ==
    /\ \E c \in Orders : Enqueue(Item(c, FALSE))
    /\ UNCHANGED <<now, windowVars, phase, bus, calling, fate>>

\* handle_ready() runs a command: Reinit leaves READY.
Run ==
    /\ phase = "drain" /\ cmds # <<>>
    /\ cmds' = Tail(cmds)
    /\ LET c == Head(cmds) IN
        \/ /\ c.kind = Reinit
           /\ CloseWindow
           /\ phase' = "down"
           /\ UNCHANGED fate
        \/ /\ c.kind # Reinit
           /\ PermitJoin(c.kind)
           /\ fate' = IF ~c.followed THEN fate
                      ELSE IF refused' THEN "refused" ELSE "opened"
           /\ UNCHANGED phase
    /\ UNCHANGED <<now, bus, calling>>

\* It waits for an AREQ when there is none, and comes back after 100 ms or with
\* one.
Wait ==
    /\ \/ phase = "drain" /\ cmds = <<>> /\ phase' = "wait"
       \/ phase = "wait" /\ phase' = "drain"
    /\ UNCHANGED <<now, windowVars, bus, calling, cmds, fate>>

\* A bug: the commands are thrown away.
LeaveFlushing ==
    /\ phase = "wait"
    /\ phase' = "down"
    /\ cmds' = <<>>
    /\ CloseWindow
    /\ UNCHANGED <<now, bus, calling, fate>>

\* The AREQ is a SYS_RESET_IND. Commands wait for the next READY.
Leave ==
    /\ phase = "wait"
    /\ phase' = "down"
    /\ CloseWindow
    /\ UNCHANGED <<now, bus, calling, cmds, fate>>

Reach ==
    /\ phase = "down"
    /\ phase' = "drain"
    /\ UNCHANGED <<now, windowVars, bus, calling, cmds, fate>>

Init ==
    /\ now \in TickType /\ WindowInit
    /\ phase = "down" /\ bus = <<>> /\ calling = "none" /\ cmds = <<>>
    /\ fate = "none"

Next ==
    \/ Tick \/ (\E kind \in Kinds : Press(kind)) \/ Handle \/ Permit \/ AppCommands
    \/ Run \/ Wait \/ Leave \/ Reach

Spec == Init /\ [][Next]_vars

\* Neither task waits forever for the processor, and handle_ready() for an AREQ
\* no longer than 100 ms.
FairSpec == Spec /\ WF_vars(Handle) /\ WF_vars(Permit) /\ WF_vars(Run) /\ WF_vars(Wait)

-----------------------------------------------------------------------------
(* Properties *)

TypeOK ==
    /\ now \in TickType /\ WindowTypeOK
    /\ phase \in {"down", "drain", "wait"}
    /\ calling \in {"none", "other", "followed"}
    /\ fate \in {"none", "wanted", "opened", "refused", "dropped", "ignored"}
    /\ bus \in Seq([kind : Kinds, followed : BOOLEAN]) /\ Len(bus) <= BusDepth
    /\ cmds \in Seq([kind : Orders, followed : BOOLEAN]) /\ Len(cmds) <= CmdDepth

\* FR-10.6: a single press while the hub is READY opens the network for the
\* duration of the button, by a command of its own, in a later READY if this one
\* is left before the command runs, as long as the hub is READY again and again.
\* The exceptions: READY was left before the handler looked, the command queue
\* was full, or the coprocessor refused.
PressOpensNetwork ==
    []<>ready =>
        (fate = "wanted" ~> fate \in {"opened", "refused", "dropped", "ignored"})
=============================================================================
