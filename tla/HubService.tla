----------------------------- MODULE HubService -----------------------------
(***************************************************************************)
(* What the hub promises to the applications on it, whatever happens on    *)
(* the UART: a status, a pair of alternating events, and a queue of        *)
(* commands that run in order while the network is announced.              *)
(***************************************************************************)
EXTENDS Naturals, Sequences

CONSTANTS Commands, QueueDepth

VARIABLES
    status,     \* OFFLINE, FORMING or READY
    announced,  \* the last event was NETWORK_READY
    pending,    \* commands accepted and not yet run
    joinOpen    \* devices may join

vars == <<status, announced, pending, joinOpen>>

Init == status = "OFFLINE" /\ ~announced /\ pending = <<>> /\ ~joinOpen

\* The coprocessor answers and the network is being looked for or formed.
Contact ==
    /\ status = "OFFLINE" /\ status' = "FORMING"
    /\ UNCHANGED <<announced, pending, joinOpen>>

\* Forming failed: all over again.
Retry ==
    /\ status = "FORMING" /\ status' = "OFFLINE"
    /\ UNCHANGED <<announced, pending, joinOpen>>

\* The network is up, which the status and the event tell.
Up ==
    /\ status = "FORMING" /\ status' = "READY"
    /\ announced' = TRUE
    /\ UNCHANGED <<pending, joinOpen>>

\* A command runs; it may open or close the join window.
Serve ==
    /\ announced /\ pending # <<>>
    /\ pending' = Tail(pending)
    /\ joinOpen' \in BOOLEAN
    /\ UNCHANGED <<status, announced>>

\* A command that brings the network down.
ServeLast ==
    /\ announced /\ pending # <<>>
    /\ pending' = Tail(pending)
    /\ ~announced' /\ ~joinOpen'
    /\ UNCHANGED status

\* The network is lost.
Down ==
    /\ announced
    /\ ~announced' /\ ~joinOpen'
    /\ UNCHANGED <<status, pending>>

\* The status follows the event.
Leave ==
    /\ status = "READY" /\ ~announced
    /\ status' = "OFFLINE"
    /\ UNCHANGED <<announced, pending, joinOpen>>

Accept(cmd) ==
    /\ Len(pending) < QueueDepth
    /\ pending' = Append(pending, cmd)
    /\ UNCHANGED <<status, announced, joinOpen>>

\* The hub restarts.
Restart == status' = "OFFLINE" /\ ~announced' /\ pending' = <<>> /\ ~joinOpen'

Next ==
    \/ Contact \/ Retry \/ Up \/ Serve \/ ServeLast \/ Down \/ Leave \/ Restart
    \/ \E cmd \in Commands : Accept(cmd)

Spec == Init /\ [][Next]_vars
=============================================================================
