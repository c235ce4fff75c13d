---------------------------- MODULE ZnpTransport ----------------------------
(***************************************************************************)
(* The ZNP transport (znp_transport.c): tasks that send SREQs through one  *)
(* mutex, the task that assembles frames, the task that dispatches them to *)
(* the SRSP correlator or the AREQ queue, the hard reset, and, external to *)
(* the repository, the UART and the coprocessor at its other end.          *)
(*                                                                         *)
(* Nothing but s_sreq_mutex is locked: the dispatch task runs on another   *)
(* core or preempts a caller anywhere, so every access of the two to a     *)
(* shared variable is a step of its own.                                   *)
(***************************************************************************)
EXTENDS Integers, Sequences

CONSTANTS
    Callers,            \* tasks that send SREQs
    Framework,          \* the one that also resets and receives AREQs
    Nobody,             \* s_sreq_mutex is free
    Commands,           \* pairs <<cmd_type, cmd_id>>
    NoCommand,          \* s_pending_cmd_type and _id before the first SREQ
    RawDepth,           \* RAW_QUEUE_DEPTH
    AreqDepth,          \* CONFIG_ZNP_AREQ_QUEUE_DEPTH
    MaxCalls, MaxReports, MaxFaults     \* bounds of the model

VARIABLES
    pc,             \* where each caller is
    cmd,            \* the command it sends
    seq,            \* the number of its SREQ, in the order of transmission
    lag,            \* how many SREQs had timed out before it
    base,           \* the last SRSP given before it cleared the semaphore
    got,            \* the frames its answer was copied from
    mutex,          \* who holds s_sreq_mutex
    pendType, pendId,       \* s_pending_cmd_type, s_pending_cmd_id
    srspSem,        \* s_srsp_sem
    srspFrame,      \* s_srsp_frame
    resetSem,       \* s_reset_ind_sem
    toChip,         \* the SRSPs it owes for the SREQs it has received
    booting,        \* it was reset and has not reported so
    uart,           \* its frames that are not assembled yet
    rawQueue,       \* s_raw_queue
    dpc, frame,     \* where the dispatch task is, and the frame it holds
    areqQueue,      \* s_areq_queue
    sent, late,     \* SREQs sent, SREQs timed out
    told,           \* AREQs the coprocessor sent
    calls, reports, faults      \* budgets spent

locals == <<cmd, seq, lag, base, got>>
callerVars == <<pc, locals, mutex>>
pending == <<pendType, pendId>>
correlator == <<srspSem, srspFrame>>
wire == <<toChip, booting, uart>>
dispatcher == <<dpc, frame>>
others == <<resetSem, wire, rawQueue, dispatcher, areqQueue>>
counts == <<sent, late, told>>
budgets == <<calls, reports, faults>>
vars == <<callerVars, pending, correlator, resetSem, wire, rawQueue, dispatcher,
          areqQueue, counts, budgets>>

ASSUME TransportAssumption ==
    /\ Framework \in Callers /\ Nobody \notin Callers
    /\ \A k \in Commands : k = <<k[1], k[2]>>
    /\ NoCommand = <<NoCommand[1], NoCommand[2]>> /\ NoCommand \notin Commands
    /\ RawDepth \in Nat \ {0} /\ AreqDepth \in Nat \ {0}
    /\ MaxCalls \in Nat /\ MaxReports \in Nat /\ MaxFaults \in Nat

\* A frame from the coprocessor: the SRSP to the n-th SREQ, or its n-th AREQ,
\* which may say that it was reset.
Srsp(k, n) == [kind |-> "SRSP", cmd |-> k, n |-> n]
Report(n) == [kind |-> "AREQ", cmd |-> NoCommand, n |-> n]
ResetInd(n) == [kind |-> "RESET", cmd |-> NoCommand, n |-> n]
Frame == [kind : {"SRSP", "AREQ", "RESET"}, cmd : Commands \cup {NoCommand},
          n : Nat]
NoFrame == Srsp(NoCommand, 0)

Fault == faults < MaxFaults /\ faults' = faults + 1
Goto(c, label) == pc' = [pc EXCEPT ![c] = label]

-----------------------------------------------------------------------------
(* znp_transport_send_sreq_timeout() *)

Call(c, k) ==
    /\ pc[c] = "idle"
    /\ calls < MaxCalls
    /\ calls' = calls + 1
    /\ cmd' = [cmd EXCEPT ![c] = k]
    /\ got' = [got EXCEPT ![c] = {}]
    /\ Goto(c, "mutex")
    /\ UNCHANGED <<seq, lag, base, mutex, pending, correlator, others, counts,
                   reports, faults>>

\* A bug: SREQs are not serialized.
TakeNoMutex(c) ==
    /\ pc[c] = "mutex"
    /\ mutex' = c
    /\ Goto(c, "type")
    /\ UNCHANGED <<locals, pending, correlator, others, counts, budgets>>

TakeMutex(c) ==
    /\ pc[c] = "mutex"
    /\ mutex = Nobody
    /\ mutex' = c
    /\ Goto(c, "type")
    /\ UNCHANGED <<locals, pending, correlator, others, counts, budgets>>

\* ZNP_ERR_TIMEOUT, and nothing was sent.
MutexTimeout(c) ==
    /\ pc[c] = "mutex"
    /\ mutex # Nobody
    /\ Goto(c, "idle")
    /\ UNCHANGED <<locals, mutex, pending, correlator, others, counts, budgets>>

\* The SRSP to expect, one byte after the other.
ExpectType(c) ==
    /\ pc[c] = "type"
    /\ pendType' = cmd[c][1]
    /\ Goto(c, "id")
    /\ UNCHANGED <<locals, mutex, pendId, correlator, others, counts, budgets>>

ExpectId(c) ==
    /\ pc[c] = "id"
    /\ pendId' = cmd[c][2]
    /\ Goto(c, "drain")
    /\ UNCHANGED <<locals, mutex, pendType, correlator, others, counts,
                   budgets>>

\* SRSPs arrive in order, so that what is given later is not older.
LastGiven == IF dpc = "give" THEN srspFrame.n - 1 ELSE srspFrame.n

\* A bug: a stale token is left in the semaphore.
KeepToken(c) ==
    /\ pc[c] = "drain"
    /\ base' = [base EXCEPT ![c] = LastGiven]
    /\ Goto(c, "write")
    /\ UNCHANGED <<cmd, seq, lag, got, mutex, pending, correlator, others,
                   counts, budgets>>

DrainToken(c) ==
    /\ pc[c] = "drain"
    /\ srspSem' = FALSE
    /\ base' = [base EXCEPT ![c] = LastGiven]
    /\ Goto(c, "write")
    /\ UNCHANGED <<cmd, seq, lag, got, mutex, pending, srspFrame, others,
                   counts, budgets>>

\* uart_write_bytes(); a coprocessor that boots does not listen.
WriteUart(c) ==
    /\ pc[c] = "write"
    /\ sent' = sent + 1
    /\ seq' = [seq EXCEPT ![c] = sent']
    /\ lag' = [lag EXCEPT ![c] = late]
    /\ toChip' = IF booting THEN toChip ELSE Append(toChip, Srsp(cmd[c], sent'))
    /\ Goto(c, "wait")
    /\ UNCHANGED <<cmd, base, got, mutex, pending, correlator, resetSem,
                   booting, uart, rawQueue, dispatcher, areqQueue, late,
                   told, budgets>>

TakeSrsp(c) ==
    /\ pc[c] = "wait"
    /\ srspSem
    /\ srspSem' = FALSE
    /\ Goto(c, "copy")
    /\ UNCHANGED <<locals, mutex, pending, srspFrame, others, counts, budgets>>

\* A bug: the error path forgets the mutex.
TimeoutKeepsMutex(c) ==
    /\ pc[c] = "wait"
    /\ ~srspSem
    /\ late' = late + 1
    /\ Goto(c, "idle")
    /\ UNCHANGED <<locals, mutex, pending, correlator, others, sent, told,
                   budgets>>

\* ZNP_ERR_TIMEOUT; the answer may still come.
SrspTimeout(c) ==
    /\ pc[c] = "wait"
    /\ ~srspSem
    /\ late' = late + 1
    /\ Goto(c, "give")
    /\ UNCHANGED <<locals, mutex, pending, correlator, others, sent, told,
                   budgets>>

\* *resp = s_srsp_frame, part of which the dispatch task may be replacing.
CopyFrame(c) ==
    /\ pc[c] = "copy"
    /\ \/ got' = [got EXCEPT ![c] = {srspFrame}]
       \/ dpc = "store" /\ got' = [got EXCEPT ![c] = {srspFrame, frame}]
    /\ Goto(c, "give")
    /\ UNCHANGED <<cmd, seq, lag, base, mutex, pending, correlator, others,
                   counts, budgets>>

GiveMutex(c) ==
    /\ pc[c] = "give"
    /\ mutex' = Nobody
    /\ Goto(c, "idle")
    /\ UNCHANGED <<locals, pending, correlator, others, counts, budgets>>

-----------------------------------------------------------------------------
(* znp_transport_reset_coprocessor() and znp_transport_receive_areq() *)

DrainReset ==
    /\ pc[Framework] = "idle"
    /\ calls < MaxCalls
    /\ calls' = calls + 1
    /\ resetSem' = FALSE
    /\ Goto(Framework, "pulse")
    /\ UNCHANGED <<locals, mutex, pending, correlator, wire, rawQueue,
                   dispatcher, areqQueue, counts, reports, faults>>

\* A reset: what the coprocessor was asked before is forgotten.
ChipDown == booting' = TRUE /\ toChip' = <<>>

\* The errors of the I2C expander are ignored.
PulseReset ==
    /\ pc[Framework] = "pulse"
    /\ \/ ChipDown /\ UNCHANGED faults
       \/ Fault /\ UNCHANGED <<booting, toChip>>
    /\ Goto(Framework, "resetWait")
    /\ UNCHANGED <<locals, mutex, pending, correlator, resetSem, uart, rawQueue,
                   dispatcher, areqQueue, counts, calls, reports>>

ResetHeard ==
    /\ pc[Framework] = "resetWait"
    /\ resetSem
    /\ resetSem' = FALSE
    /\ Goto(Framework, "idle")
    /\ UNCHANGED <<locals, mutex, pending, correlator, wire, rawQueue,
                   dispatcher, areqQueue, counts, budgets>>

ResetTimeout ==
    /\ pc[Framework] = "resetWait"
    /\ ~resetSem
    /\ Goto(Framework, "idle")
    /\ UNCHANGED <<locals, mutex, pending, correlator, others, counts, budgets>>

ReceiveAreq ==
    /\ pc[Framework] = "idle"
    /\ areqQueue # <<>>
    /\ areqQueue' = Tail(areqQueue)
    /\ UNCHANGED <<callerVars, pending, correlator, resetSem, wire, rawQueue,
                   dispatcher, counts, budgets>>

-----------------------------------------------------------------------------
(* znp_rx_task() *)

\* A bug: the raw queue has no limit.
RxUnbounded ==
    /\ uart # <<>>
    /\ uart' = Tail(uart)
    /\ rawQueue' = Append(rawQueue, Head(uart))
    /\ UNCHANGED <<callerVars, pending, correlator, resetSem, toChip, booting,
                   dispatcher, areqQueue, counts, budgets>>

\* A complete frame with a correct FCS, dropped when the raw queue is full.
RxFrame ==
    /\ uart # <<>>
    /\ uart' = Tail(uart)
    /\ rawQueue' = IF Len(rawQueue) < RawDepth THEN Append(rawQueue, Head(uart))
                                              ELSE rawQueue
    /\ UNCHANGED <<callerVars, pending, correlator, resetSem, toChip, booting,
                   dispatcher, areqQueue, counts, budgets>>

\* A frame the parser rejects: a byte was lost or changed on the wire.
RxReject ==
    /\ uart # <<>>
    /\ uart' = Tail(uart)
    /\ Fault
    /\ UNCHANGED <<callerVars, pending, correlator, resetSem, toChip, booting,
                   rawQueue, dispatcher, areqQueue, counts, calls, reports>>

-----------------------------------------------------------------------------
(* znp_dispatch_task() *)

TakeFrame ==
    /\ dpc = "receive"
    /\ rawQueue # <<>>
    /\ frame' = Head(rawQueue)
    /\ rawQueue' = Tail(rawQueue)
    /\ dpc' = CASE frame'.kind = "SRSP" -> "type"
                [] frame'.kind = "AREQ" -> "post"
                [] frame'.kind = "RESET" -> "reset"
    /\ UNCHANGED <<callerVars, pending, correlator, resetSem, wire, areqQueue,
                   counts, budgets>>

\* The two comparisons of an SRSP with the SREQ that is pending.
MatchType ==
    /\ dpc = "type"
    /\ dpc' = IF frame.cmd[1] = pendType THEN "id" ELSE "receive"
    /\ UNCHANGED <<callerVars, pending, correlator, resetSem, wire, rawQueue,
                   frame, areqQueue, counts, budgets>>

MatchId ==
    /\ dpc = "id"
    /\ dpc' = IF frame.cmd[2] = pendId THEN "store" ELSE "receive"
    /\ UNCHANGED <<callerVars, pending, correlator, resetSem, wire, rawQueue,
                   frame, areqQueue, counts, budgets>>

StoreSrsp ==
    /\ dpc = "store"
    /\ srspFrame' = frame
    /\ dpc' = "give"
    /\ UNCHANGED <<callerVars, pending, srspSem, resetSem, wire, rawQueue,
                   frame, areqQueue, counts, budgets>>

GiveSrsp ==
    /\ dpc = "give"
    /\ srspSem' = TRUE
    /\ dpc' = "receive"
    /\ UNCHANGED <<callerVars, pending, srspFrame, resetSem, wire, rawQueue,
                   frame, areqQueue, counts, budgets>>

GiveReset ==
    /\ dpc = "reset"
    /\ resetSem' = TRUE
    /\ dpc' = "post"
    /\ UNCHANGED <<callerVars, pending, correlator, wire, rawQueue, frame,
                   areqQueue, counts, budgets>>

\* A bug: the newest frame goes to the front.
PostInFront ==
    /\ dpc = "post"
    /\ areqQueue' = IF Len(areqQueue) < AreqDepth THEN <<frame>> \o areqQueue
                                                  ELSE areqQueue
    /\ dpc' = "receive"
    /\ UNCHANGED <<callerVars, pending, correlator, resetSem, wire, rawQueue,
                   frame, counts, budgets>>

\* An AREQ that finds the queue full is dropped.
PostAreq ==
    /\ dpc = "post"
    /\ areqQueue' = IF Len(areqQueue) < AreqDepth THEN Append(areqQueue, frame)
                                                  ELSE areqQueue
    /\ dpc' = "receive"
    /\ UNCHANGED <<callerVars, pending, correlator, resetSem, wire, rawQueue,
                   frame, counts, budgets>>

-----------------------------------------------------------------------------
(* The coprocessor (external) *)

\* SREQs are answered in order, after any time.
ChipAnswers ==
    /\ ~booting
    /\ toChip # <<>>
    /\ toChip' = Tail(toChip)
    /\ uart' = Append(uart, Head(toChip))
    /\ UNCHANGED <<callerVars, pending, correlator, resetSem, booting, rawQueue,
                   dispatcher, areqQueue, counts, budgets>>

ChipReports ==
    /\ ~booting
    /\ reports < MaxReports
    /\ reports' = reports + 1
    /\ told' = told + 1
    /\ uart' = Append(uart, Report(told'))
    /\ UNCHANGED <<callerVars, pending, correlator, resetSem, toChip, booting,
                   rawQueue, dispatcher, areqQueue, sent, late, calls, faults>>

ChipBoots ==
    /\ booting
    /\ booting' = FALSE
    /\ told' = told + 1
    /\ uart' = Append(uart, ResetInd(told'))
    /\ UNCHANGED <<callerVars, pending, correlator, resetSem, toChip, rawQueue,
                   dispatcher, areqQueue, sent, late, budgets>>

ChipResets ==
    /\ ~booting
    /\ ChipDown
    /\ Fault
    /\ UNCHANGED <<callerVars, pending, correlator, resetSem, uart, rawQueue,
                   dispatcher, areqQueue, counts, calls, reports>>

-----------------------------------------------------------------------------
(* The specification *)

\* After znp_transport_init().
Init ==
    /\ pc = [c \in Callers |-> "idle"] /\ cmd = [c \in Callers |-> NoCommand]
    /\ seq = [c \in Callers |-> 0] /\ lag = [c \in Callers |-> 0]
    /\ base = [c \in Callers |-> 0] /\ got = [c \in Callers |-> {}]
    /\ mutex = Nobody
    /\ pendType = NoCommand[1] /\ pendId = NoCommand[2]
    /\ srspSem = FALSE /\ srspFrame = NoFrame /\ resetSem = FALSE
    /\ toChip = <<>> /\ booting = FALSE /\ uart = <<>> /\ rawQueue = <<>>
    /\ dpc = "receive" /\ frame = NoFrame /\ areqQueue = <<>>
    /\ sent = 0 /\ late = 0 /\ told = 0 /\ calls = 0 /\ reports = 0 /\ faults = 0

\* What a caller does once it has called.
SendSreq(c) ==
    \/ TakeMutex(c) \/ MutexTimeout(c) \/ ExpectType(c) \/ ExpectId(c)
    \/ DrainToken(c) \/ WriteUart(c) \/ TakeSrsp(c) \/ SrspTimeout(c)
    \/ CopyFrame(c) \/ GiveMutex(c)

ResetCoprocessor == PulseReset \/ ResetHeard \/ ResetTimeout
Rx == RxFrame \/ RxReject
Dispatch ==
    \/ TakeFrame \/ MatchType \/ MatchId \/ StoreSrsp \/ GiveSrsp \/ GiveReset
    \/ PostAreq
Chip == ChipAnswers \/ ChipReports \/ ChipBoots \/ ChipResets

\* Nobody calls, nothing is on its way: the tasks wait.
Quiet ==
    /\ \A c \in Callers : pc[c] = "idle"
    /\ dpc = "receive" /\ rawQueue = <<>> /\ uart = <<>> /\ areqQueue = <<>>
    /\ UNCHANGED vars

Next ==
    \/ \E c \in Callers : SendSreq(c) \/ \E k \in Commands : Call(c, k)
    \/ DrainReset \/ ResetCoprocessor \/ ReceiveAreq
    \/ Rx \/ Dispatch \/ Chip \/ Quiet

Spec == Init /\ [][Next]_vars

\* Every task is scheduled and no wait is without a limit.
FairSpec ==
    /\ Spec
    /\ \A c \in Callers : WF_vars(SendSreq(c))
    /\ WF_vars(ResetCoprocessor) /\ WF_vars(RxFrame) /\ WF_vars(Dispatch)

-----------------------------------------------------------------------------
(* Properties *)

CallerPcs == {"idle", "mutex", "type", "id", "drain", "write", "wait", "copy",
              "give", "pulse", "resetWait"}

Types == {k[1] : k \in Commands \cup {NoCommand}}
Ids == {k[2] : k \in Commands \cup {NoCommand}}

CallerTypeOK ==
    /\ pc \in [Callers -> CallerPcs]
    /\ cmd \in [Callers -> Commands \cup {NoCommand}]
    /\ seq \in [Callers -> Nat] /\ lag \in [Callers -> Nat]
    /\ base \in [Callers -> Int] /\ got \in [Callers -> SUBSET Frame]
    /\ mutex \in Callers \cup {Nobody}

CorrelatorTypeOK ==
    /\ pendType \in Types /\ pendId \in Ids
    /\ srspSem \in BOOLEAN /\ resetSem \in BOOLEAN
    /\ srspFrame \in Frame /\ frame \in Frame
    /\ dpc \in {"receive", "type", "id", "store", "give", "reset", "post"}

QueueTypeOK ==
    /\ toChip \in Seq(Frame) /\ uart \in Seq(Frame) /\ booting \in BOOLEAN
    /\ rawQueue \in Seq(Frame) /\ Len(rawQueue) <= RawDepth
    /\ areqQueue \in Seq(Frame) /\ Len(areqQueue) <= AreqDepth

CountTypeOK ==
    /\ sent \in Nat /\ late \in Nat /\ told \in Nat
    /\ calls \in 0 .. MaxCalls /\ reports \in 0 .. MaxReports
    /\ faults \in 0 .. MaxFaults

TypeOK == CallerTypeOK /\ CorrelatorTypeOK /\ QueueTypeOK /\ CountTypeOK

\* One SREQ at a time bounds what a late SRSP can do: an answer is at most as
\* many SREQs old as have timed out before its SREQ, and the SREQ's own as
\* long as none has.
AnswerLag ==
    \A c \in Callers : \A f \in got[c] :
        f.n \in (seq[c] - lag[c]) .. seq[c]

\* Clearing the semaphore ends the delay: no call returns an SRSP that was
\* given before it began, so that one quiet moment after a timeout suffices
\* for the answers to be the SREQs' own again.
AnswerFresh ==
    \A c \in Callers : \A f \in got[c] : f.n > base[c]

\* However an SREQ ends, the next caller gets the mutex.
MutexReleased == mutex # Nobody ~> mutex = Nobody

\* FR-1.5: AREQs reach the framework in the order the coprocessor sent them,
\* each at most once; the two queues in between may lose some.
Number(f) == IF f.kind # "SRSP" THEN <<f.n>> ELSE <<>>
Numbers(q) ==
    LET upTo[i \in 0 .. Len(q)] ==
            IF i = 0 THEN <<>> ELSE upTo[i - 1] \o Number(q[i])
    IN  upTo[Len(q)]
Held == IF dpc \in {"post", "reset"} THEN Number(frame) ELSE <<>>
InFlight == Numbers(areqQueue) \o Held \o Numbers(rawQueue) \o Numbers(uart)
Areqs == INSTANCE LossyFifo WITH items <- InFlight, last <- told
AreqFifo == Areqs!Spec
=============================================================================
