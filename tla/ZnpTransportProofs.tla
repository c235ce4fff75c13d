------------------------- MODULE ZnpTransportProofs -------------------------
(***************************************************************************)
(* Proofs about ZnpTransport: types, how old the answer to an SREQ can be, *)
(* and that AREQs pass as through a LossyFifo. The first rest on two       *)
(* facts: SREQs are serialized by the mutex, and SRSPs keep their order on *)
(* the way from the coprocessor to the frame that a caller copies. The     *)
(* last follows the numbers of the AREQs from queue to queue.              *)
(***************************************************************************)
EXTENDS ZnpTransport, FiniteSetTheorems, SequenceTheorems, TLAPS

-----------------------------------------------------------------------------
(* The inductive invariant *)

\* Who is past the mutex holds it.
Inside == {"type", "id", "drain", "write", "wait", "copy", "give"}
MutexInv == \A c \in Callers : pc[c] \in Inside => mutex = c

\* An SRSP the dispatch task has taken and not yet stored or discarded.
Holding == dpc \in {"type", "id", "store"}
IsSrsp(f) == f.kind = "SRSP"

\* The numbers of the SRSPs in a queue.
After(m, q) == \A i \in DOMAIN q : IsSrsp(q[i]) => m < q[i].n
UpTo(m, q) == \A i \in DOMAIN q : IsSrsp(q[i]) => q[i].n <= m
Before(q, r) == \A i \in DOMAIN q : IsSrsp(q[i]) => After(q[i].n, r)
Sorted(q) ==
    \A i, j \in DOMAIN q :
        i < j /\ IsSrsp(q[i]) /\ IsSrsp(q[j]) => q[i].n < q[j].n

\* Every SRSP that can still be given is younger than m.
QueuesAfter(m) == After(m, rawQueue) /\ After(m, uart) /\ After(m, toChip)
ComeAfter(m) == QueuesAfter(m) /\ (Holding => m < frame.n)

\* SRSPs are in order along their way, and none is ahead of its SREQ.
InOrder ==
    /\ Sorted(rawQueue) /\ Sorted(uart) /\ Sorted(toChip)
    /\ Before(rawQueue, uart) /\ Before(rawQueue, toChip) /\ Before(uart, toChip)

HeldFirst == Holding => IsSrsp(frame) /\ frame.n <= sent /\ QueuesAfter(frame.n)

NotAhead ==
    /\ UpTo(sent, rawQueue) /\ UpTo(sent, uart) /\ UpTo(sent, toChip)
    /\ srspFrame.n <= sent

Order == InOrder /\ HeldFirst /\ ComeAfter(srspFrame.n) /\ NotAhead

\* SREQs that ended with an answer have used up as many SRSPs.
Waiting == \E c \in Callers : pc[c] = "wait"
Floor == IF Waiting THEN sent - late - 1 ELSE sent - late

TokenLag ==
    /\ srspSem \/ dpc = "give" => Floor < srspFrame.n
    /\ srspSem /\ dpc = "give" => Floor + 1 < srspFrame.n

Latest == \A c \in Callers :
    /\ pc[c] \in {"wait", "copy"} => seq[c] = sent /\ lag[c] = late
    /\ pc[c] = "copy" => sent - late <= srspFrame.n

Lag == ComeAfter(Floor) /\ TokenLag /\ Latest

\* A token given after a caller cleared the semaphore is younger than base.
Fresh == \A c \in Callers :
    /\ pc[c] \in {"write", "wait", "copy"} =>
           /\ base[c] <= srspFrame.n
           /\ srspSem \/ dpc = "give" => base[c] < srspFrame.n
    /\ pc[c] = "copy" => base[c] < srspFrame.n

\* A call that is under way has no answer yet.
Sending == {"mutex", "type", "id", "drain", "write", "wait", "copy"}
NothingYet == \A c \in Callers : pc[c] \in Sending => got[c] = {}

IInv ==
    TypeOK /\ MutexInv /\ Order /\ Lag /\ Fresh /\ NothingYet /\ AnswerLag
    /\ AnswerFresh

-----------------------------------------------------------------------------
(* Type correctness *)

LEMMA BoundFacts ==
    /\ RawDepth \in Nat \ {0} /\ AreqDepth \in Nat \ {0}
    /\ MaxCalls \in Nat /\ MaxReports \in Nat /\ MaxFaults \in Nat
    /\ Framework \in Callers /\ Nobody \notin Callers
BY TransportAssumption

LEMMA FrameFacts ==
    /\ NoFrame \in Frame
    /\ \A k \in Commands \cup {NoCommand}, n \in Nat : Srsp(k, n) \in Frame
    /\ \A n \in Nat : Report(n) \in Frame /\ ResetInd(n) \in Frame
BY DEF NoFrame, Frame, Srsp, Report, ResetInd

LEMMA QueueFacts ==
    ASSUME NEW q \in Seq(Frame)
    PROVE  /\ q # <<>> => /\ Head(q) \in Frame /\ Tail(q) \in Seq(Frame)
                          /\ Len(Tail(q)) = Len(q) - 1
           /\ \A f \in Frame : /\ Append(q, f) \in Seq(Frame)
                               /\ Len(Append(q, f)) = Len(q) + 1
OBVIOUS

LEMMA EmptyFacts == <<>> \in Seq(Frame) /\ Len(<<>>) = 0
OBVIOUS

LEMMA InitTypeOK == Init => TypeOK
<1> SUFFICES ASSUME Init PROVE TypeOK
  OBVIOUS
<1>1. CallerTypeOK
  BY DEF Init, CallerTypeOK, CallerPcs
<1>2. CorrelatorTypeOK
  BY FrameFacts DEF Init, CorrelatorTypeOK, Types, Ids
<1>3. QueueTypeOK
  <2>1. toChip = <<>> /\ uart = <<>> /\ rawQueue = <<>> /\ areqQueue = <<>>
    BY DEF Init
  <2>2. toChip \in Seq(Frame) /\ uart \in Seq(Frame)
    BY <2>1, EmptyFacts
  <2>3. rawQueue \in Seq(Frame) /\ Len(rawQueue) <= RawDepth
    BY <2>1, EmptyFacts, BoundFacts
  <2>4. areqQueue \in Seq(Frame) /\ Len(areqQueue) <= AreqDepth
    BY <2>1, EmptyFacts, BoundFacts
  <2>5. booting \in BOOLEAN
    BY DEF Init
  <2>6. QED
    BY <2>2, <2>3, <2>4, <2>5 DEF QueueTypeOK
<1>4. CountTypeOK
  BY BoundFacts DEF Init, CountTypeOK
<1>5. QED
  BY <1>1, <1>2, <1>3, <1>4 DEF TypeOK

\* Which steps leave each part of the state alone.
LEMMA Untouched ==
    ASSUME [Next]_vars
    PROVE  /\ \/ \E c \in Callers : SendSreq(c) \/ \E k \in Commands : Call(c, k)
              \/ DrainReset \/ ResetCoprocessor
              \/ UNCHANGED callerVars
           /\ \/ \E c \in Callers :
                    ExpectType(c) \/ ExpectId(c) \/ DrainToken(c) \/ TakeSrsp(c)
              \/ DrainReset \/ ResetHeard \/ Dispatch
              \/ UNCHANGED <<pending, correlator, resetSem, dispatcher>>
           /\ \/ \E c \in Callers : WriteUart(c)
              \/ PulseReset \/ ReceiveAreq \/ Rx \/ TakeFrame \/ PostAreq \/ Chip
              \/ UNCHANGED <<wire, rawQueue, areqQueue>>
<1> USE DEF callerVars, pending, correlator, wire, dispatcher, others
<1>1. ASSUME NEW c \in Callers, SendSreq(c) \/ \E k \in Commands : Call(c, k)
      PROVE  /\ \/ ExpectType(c) \/ ExpectId(c) \/ DrainToken(c) \/ TakeSrsp(c)
                \/ UNCHANGED <<pending, correlator, resetSem, dispatcher>>
             /\ WriteUart(c) \/ UNCHANGED <<wire, rawQueue, areqQueue>>
  BY <1>1 DEF SendSreq, TakeMutex, MutexTimeout, ExpectType, ExpectId, DrainToken, WriteUart,
              TakeSrsp, SrspTimeout, CopyFrame, GiveMutex, Call
<1>2. DrainReset \/ ResetCoprocessor =>
          /\ \/ DrainReset \/ ResetHeard
             \/ UNCHANGED <<pending, correlator, resetSem, dispatcher>>
          /\ PulseReset \/ UNCHANGED <<wire, rawQueue, areqQueue>>
  BY DEF DrainReset, ResetCoprocessor, PulseReset, ResetHeard, ResetTimeout
<1>3. ReceiveAreq \/ Rx \/ Chip =>
          UNCHANGED callerVars /\ UNCHANGED <<pending, correlator, resetSem, dispatcher>>
  BY DEF ReceiveAreq, Rx, RxFrame, RxReject, Chip, ChipAnswers, ChipReports, ChipBoots, ChipResets
<1>4. Dispatch => /\ UNCHANGED callerVars
                  /\ \/ TakeFrame \/ PostAreq
                     \/ UNCHANGED <<wire, rawQueue, areqQueue>>
  BY DEF Dispatch, TakeFrame, MatchType, MatchId, StoreSrsp, GiveSrsp, GiveReset, PostAreq
<1>5. Quiet \/ UNCHANGED vars =>
          /\ UNCHANGED callerVars /\ UNCHANGED <<pending, correlator, resetSem, dispatcher>>
          /\ UNCHANGED <<wire, rawQueue, areqQueue>>
  BY DEF Quiet, vars
<1>6. QED
  BY <1>1, <1>2, <1>3, <1>4, <1>5 DEF Next

LEMMA CallerTypeStep == TypeOK /\ [Next]_vars => CallerTypeOK'
<1> SUFFICES ASSUME TypeOK, [Next]_vars PROVE CallerTypeOK'
  OBVIOUS
<1> USE DEF CallerTypeOK, CallerPcs, callerVars, locals, Goto
<1> CallerTypeOK
  BY DEF TypeOK
<1>1. ASSUME NEW c \in Callers, SendSreq(c) PROVE CallerTypeOK'
  <2>1. CASE TakeMutex(c) \/ GiveMutex(c)
    BY <2>1 DEF TakeMutex, GiveMutex
  <2>2. CASE \/ MutexTimeout(c) \/ ExpectType(c) \/ ExpectId(c) \/ TakeSrsp(c)
             \/ SrspTimeout(c)
    BY <2>2 DEF MutexTimeout, ExpectType, ExpectId, TakeSrsp, SrspTimeout
  <2>3. CASE DrainToken(c)
    <3>1. LastGiven \in Int
      BY DEF LastGiven, TypeOK, CorrelatorTypeOK, Frame
    <3>2. QED
      BY <2>3, <3>1 DEF DrainToken
  <2>4. CASE WriteUart(c)
    BY <2>4 DEF WriteUart, TypeOK, CountTypeOK
  <2>5. CASE CopyFrame(c)
    BY <2>5 DEF CopyFrame, TypeOK, CorrelatorTypeOK
  <2>6. QED
    BY <1>1, <2>1, <2>2, <2>3, <2>4, <2>5 DEF SendSreq
<1>2. ASSUME NEW c \in Callers, NEW k \in Commands, Call(c, k) PROVE CallerTypeOK'
  BY <1>2 DEF Call
<1>3. CASE DrainReset \/ ResetCoprocessor
  BY <1>3, BoundFacts DEF DrainReset, ResetCoprocessor, PulseReset, ResetHeard, ResetTimeout
<1>4. CASE UNCHANGED callerVars
  BY <1>4
<1>5. QED
  BY <1>1, <1>2, <1>3, <1>4, Untouched

LEMMA CorrelatorTypeStep == TypeOK /\ [Next]_vars => CorrelatorTypeOK'
<1> SUFFICES ASSUME TypeOK, [Next]_vars PROVE CorrelatorTypeOK'
  OBVIOUS
<1> USE DEF CorrelatorTypeOK, pending, correlator, dispatcher, others
<1> CorrelatorTypeOK
  BY DEF TypeOK
<1>1. ASSUME NEW c \in Callers, ExpectType(c) \/ ExpectId(c) PROVE CorrelatorTypeOK'
  <2>1. cmd[c][1] \in Types /\ cmd[c][2] \in Ids
    BY DEF TypeOK, CallerTypeOK, Types, Ids
  <2>2. QED
    BY <1>1, <2>1 DEF ExpectType, ExpectId
<1>2. ASSUME NEW c \in Callers, DrainToken(c) \/ TakeSrsp(c) PROVE CorrelatorTypeOK'
  BY <1>2 DEF DrainToken, TakeSrsp
<1>3. CASE DrainReset \/ ResetHeard
  BY <1>3 DEF DrainReset, ResetHeard
<1>4. CASE TakeFrame
  <2>1. frame' \in Frame
    BY <1>4, QueueFacts DEF TakeFrame, TypeOK, QueueTypeOK
  <2>2. dpc' \in {"type", "reset", "post"}
    BY <1>4, <2>1 DEF TakeFrame, Frame
  <2>3. QED
    BY <1>4, <2>1, <2>2 DEF TakeFrame
<1>5. CASE MatchType \/ MatchId \/ StoreSrsp \/ GiveSrsp \/ GiveReset \/ PostAreq
  BY <1>5 DEF MatchType, MatchId, StoreSrsp, GiveSrsp, GiveReset, PostAreq
<1>6. CASE UNCHANGED <<pending, correlator, resetSem, dispatcher>>
  BY <1>6
<1>7. QED
  BY <1>1, <1>2, <1>3, <1>4, <1>5, <1>6, Untouched DEF Dispatch

LEMMA QueueTypeStep == TypeOK /\ [Next]_vars => QueueTypeOK'
<1> SUFFICES ASSUME TypeOK, [Next]_vars PROVE QueueTypeOK'
  OBVIOUS
<1> USE QueueFacts DEF QueueTypeOK, wire
<1> QueueTypeOK
  BY DEF TypeOK
<1>1. ASSUME NEW c \in Callers, WriteUart(c) PROVE QueueTypeOK'
  <2>1. cmd[c] \in Commands \cup {NoCommand} /\ sent' \in Nat
    BY <1>1 DEF WriteUart, TypeOK, CallerTypeOK, CountTypeOK
  <2>2. Append(toChip, Srsp(cmd[c], sent')) \in Seq(Frame)
    BY <2>1, FrameFacts
  <2>3. QED
    BY <1>1, <2>2 DEF WriteUart
<1>2. CASE PulseReset \/ ChipResets
  BY <1>2, EmptyFacts DEF PulseReset, ChipResets, ChipDown
<1>3. CASE ReceiveAreq
  <2>1. Tail(areqQueue) \in Seq(Frame) /\ Len(Tail(areqQueue)) <= AreqDepth
    BY <1>3, BoundFacts DEF ReceiveAreq
  <2>2. QED
    BY <1>3, <2>1 DEF ReceiveAreq
<1>4. CASE Rx
  <2>1. uart # <<>> /\ Head(uart) \in Frame /\ Tail(uart) \in Seq(Frame)
    BY <1>4 DEF Rx, RxFrame, RxReject
  <2>2. CASE RxFrame /\ Len(rawQueue) < RawDepth
    <3>1. /\ Append(rawQueue, Head(uart)) \in Seq(Frame)
          /\ Len(Append(rawQueue, Head(uart))) <= RawDepth
      BY <2>1, <2>2, BoundFacts
    <3>2. QED
      BY <2>1, <2>2, <3>1 DEF RxFrame
  <2>3. CASE RxReject \/ (RxFrame /\ ~(Len(rawQueue) < RawDepth))
    BY <2>1, <2>3 DEF RxReject, RxFrame
  <2>4. QED
    BY <1>4, <2>2, <2>3 DEF Rx
<1>5. CASE TakeFrame
  <2>1. Tail(rawQueue) \in Seq(Frame) /\ Len(Tail(rawQueue)) <= RawDepth
    BY <1>5, BoundFacts DEF TakeFrame
  <2>2. QED
    BY <1>5, <2>1 DEF TakeFrame
<1>6. CASE PostAreq
  <2>1. CASE Len(areqQueue) < AreqDepth
    <3>1. frame \in Frame
      BY DEF TypeOK, CorrelatorTypeOK
    <3>2. /\ Append(areqQueue, frame) \in Seq(Frame)
          /\ Len(Append(areqQueue, frame)) <= AreqDepth
      BY <2>1, <3>1, BoundFacts
    <3>3. QED
      BY <1>6, <2>1, <3>2 DEF PostAreq
  <2>2. CASE ~(Len(areqQueue) < AreqDepth)
    BY <1>6, <2>2 DEF PostAreq
  <2>3. QED
    BY <2>1, <2>2
<1>7. CASE ChipAnswers
  BY <1>7 DEF ChipAnswers
<1>8. CASE ChipReports \/ ChipBoots
  <2>1. told' \in Nat
    BY <1>8 DEF ChipReports, ChipBoots, TypeOK, CountTypeOK
  <2>2. /\ Append(uart, Report(told')) \in Seq(Frame)
        /\ Append(uart, ResetInd(told')) \in Seq(Frame)
    BY <2>1, FrameFacts
  <2>3. QED
    BY <1>8, <2>2 DEF ChipReports, ChipBoots
<1>9. CASE UNCHANGED <<wire, rawQueue, areqQueue>>
  BY <1>9
<1>10. QED
  BY <1>1, <1>2, <1>3, <1>4, <1>5, <1>6, <1>7, <1>8, <1>9, Untouched DEF Chip

LEMMA CountTypeStep == TypeOK /\ [Next]_vars => CountTypeOK'
<1> SUFFICES ASSUME CountTypeOK, [Next]_vars PROVE CountTypeOK'
  BY DEF TypeOK
<1> USE BoundFacts DEF CountTypeOK, counts, budgets
<1>1. ASSUME NEW c \in Callers, SendSreq(c) PROVE CountTypeOK'
  BY <1>1 DEF SendSreq, TakeMutex, MutexTimeout, ExpectType, ExpectId, DrainToken, WriteUart,
              TakeSrsp, SrspTimeout, CopyFrame, GiveMutex
<1>2. ASSUME NEW c \in Callers, NEW k \in Commands, Call(c, k) PROVE CountTypeOK'
  BY <1>2 DEF Call
<1>3. CASE DrainReset \/ ResetCoprocessor \/ ReceiveAreq
  BY <1>3 DEF DrainReset, ResetCoprocessor, PulseReset, ResetHeard, ResetTimeout, ReceiveAreq,
              Fault
<1>4. CASE Rx \/ Chip
  BY <1>4 DEF Rx, RxFrame, RxReject, Chip, ChipAnswers, ChipReports, ChipBoots, ChipResets, Fault
<1>5. CASE Dispatch
  BY <1>5 DEF Dispatch, TakeFrame, MatchType, MatchId, StoreSrsp, GiveSrsp, GiveReset, PostAreq
<1>6. CASE Quiet \/ UNCHANGED vars
  BY <1>6 DEF Quiet, vars
<1>7. QED
  BY <1>1, <1>2, <1>3, <1>4, <1>5, <1>6 DEF Next

LEMMA TypeStep == TypeOK /\ [Next]_vars => TypeOK'
BY CallerTypeStep, CorrelatorTypeStep, QueueTypeStep, CountTypeStep DEF TypeOK

-----------------------------------------------------------------------------
(* Queues of frames *)

LEMMA TailFacts ==
    ASSUME NEW q \in Seq(Frame), q # <<>>
    PROVE  /\ 1 \in DOMAIN q /\ Head(q) = q[1]
           /\ \A i \in DOMAIN Tail(q) :
                  i + 1 \in DOMAIN q /\ 1 < i + 1 /\ Tail(q)[i] = q[i + 1]
OBVIOUS

LEMMA AppendFacts ==
    ASSUME NEW q \in Seq(Frame), NEW f \in Frame
    PROVE  \A i \in DOMAIN Append(q, f) :
               \/ i \in DOMAIN q /\ Append(q, f)[i] = q[i]
               \/ i = Len(q) + 1 /\ Append(q, f)[i] = f
OBVIOUS

LEMMA DomainFacts ==
    ASSUME NEW q \in Seq(Frame)
    PROVE  \A i \in DOMAIN q :
               i \in Nat /\ i <= Len(q) /\ q[i] \in Frame /\ q[i].n \in Nat
<1>1. \A i \in DOMAIN q : i \in Nat /\ i <= Len(q) /\ q[i] \in Frame
  OBVIOUS
<1>2. \A f \in Frame : f.n \in Nat
  BY DEF Frame
<1>3. QED
  BY <1>1, <1>2

\* What the tail of a queue inherits.
LEMMA TailInherits ==
    ASSUME NEW q \in Seq(Frame), q # <<>>
    PROVE  /\ Sorted(q) => Sorted(Tail(q))
           /\ Sorted(q) /\ IsSrsp(Head(q)) => After(Head(q).n, Tail(q))
           /\ \A m \in Int : After(m, q) => After(m, Tail(q))
           /\ \A m \in Int : UpTo(m, q) => UpTo(m, Tail(q))
<1> USE TailFacts, DomainFacts
<1>1. Sorted(q) => Sorted(Tail(q))
  <2> SUFFICES ASSUME Sorted(q), NEW i \in DOMAIN Tail(q), NEW j \in DOMAIN Tail(q),
                      i < j, IsSrsp(Tail(q)[i]), IsSrsp(Tail(q)[j])
               PROVE  Tail(q)[i].n < Tail(q)[j].n
    BY DEF Sorted
  <2>1. i \in Nat /\ j \in Nat
    OBVIOUS
  <2>2. i + 1 \in DOMAIN q /\ j + 1 \in DOMAIN q /\ i + 1 < j + 1
    BY <2>1
  <2>3. IsSrsp(q[i + 1]) /\ IsSrsp(q[j + 1])
    OBVIOUS
  <2>4. q[i + 1].n < q[j + 1].n
    BY <2>2, <2>3 DEF Sorted
  <2>5. QED
    BY <2>4
<1>2. Sorted(q) /\ IsSrsp(Head(q)) => After(Head(q).n, Tail(q))
  BY DEF Sorted, After
<1>3. \A m \in Int : After(m, q) => After(m, Tail(q))
  BY DEF After
<1>4. \A m \in Int : UpTo(m, q) => UpTo(m, Tail(q))
  BY DEF UpTo
<1>5. QED
  BY <1>1, <1>2, <1>3, <1>4

\* What appending a frame to a queue takes.
LEMMA AppendKeeps ==
    ASSUME NEW q \in Seq(Frame), NEW f \in Frame
    PROVE  /\ Sorted(q) /\ (IsSrsp(f) => UpTo(f.n - 1, q)) => Sorted(Append(q, f))
           /\ \A m \in Int : After(m, q) /\ (IsSrsp(f) => m < f.n)
                             => After(m, Append(q, f))
           /\ \A m \in Int : UpTo(m, q) /\ (IsSrsp(f) => f.n <= m)
                             => UpTo(m, Append(q, f))
<1> USE AppendFacts, DomainFacts
<1>1. ASSUME Sorted(q), IsSrsp(f) => UpTo(f.n - 1, q) PROVE Sorted(Append(q, f))
  <2>1. f.n \in Nat
    BY DEF Frame
  <2>2. QED
    BY <1>1, <2>1 DEF Sorted, UpTo
<1>2. \A m \in Int : After(m, q) /\ (IsSrsp(f) => m < f.n) => After(m, Append(q, f))
  BY DEF After
<1>3. \A m \in Int : UpTo(m, q) /\ (IsSrsp(f) => f.n <= m) => UpTo(m, Append(q, f))
  BY DEF UpTo
<1>4. QED
  BY <1>1, <1>2, <1>3

-----------------------------------------------------------------------------
(* The way of an SRSP *)

LEMMA QueueTypes ==
    ASSUME TypeOK
    PROVE  /\ toChip \in Seq(Frame) /\ uart \in Seq(Frame) /\ rawQueue \in Seq(Frame)
           /\ frame \in Frame /\ srspFrame \in Frame
           /\ frame.n \in Nat /\ srspFrame.n \in Nat /\ sent \in Nat /\ late \in Nat
           /\ frame.kind \in {"SRSP", "AREQ", "RESET"}
<1>1. frame \in Frame /\ srspFrame \in Frame
  BY DEF TypeOK, CorrelatorTypeOK
<1>2. QED
  BY <1>1 DEF TypeOK, QueueTypeOK, CountTypeOK, Frame

\* Most steps move no SRSP, though the dispatch task may let one go.
Still ==
    /\ UNCHANGED <<rawQueue, uart, toChip, frame, srspFrame, sent>>
    /\ Holding' => Holding

\* The steps that move one.
Moves ==
    \/ \E c \in Callers : WriteUart(c)
    \/ PulseReset \/ RxFrame \/ RxReject \/ TakeFrame \/ StoreSrsp
    \/ ChipAnswers \/ ChipReports \/ ChipBoots \/ ChipResets

LEMMA StillOrMoves == [Next]_vars => Still \/ Moves
<1> SUFFICES ASSUME [Next]_vars, ~Moves PROVE Still
  OBVIOUS
<1> USE DEF Still, Moves, Holding, Goto, vars, callerVars, locals, pending, correlator, wire,
            dispatcher, others, counts, budgets
<1>1. ASSUME NEW c \in Callers, SendSreq(c) PROVE Still
  BY <1>1 DEF SendSreq, TakeMutex, MutexTimeout, ExpectType, ExpectId, DrainToken,
              TakeSrsp, SrspTimeout, CopyFrame, GiveMutex
<1>2. ASSUME NEW c \in Callers, NEW k \in Commands, Call(c, k) PROVE Still
  BY <1>2 DEF Call
<1>3. ASSUME DrainReset \/ ResetCoprocessor \/ ReceiveAreq PROVE Still
  BY <1>3 DEF DrainReset, ResetCoprocessor, ResetHeard, ResetTimeout, ReceiveAreq
<1>4. ASSUME Dispatch PROVE Still
  BY <1>4 DEF Dispatch, MatchType, MatchId, GiveSrsp, GiveReset, PostAreq
<1>5. ASSUME Quiet \/ UNCHANGED vars PROVE Still
  BY <1>5 DEF Quiet
<1>6. QED
  BY <1>1, <1>2, <1>3, <1>4, <1>5 DEF Next, Rx, Chip

\* The number of the SRSP an SREQ asks for is the next.
LEMMA WrittenSrsp ==
    ASSUME TypeOK, NEW c \in Callers, WriteUart(c)
    PROVE  \E f \in Frame : f.n = sent + 1
                           /\ (toChip' = toChip \/ toChip' = Append(toChip, f))
<1>1. cmd[c] \in Commands \cup {NoCommand} /\ sent' \in Nat /\ sent' = sent + 1
  BY DEF WriteUart, TypeOK, CallerTypeOK, CountTypeOK
<1>2. Srsp(cmd[c], sent') \in Frame
  BY <1>1, FrameFacts
<1>3. Srsp(cmd[c], sent').n = sent + 1
  BY <1>1 DEF Srsp
<1>4. QED
  BY <1>2, <1>3 DEF WriteUart

LEMMA ReportedAreq ==
    ASSUME TypeOK, ChipReports \/ ChipBoots
    PROVE  \E f \in Frame : uart' = Append(uart, f) /\ ~IsSrsp(f)
<1>1. told' \in Nat
  BY DEF ChipReports, ChipBoots, TypeOK, CountTypeOK
<1>2. /\ Report(told') \in Frame /\ ~IsSrsp(Report(told'))
      /\ ResetInd(told') \in Frame /\ ~IsSrsp(ResetInd(told'))
  BY <1>1, FrameFacts DEF Report, ResetInd, IsSrsp
<1>3. QED
  BY <1>2 DEF ChipReports, ChipBoots

\* What is added to the queues is younger than all that was sent.
LEMMA QueuesAfterStep ==
    ASSUME TypeOK, [Next]_vars, NEW m \in Int, m <= sent, QueuesAfter(m)
    PROVE  QueuesAfter(m)'
<1> USE QueueTypes DEF QueuesAfter
<1>1. CASE Still
  BY <1>1 DEF Still, After
<1>2. ASSUME NEW c \in Callers, WriteUart(c) PROVE QueuesAfter(m)'
  <2>1. PICK f \in Frame : /\ f.n = sent + 1
                           /\ toChip' = toChip \/ toChip' = Append(toChip, f)
    BY <1>2, WrittenSrsp
  <2>2. After(m, Append(toChip, f))
    BY <2>1, AppendKeeps
  <2>3. QED
    BY <1>2, <2>1, <2>2 DEF WriteUart, After
<1>3. CASE PulseReset \/ ChipResets
  BY <1>3 DEF PulseReset, ChipResets, ChipDown, After
<1>4. CASE RxFrame
  <2>1. After(m, Tail(uart)) /\ Head(uart) \in Frame
    BY <1>4, TailInherits, QueueFacts DEF RxFrame
  <2>2. IsSrsp(Head(uart)) => m < Head(uart).n
    BY <1>4, TailFacts DEF RxFrame, After
  <2>3. After(m, Append(rawQueue, Head(uart)))
    BY <2>1, <2>2, AppendKeeps
  <2>4. After(m, rawQueue') /\ After(m, uart')
    BY <1>4, <2>1, <2>3 DEF RxFrame
  <2>5. QED
    BY <1>4, <2>4 DEF RxFrame, After
<1>5. CASE RxReject
  <2>1. After(m, uart')
    BY <1>5, TailInherits DEF RxReject
  <2>2. QED
    BY <1>5, <2>1 DEF RxReject, After
<1>6. CASE TakeFrame
  <2>1. After(m, rawQueue')
    BY <1>6, TailInherits DEF TakeFrame
  <2>2. QED
    BY <1>6, <2>1 DEF TakeFrame, After, wire
<1>7. CASE StoreSrsp
  BY <1>7 DEF StoreSrsp, After, wire
<1>8. CASE ChipAnswers
  <2>1. After(m, Tail(toChip)) /\ Head(toChip) \in Frame
    BY <1>8, TailInherits, QueueFacts DEF ChipAnswers
  <2>2. IsSrsp(Head(toChip)) => m < Head(toChip).n
    BY <1>8, TailFacts DEF ChipAnswers, After
  <2>3. After(m, Append(uart, Head(toChip)))
    BY <2>1, <2>2, AppendKeeps
  <2>4. QED
    BY <1>8, <2>1, <2>3 DEF ChipAnswers, After
<1>9. CASE ChipReports \/ ChipBoots
  <2>1. PICK f \in Frame : uart' = Append(uart, f) /\ ~IsSrsp(f)
    BY <1>9, ReportedAreq
  <2>2. After(m, Append(uart, f))
    BY <2>1, AppendKeeps
  <2>3. QED
    BY <1>9, <2>1, <2>2 DEF ChipReports, ChipBoots, After
<1>10. QED
  BY <1>1, <1>2, <1>3, <1>4, <1>5, <1>6, <1>7, <1>8, <1>9, StillOrMoves DEF Moves

\* The frame in hand changes only when the next is taken.
LEMMA HeldOrTaken ==
    ASSUME TypeOK, [Next]_vars, Holding', ~TakeFrame
    PROVE  Holding /\ frame' = frame
<1>1. CASE Still
  BY <1>1 DEF Still
<1>2. CASE StoreSrsp
  BY <1>2 DEF StoreSrsp, Holding
<1>3. CASE Moves /\ ~StoreSrsp
  BY <1>3 DEF Moves, WriteUart, PulseReset, RxFrame, RxReject, ChipAnswers, ChipReports,
              ChipBoots, ChipResets, dispatcher, Holding
<1>4. QED
  BY <1>1, <1>2, <1>3, StillOrMoves

LEMMA TakenFrame ==
    ASSUME TypeOK, TakeFrame, Holding'
    PROVE  /\ frame' = Head(rawQueue) /\ frame' \in Frame /\ IsSrsp(frame')
           /\ rawQueue # <<>> /\ rawQueue' = Tail(rawQueue)
           /\ UNCHANGED <<uart, toChip, srspFrame, sent>>
<1>1. Head(rawQueue) \in Frame
  BY QueueTypes, QueueFacts DEF TakeFrame
<1>2. QED
  BY <1>1 DEF TakeFrame, Holding, IsSrsp, Frame, wire, correlator, counts

\* What was still to come stays so.
LEMMA ComeAfterStep ==
    ASSUME TypeOK, [Next]_vars, NEW m \in Int, m <= sent, ComeAfter(m)
    PROVE  ComeAfter(m)'
<1>1. QueuesAfter(m)'
  BY QueuesAfterStep DEF ComeAfter
<1>2. ASSUME Holding' PROVE m < frame'.n
  <2>1. CASE TakeFrame
    BY <1>2, <2>1, TakenFrame, TailFacts, QueueTypes DEF ComeAfter, QueuesAfter, After
  <2>2. CASE ~TakeFrame
    BY <1>2, <2>2, HeldOrTaken DEF ComeAfter
  <2>3. QED
    BY <2>1, <2>2
<1>3. QED
  BY <1>1, <1>2 DEF ComeAfter

LEMMA BeforeTail ==
    ASSUME NEW q \in Seq(Frame), NEW r \in Seq(Frame), Before(q, r)
    PROVE  /\ q # <<>> => Before(Tail(q), r)
           /\ r # <<>> => Before(q, Tail(r))
           /\ q # <<>> /\ IsSrsp(Head(q)) => After(Head(q).n, r)
<1> USE TailFacts, DomainFacts
<1>1. q # <<>> => Before(Tail(q), r)
  BY DEF Before
<1>2. ASSUME r # <<>> PROVE Before(q, Tail(r))
  BY <1>2 DEF Before, After
<1>3. q # <<>> /\ IsSrsp(Head(q)) => After(Head(q).n, r)
  BY DEF Before
<1>4. QED
  BY <1>1, <1>2, <1>3

LEMMA BeforeAppend ==
    ASSUME NEW q \in Seq(Frame), NEW r \in Seq(Frame), NEW f \in Frame, Before(q, r)
    PROVE  /\ (IsSrsp(f) => After(f.n, r)) => Before(Append(q, f), r)
           /\ (IsSrsp(f) => UpTo(f.n - 1, q)) => Before(q, Append(r, f))
<1> USE AppendFacts, DomainFacts
<1>1. (IsSrsp(f) => After(f.n, r)) => Before(Append(q, f), r)
  BY DEF Before
<1>2. ASSUME IsSrsp(f) => UpTo(f.n - 1, q) PROVE Before(q, Append(r, f))
  <2>1. f.n \in Nat
    BY DEF Frame
  <2>2. QED
    BY <1>2, <2>1 DEF Before, After, UpTo
<1>3. QED
  BY <1>1, <1>2

\* The last of the frames that precede f are older than f.
LEMMA HeadLast ==
    ASSUME NEW q \in Seq(Frame), NEW r \in Seq(Frame), Before(q, r), r # <<>>,
           IsSrsp(Head(r))
    PROVE  UpTo(Head(r).n - 1, q)
<1> USE TailFacts, DomainFacts
<1>1. Head(r).n \in Nat
  OBVIOUS
<1>2. QED
  BY <1>1 DEF Before, After, UpTo

LEMMA UpToMore ==
    ASSUME NEW q \in Seq(Frame), NEW m \in Int, NEW k \in Int, m <= k, UpTo(m, q)
    PROVE  UpTo(k, q)
BY DomainFacts DEF UpTo

LEMMA NotAheadStep ==
    ASSUME TypeOK, Order, [Next]_vars
    PROVE  NotAhead'
<1> USE QueueTypes DEF Order, NotAhead
<1>1. CASE Still
  BY <1>1 DEF Still, UpTo
<1>2. ASSUME NEW c \in Callers, WriteUart(c) PROVE NotAhead'
  <2>1. PICK f \in Frame : /\ f.n = sent + 1
                           /\ toChip' = toChip \/ toChip' = Append(toChip, f)
    BY <1>2, WrittenSrsp
  <2>2. UpTo(sent + 1, rawQueue) /\ UpTo(sent + 1, uart) /\ UpTo(sent + 1, toChip)
    BY UpToMore
  <2>3. UpTo(sent + 1, Append(toChip, f))
    BY <2>1, <2>2, AppendKeeps
  <2>4. QED
    BY <1>2, <2>1, <2>2, <2>3 DEF WriteUart, UpTo, correlator
<1>3. CASE PulseReset \/ ChipResets
  BY <1>3 DEF PulseReset, ChipResets, ChipDown, UpTo, correlator, counts
<1>4. CASE RxFrame
  <2>1. UpTo(sent, Tail(uart)) /\ Head(uart) \in Frame
    BY <1>4, TailInherits, QueueFacts DEF RxFrame
  <2>2. IsSrsp(Head(uart)) => Head(uart).n <= sent
    BY <1>4, TailFacts DEF RxFrame, UpTo
  <2>3. UpTo(sent, Append(rawQueue, Head(uart)))
    BY <2>1, <2>2, AppendKeeps
  <2>4. QED
    BY <1>4, <2>1, <2>3 DEF RxFrame, UpTo, correlator, counts
<1>5. CASE RxReject
  <2>1. UpTo(sent, Tail(uart))
    BY <1>5, TailInherits DEF RxReject
  <2>2. QED
    BY <1>5, <2>1 DEF RxReject, UpTo, correlator, counts
<1>6. CASE TakeFrame
  <2>1. UpTo(sent, Tail(rawQueue))
    BY <1>6, TailInherits DEF TakeFrame
  <2>2. QED
    BY <1>6, <2>1 DEF TakeFrame, UpTo, wire, correlator, counts
<1>7. CASE StoreSrsp
  BY <1>7 DEF StoreSrsp, HeldFirst, Holding, UpTo, wire, counts
<1>8. CASE ChipAnswers
  <2>1. UpTo(sent, Tail(toChip)) /\ Head(toChip) \in Frame
    BY <1>8, TailInherits, QueueFacts DEF ChipAnswers
  <2>2. IsSrsp(Head(toChip)) => Head(toChip).n <= sent
    BY <1>8, TailFacts DEF ChipAnswers, UpTo
  <2>3. UpTo(sent, Append(uart, Head(toChip)))
    BY <2>1, <2>2, AppendKeeps
  <2>4. QED
    BY <1>8, <2>1, <2>3 DEF ChipAnswers, UpTo, correlator, counts
<1>9. CASE ChipReports \/ ChipBoots
  <2>1. PICK f \in Frame : uart' = Append(uart, f) /\ ~IsSrsp(f)
    BY <1>9, ReportedAreq
  <2>2. UpTo(sent, Append(uart, f))
    BY <2>1, AppendKeeps
  <2>3. QED
    BY <1>9, <2>1, <2>2 DEF ChipReports, ChipBoots, UpTo, correlator
<1>10. QED
  BY <1>1, <1>2, <1>3, <1>4, <1>5, <1>6, <1>7, <1>8, <1>9, StillOrMoves DEF Moves

LEMMA HeldFirstStep ==
    ASSUME TypeOK, Order, [Next]_vars
    PROVE  HeldFirst'
<1> SUFFICES ASSUME Holding'
             PROVE  /\ IsSrsp(frame') /\ frame'.n <= sent'
                    /\ QueuesAfter(frame.n)'
  BY DEF HeldFirst, IsSrsp
<1> USE QueueTypes DEF Order
<1>1. CASE TakeFrame
  <2>1. /\ frame' = Head(rawQueue) /\ frame' \in Frame /\ IsSrsp(frame')
        /\ rawQueue # <<>> /\ rawQueue' = Tail(rawQueue)
        /\ UNCHANGED <<uart, toChip, srspFrame, sent>>
    BY <1>1, TakenFrame
  <2>2. frame'.n <= sent
    BY <2>1, TailFacts DEF NotAhead, UpTo
  <2>3. After(Head(rawQueue).n, Tail(rawQueue))
    BY <2>1, TailInherits DEF InOrder
  <2>4. After(Head(rawQueue).n, uart) /\ After(Head(rawQueue).n, toChip)
    BY <2>1, BeforeTail DEF InOrder
  <2>5. After(frame'.n, rawQueue') /\ After(frame'.n, uart') /\ After(frame'.n, toChip')
    BY <2>1, <2>3, <2>4
  <2>6. QED
    BY <2>1, <2>2, <2>5 DEF QueuesAfter, After
<1>2. CASE ~TakeFrame
  <2>1. Holding /\ frame' = frame
    BY <1>2, HeldOrTaken
  <2>2. PICK m \in Int : m = frame.n
    OBVIOUS
  <2>3. m <= sent /\ QueuesAfter(m)
    BY <2>1, <2>2 DEF HeldFirst
  <2>4. QueuesAfter(m)'
    BY <2>3, QueuesAfterStep
  <2>5. sent <= sent'
    <3>1. CASE Still
      BY <3>1 DEF Still
    <3>2. CASE Moves
      BY <3>2 DEF Moves, WriteUart, PulseReset, RxFrame, RxReject, TakeFrame, StoreSrsp,
                  ChipAnswers, ChipReports, ChipBoots, ChipResets, counts
    <3>3. QED
      BY <3>1, <3>2, StillOrMoves
  <2>6. IsSrsp(frame') /\ frame'.n = m /\ m <= sent'
    <3>1. sent' \in Nat
      BY TypeStep DEF TypeOK, CountTypeOK
    <3>2. QED
      BY <2>1, <2>2, <2>3, <2>5, <3>1 DEF HeldFirst
  <2>7. QED
    BY <2>4, <2>6 DEF QueuesAfter, After
<1>3. QED
  BY <1>1, <1>2

LEMMA StoredFirstStep ==
    ASSUME TypeOK, Order, [Next]_vars
    PROVE  ComeAfter(srspFrame.n)' /\ srspFrame.n <= srspFrame'.n
<1> USE QueueTypes DEF Order
<1>1. CASE StoreSrsp
  <2>1. Holding /\ srspFrame' = frame /\ ~Holding'
    BY <1>1 DEF StoreSrsp, Holding
  <2>2. UNCHANGED <<rawQueue, uart, toChip>>
    BY <1>1 DEF StoreSrsp, wire
  <2>3. QED
    BY <2>1, <2>2 DEF HeldFirst, ComeAfter, QueuesAfter, After
<1>2. CASE ~StoreSrsp
  <2>1. srspFrame' = srspFrame
    <3>1. CASE Still
      BY <3>1 DEF Still
    <3>2. CASE Moves
      BY <1>2, <3>2 DEF Moves, WriteUart, PulseReset, RxFrame, RxReject, TakeFrame,
                  ChipAnswers, ChipReports, ChipBoots, ChipResets, correlator
    <3>3. QED
      BY <3>1, <3>2, StillOrMoves
  <2>2. PICK m \in Int : m = srspFrame.n
    OBVIOUS
  <2>3. m <= sent /\ ComeAfter(m)
    BY <2>2 DEF NotAhead
  <2>4. ComeAfter(m)'
    BY <2>3, ComeAfterStep
  <2>5. QED
    BY <2>1, <2>2, <2>4 DEF ComeAfter, QueuesAfter, After
<1>3. QED
  BY <1>1, <1>2

LEMMA InOrderStep ==
    ASSUME TypeOK, Order, [Next]_vars
    PROVE  InOrder'
<1> USE QueueTypes DEF Order, InOrder
<1>1. CASE UNCHANGED <<rawQueue, uart, toChip>>
  BY <1>1 DEF Sorted, Before, After
<1>2. ASSUME NEW c \in Callers, WriteUart(c) PROVE InOrder'
  <2>1. PICK f \in Frame : /\ f.n = sent + 1
                           /\ toChip' = toChip \/ toChip' = Append(toChip, f)
    BY <1>2, WrittenSrsp
  <2>2. UpTo(f.n - 1, rawQueue) /\ UpTo(f.n - 1, uart) /\ UpTo(f.n - 1, toChip)
    <3>1. f.n - 1 = sent
      BY <2>1
    <3>2. UpTo(sent, rawQueue) /\ UpTo(sent, uart) /\ UpTo(sent, toChip)
      BY DEF NotAhead
    <3>3. QED
      BY <3>1, <3>2
  <2>3. Sorted(Append(toChip, f))
    BY <2>2, AppendKeeps
  <2>4. Before(rawQueue, Append(toChip, f)) /\ Before(uart, Append(toChip, f))
    BY <2>2, BeforeAppend
  <2>5. UNCHANGED <<rawQueue, uart>>
    BY <1>2 DEF WriteUart
  <2>6. QED
    BY <2>1, <2>3, <2>4, <2>5
<1>3. CASE PulseReset \/ ChipResets
  BY <1>3 DEF PulseReset, ChipResets, ChipDown, Sorted, Before, After
<1>4. ASSUME uart # <<>> PROVE /\ Head(uart) \in Frame /\ Tail(uart) \in Seq(Frame)
                               /\ Sorted(Tail(uart)) /\ Before(rawQueue, Tail(uart))
                               /\ Before(Tail(uart), toChip)
  BY <1>4, QueueFacts, TailInherits, BeforeTail
<1>5. CASE RxFrame
  <2>1. uart # <<>> /\ uart' = Tail(uart) /\ toChip' = toChip
    BY <1>5 DEF RxFrame
  <2>2. IsSrsp(Head(uart)) => /\ UpTo(Head(uart).n - 1, rawQueue)
                              /\ After(Head(uart).n, Tail(uart))
                              /\ After(Head(uart).n, toChip)
    BY <2>1, HeadLast, TailInherits, BeforeTail
  <2>3. Sorted(Append(rawQueue, Head(uart)))
    BY <1>4, <2>1, <2>2, AppendKeeps
  <2>4. /\ Before(Append(rawQueue, Head(uart)), Tail(uart))
        /\ Before(Append(rawQueue, Head(uart)), toChip)
    BY <1>4, <2>1, <2>2, BeforeAppend
  <2>5. rawQueue' = rawQueue \/ rawQueue' = Append(rawQueue, Head(uart))
    BY <1>5 DEF RxFrame
  <2>6. QED
    BY <1>4, <2>1, <2>3, <2>4, <2>5
<1>6. CASE RxReject
  BY <1>4, <1>6 DEF RxReject
<1>7. CASE TakeFrame
  <2>1. rawQueue # <<>> /\ rawQueue' = Tail(rawQueue) /\ UNCHANGED <<uart, toChip>>
    BY <1>7 DEF TakeFrame, wire
  <2>2. /\ Sorted(Tail(rawQueue)) /\ Before(Tail(rawQueue), uart)
        /\ Before(Tail(rawQueue), toChip)
    BY <2>1, TailInherits, BeforeTail
  <2>3. QED
    BY <2>1, <2>2
<1>8. CASE ChipAnswers
  <2>1. /\ toChip # <<>> /\ toChip' = Tail(toChip)
        /\ uart' = Append(uart, Head(toChip)) /\ rawQueue' = rawQueue
    BY <1>8 DEF ChipAnswers
  <2>2. /\ Head(toChip) \in Frame /\ Tail(toChip) \in Seq(Frame)
        /\ Sorted(Tail(toChip)) /\ Before(uart, Tail(toChip))
        /\ Before(rawQueue, Tail(toChip))
    BY <2>1, QueueFacts, TailInherits, BeforeTail
  <2>3. IsSrsp(Head(toChip)) => /\ UpTo(Head(toChip).n - 1, uart)
                                /\ UpTo(Head(toChip).n - 1, rawQueue)
                                /\ After(Head(toChip).n, Tail(toChip))
    BY <2>1, HeadLast, TailInherits
  <2>4. Sorted(Append(uart, Head(toChip)))
    BY <2>2, <2>3, AppendKeeps
  <2>5. /\ Before(rawQueue, Append(uart, Head(toChip)))
        /\ Before(Append(uart, Head(toChip)), Tail(toChip))
    BY <2>2, <2>3, BeforeAppend
  <2>6. QED
    BY <2>1, <2>2, <2>4, <2>5
<1>9. CASE ChipReports \/ ChipBoots
  <2>1. PICK f \in Frame : uart' = Append(uart, f) /\ ~IsSrsp(f)
    BY <1>9, ReportedAreq
  <2>2. /\ Sorted(Append(uart, f)) /\ Before(rawQueue, Append(uart, f))
        /\ Before(Append(uart, f), toChip)
    BY <2>1, AppendKeeps, BeforeAppend
  <2>3. UNCHANGED <<rawQueue, toChip>>
    BY <1>9 DEF ChipReports, ChipBoots
  <2>4. QED
    BY <2>1, <2>2, <2>3
<1>10. CASE Still \/ StoreSrsp
  BY <1>1, <1>10 DEF Still, StoreSrsp, wire
<1>11. QED
  BY <1>2, <1>3, <1>5, <1>6, <1>7, <1>8, <1>9, <1>10, StillOrMoves DEF Moves

LEMMA OrderStep == TypeOK /\ Order /\ [Next]_vars => Order'
<1> SUFFICES ASSUME TypeOK, Order, [Next]_vars PROVE Order'
  OBVIOUS
<1>1. QED
  BY InOrderStep, HeldFirstStep, StoredFirstStep, NotAheadStep DEF Order

-----------------------------------------------------------------------------
(* The mutex *)

LEMMA MutexStep == TypeOK /\ MutexInv /\ [Next]_vars => MutexInv'
<1> SUFFICES ASSUME TypeOK, MutexInv, [Next]_vars PROVE MutexInv'
  OBVIOUS
<1> USE DEF MutexInv, Inside, Goto, TypeOK, CallerTypeOK
<1>1. ASSUME NEW c \in Callers, TakeMutex(c) PROVE MutexInv'
  BY <1>1, BoundFacts DEF TakeMutex
<1>2. ASSUME NEW c \in Callers, GiveMutex(c) PROVE MutexInv'
  BY <1>2 DEF GiveMutex
<1>3. ASSUME NEW c \in Callers, NEW k \in Commands, Call(c, k) PROVE MutexInv'
  BY <1>3 DEF Call
<1>4. ASSUME NEW c \in Callers, SendSreq(c), ~TakeMutex(c), ~GiveMutex(c)
      PROVE  MutexInv'
  BY <1>4 DEF SendSreq, MutexTimeout, ExpectType, ExpectId, DrainToken, WriteUart,
              TakeSrsp, SrspTimeout, CopyFrame
<1>5. ASSUME DrainReset \/ ResetCoprocessor PROVE MutexInv'
  BY <1>5 DEF DrainReset, ResetCoprocessor, PulseReset, ResetHeard, ResetTimeout
<1>6. ASSUME ReceiveAreq \/ Rx \/ Dispatch \/ Chip \/ Quiet \/ UNCHANGED vars
      PROVE  MutexInv'
  <2>1. UNCHANGED <<pc, mutex>>
    BY <1>6 DEF ReceiveAreq, Rx, RxFrame, RxReject, Dispatch, TakeFrame, MatchType,
       MatchId, StoreSrsp, GiveSrsp, GiveReset, PostAreq, Chip, ChipAnswers, ChipReports,
       ChipBoots, ChipResets, Quiet, vars, callerVars
  <2>2. QED
    BY <2>1
<1>7. QED
  BY <1>1, <1>2, <1>3, <1>4, <1>5, <1>6 DEF Next


-----------------------------------------------------------------------------
(* Tokens and answers *)

\* Most steps move no token and no answer either.
Busy == {"write", "wait", "copy"}
Calm ==
    /\ UNCHANGED <<sent, late, seq, lag, base, got, srspFrame, srspSem>>
    /\ dpc' = "give" <=> dpc = "give"
    /\ \A c \in Callers :
        /\ pc[c] \in Busy \/ pc'[c] \in Busy => pc'[c] = pc[c]
        /\ pc'[c] \in Sending => pc[c] \in Sending

\* The steps that do.
Exchange(c) ==
    \/ DrainToken(c) \/ WriteUart(c) \/ TakeSrsp(c) \/ SrspTimeout(c)
    \/ CopyFrame(c) \/ \E k \in Commands : Call(c, k)

LEMMA CalmOrNot ==
    ASSUME TypeOK, [Next]_vars
    PROVE  Calm \/ StoreSrsp \/ GiveSrsp \/ \E c \in Callers : Exchange(c)
<1> SUFFICES ASSUME ~StoreSrsp, ~GiveSrsp, \A c \in Callers : ~Exchange(c)
             PROVE  Calm
  OBVIOUS
<1> USE DEF Calm, Busy, Sending, Goto, TypeOK, CallerTypeOK, callerVars, locals, pending,
            correlator, wire, dispatcher, others, counts, budgets
<1>1. ASSUME NEW c \in Callers, SendSreq(c) PROVE Calm
  BY <1>1 DEF SendSreq, Exchange, TakeMutex, MutexTimeout, ExpectType, ExpectId, GiveMutex
<1>2. ASSUME NEW c \in Callers, NEW k \in Commands, Call(c, k) PROVE Calm
  BY <1>2 DEF Exchange
<1>3. ASSUME DrainReset \/ ResetCoprocessor \/ ReceiveAreq PROVE Calm
  BY <1>3, BoundFacts DEF DrainReset, ResetCoprocessor, PulseReset, ResetHeard,
     ResetTimeout, ReceiveAreq
<1>4. ASSUME Rx \/ Chip PROVE Calm
  BY <1>4 DEF Rx, RxFrame, RxReject, Chip, ChipAnswers, ChipReports, ChipBoots, ChipResets
<1>5. ASSUME Dispatch PROVE Calm
  BY <1>5, QueueTypes, QueueFacts DEF Dispatch, TakeFrame, MatchType, MatchId, GiveReset,
     PostAreq, Frame
<1>6. ASSUME Quiet \/ UNCHANGED vars PROVE Calm
  BY <1>6 DEF Quiet, vars
<1>7. QED
  BY <1>1, <1>2, <1>3, <1>4, <1>5, <1>6 DEF Next

\* Nobody else is past the mutex.
LEMMA Alone ==
    ASSUME MutexInv, NEW c \in Callers, pc[c] \in Inside
    PROVE  \A d \in Callers : d # c => pc[d] \notin Inside
BY DEF MutexInv

LEMMA ExchangePc ==
    ASSUME TypeOK, MutexInv, NEW c \in Callers, Exchange(c)
    PROVE  /\ \A d \in Callers : d # c => pc'[d] = pc[d]
           /\ pc[c] \in Inside => \A d \in Callers : d # c => pc'[d] \notin Inside
           /\ pc[c] \in Inside \/ (pc[c] = "idle" /\ pc'[c] = "mutex")
<1>1. \A d \in Callers : d # c => pc'[d] = pc[d]
  BY DEF Exchange, DrainToken, WriteUart, TakeSrsp, SrspTimeout, CopyFrame, Call, Goto,
         TypeOK, CallerTypeOK
<1>2. pc[c] \in Inside \/ (pc[c] = "idle" /\ pc'[c] = "mutex")
  BY DEF Exchange, DrainToken, WriteUart, TakeSrsp, SrspTimeout, CopyFrame, Call, Goto,
         TypeOK, CallerTypeOK, Inside
<1>3. QED
  BY <1>1, <1>2, Alone

LEMMA FloorTypes == TypeOK => Floor \in Int /\ Floor <= sent
BY QueueTypes DEF Floor

\* Only taking a token raises the floor.
LEMMA FloorStep ==
    ASSUME TypeOK, MutexInv, [Next]_vars
    PROVE  \/ Floor' = Floor /\ \A c \in Callers : ~TakeSrsp(c)
           \/ /\ \E c \in Callers : TakeSrsp(c)
              /\ Floor' = Floor + 1 /\ Floor + 1 = sent - late
<1> USE QueueTypes DEF Floor
<1>1. ASSUME NEW c \in Callers, TakeSrsp(c)
      PROVE  Floor' = Floor + 1 /\ Floor + 1 = sent - late
  <2>1. Waiting
    BY <1>1 DEF TakeSrsp, Waiting
  <2>2. pc'[c] = "copy" /\ UNCHANGED <<sent, late>>
    BY <1>1 DEF TakeSrsp, Goto, TypeOK, CallerTypeOK, counts
  <2>3. ~Waiting'
    BY <1>1, <2>2, ExchangePc DEF TakeSrsp, Exchange, Waiting, Inside
  <2>4. QED
    BY <2>1, <2>2, <2>3
<1>2. ASSUME NEW c \in Callers, SrspTimeout(c) PROVE Floor' = Floor
  <2>1. Waiting
    BY <1>2 DEF SrspTimeout, Waiting
  <2>2. pc'[c] = "give" /\ sent' = sent /\ late' = late + 1
    BY <1>2 DEF SrspTimeout, Goto, TypeOK, CallerTypeOK
  <2>3. ~Waiting'
    BY <1>2, <2>2, ExchangePc DEF SrspTimeout, Exchange, Waiting, Inside
  <2>4. QED
    BY <2>1, <2>2, <2>3
<1>3. ASSUME NEW c \in Callers, WriteUart(c) PROVE Floor' = Floor
  <2>1. ~Waiting
    BY <1>3, Alone DEF WriteUart, Waiting, Inside
  <2>2. pc'[c] = "wait" /\ sent' = sent + 1 /\ late' = late
    BY <1>3 DEF WriteUart, Goto, TypeOK, CallerTypeOK
  <2>3. Waiting'
    BY <2>2 DEF Waiting
  <2>4. QED
    BY <2>1, <2>2, <2>3
<1>4. ASSUME NEW c \in Callers, DrainToken(c) \/ CopyFrame(c) \/ \E k \in Commands : Call(c, k)
      PROVE  Floor' = Floor
  <2>1. \A d \in Callers : pc'[d] = "wait" <=> pc[d] = "wait"
    BY <1>4 DEF DrainToken, CopyFrame, Call, Goto, TypeOK, CallerTypeOK
  <2>2. UNCHANGED <<sent, late>>
    BY <1>4 DEF DrainToken, CopyFrame, Call, counts
  <2>3. QED
    BY <2>1, <2>2 DEF Waiting
<1>5. ASSUME Calm \/ StoreSrsp \/ GiveSrsp PROVE Floor' = Floor
  <2>1. \A d \in Callers : pc'[d] = "wait" <=> pc[d] = "wait"
    BY <1>5 DEF Calm, Busy, StoreSrsp, GiveSrsp, callerVars
  <2>2. UNCHANGED <<sent, late>>
    BY <1>5 DEF Calm, StoreSrsp, GiveSrsp, counts
  <2>3. QED
    BY <2>1, <2>2 DEF Waiting
<1>6. QED
  BY <1>1, <1>2, <1>3, <1>4, <1>5, CalmOrNot DEF Exchange

LEMMA LagStep ==
    ASSUME TypeOK, MutexInv, Order, Lag, [Next]_vars
    PROVE  Lag'
<1> USE QueueTypes, FloorTypes
<1> srspFrame'.n \in Nat /\ Floor' \in Int
  <2>1. TypeOK'
    BY TypeStep
  <2>2. srspFrame' \in Frame /\ sent' \in Nat /\ late' \in Nat
    BY <2>1 DEF TypeOK, CorrelatorTypeOK, CountTypeOK
  <2>3. QED
    BY <2>2 DEF Frame, Floor
<1>1. ComeAfter(Floor)'
  <2>1. PICK m \in Int : m = Floor
    OBVIOUS
  <2>2. ComeAfter(m)'
    BY <2>1, ComeAfterStep DEF Lag
  <2>3. CASE Floor' = Floor
    BY <2>1, <2>2, <2>3 DEF ComeAfter, QueuesAfter, After
  <2>4. ASSUME NEW c \in Callers, TakeSrsp(c), Floor' = Floor + 1 PROVE ComeAfter(Floor)'
    <3>1. PICK k \in Int : k = Floor + 1
      OBVIOUS
    <3>2. k <= srspFrame.n
      BY <2>4, <3>1 DEF TakeSrsp, Lag, TokenLag
    <3>3. ComeAfter(srspFrame.n)
      BY DEF Order
    <3>4. ComeAfter(k)
      BY <3>2, <3>3, DomainFacts DEF ComeAfter, QueuesAfter, After
    <3>5. k <= sent
      BY <3>2 DEF Order, NotAhead
    <3>6. ComeAfter(k)'
      BY <3>4, <3>5, ComeAfterStep
    <3>7. QED
      BY <2>4, <3>1, <3>6 DEF ComeAfter, QueuesAfter, After
  <2>5. QED
    BY <2>3, <2>4, FloorStep
<1>2. TokenLag'
  <2>1. ASSUME NEW c \in Callers, TakeSrsp(c), Floor' = Floor + 1 PROVE TokenLag'
    BY <2>1 DEF TakeSrsp, Lag, TokenLag, others, dispatcher
  <2>2. ASSUME Floor' = Floor, StoreSrsp PROVE TokenLag'
    <3>1. Floor < frame.n /\ srspFrame.n < frame.n
      BY <2>2 DEF StoreSrsp, Lag, Order, ComeAfter, Holding
    <3>2. srspFrame' = frame /\ srspSem' = srspSem
      BY <2>2 DEF StoreSrsp
    <3>3. srspSem => Floor + 1 < frame.n
      BY <3>1 DEF Lag, TokenLag
    <3>4. QED
      BY <2>2, <3>1, <3>2, <3>3 DEF TokenLag
  <2>3. ASSUME Floor' = Floor, GiveSrsp PROVE TokenLag'
    BY <2>3 DEF GiveSrsp, Lag, TokenLag
  <2>4. ASSUME Floor' = Floor, Calm PROVE TokenLag'
    BY <2>4 DEF Calm, Lag, TokenLag
  <2>5. ASSUME Floor' = Floor, NEW c \in Callers, Exchange(c), ~TakeSrsp(c) PROVE TokenLag'
    <3>1. UNCHANGED <<srspFrame, dpc>> /\ (srspSem' => srspSem)
      BY <2>5 DEF Exchange, DrainToken, WriteUart, SrspTimeout, CopyFrame, Call, correlator,
                  others, dispatcher
    <3>2. QED
      BY <2>5, <3>1 DEF Lag, TokenLag
  <2>6. QED
    BY <2>1, <2>2, <2>3, <2>4, <2>5, FloorStep, CalmOrNot
<1>3. Latest'
  <2> USE DEF Lag, Latest
  <2>1. ASSUME NEW c \in Callers, TakeSrsp(c) PROVE Latest'
    <3>1. UNCHANGED <<sent, late, seq, lag, srspFrame>> /\ pc'[c] = "copy"
      BY <2>1 DEF TakeSrsp, Goto, locals, counts, TypeOK, CallerTypeOK
    <3>2. sent - late <= srspFrame.n /\ seq[c] = sent /\ lag[c] = late
      <4>1. Waiting
        BY <2>1 DEF TakeSrsp, Waiting
      <4>2. Floor < srspFrame.n
        BY <2>1 DEF TakeSrsp, TokenLag
      <4>3. QED
        BY <2>1, <4>1, <4>2 DEF TakeSrsp, Floor
    <3>3. \A d \in Callers : d # c => pc'[d] \notin Inside
      BY <2>1, ExchangePc DEF TakeSrsp, Exchange, Inside
    <3>4. QED
      BY <3>1, <3>2, <3>3 DEF Inside
  <2>2. ASSUME NEW c \in Callers, WriteUart(c) PROVE Latest'
    <3>1. pc'[c] = "wait" /\ seq'[c] = sent' /\ lag'[c] = late'
      BY <2>2 DEF WriteUart, Goto, TypeOK, CallerTypeOK
    <3>2. \A d \in Callers : d # c => pc'[d] \notin Inside
      BY <2>2, ExchangePc DEF WriteUart, Exchange, Inside
    <3>3. QED
      BY <3>1, <3>2 DEF Inside
  <2>3. ASSUME NEW c \in Callers, DrainToken(c) \/ SrspTimeout(c) \/ CopyFrame(c)
        PROVE  Latest'
    <3>1. pc'[c] \notin {"wait", "copy"}
      BY <2>3 DEF DrainToken, SrspTimeout, CopyFrame, Goto, TypeOK, CallerTypeOK
    <3>2. \A d \in Callers : d # c => pc'[d] \notin Inside
      BY <2>3, ExchangePc DEF DrainToken, SrspTimeout, CopyFrame, Exchange, Inside
    <3>3. QED
      BY <3>1, <3>2 DEF Inside
  <2>4. ASSUME NEW c \in Callers, NEW k \in Commands, Call(c, k) PROVE Latest'
    <3>1. UNCHANGED <<sent, late, seq, lag, srspFrame>>
      BY <2>4 DEF Call, counts, correlator
    <3>2. \A d \in Callers : pc'[d] \in {"wait", "copy"} => pc'[d] = pc[d]
      BY <2>4 DEF Call, Goto, TypeOK, CallerTypeOK
    <3>3. QED
      BY <3>1, <3>2
  <2>5. CASE StoreSrsp
    <3>1. UNCHANGED <<sent, late, seq, lag, pc>>
      BY <2>5 DEF StoreSrsp, counts, callerVars, locals
    <3>2. srspFrame.n <= srspFrame'.n
      BY StoredFirstStep
    <3>3. QED
      BY <3>1, <3>2
  <2>6. CASE GiveSrsp
    BY <2>6 DEF GiveSrsp, counts, callerVars, locals
  <2>7. CASE Calm
    BY <2>7 DEF Calm, Busy
  <2>8. QED
    BY <2>1, <2>2, <2>3, <2>4, <2>5, <2>6, <2>7, CalmOrNot DEF Exchange
<1>4. QED
  BY <1>1, <1>2, <1>3 DEF Lag

LEMMA FreshStep ==
    ASSUME TypeOK, MutexInv, Order, Fresh, [Next]_vars
    PROVE  Fresh'
<1> USE QueueTypes DEF Fresh
<1>0. base \in [Callers -> Int]
  BY DEF TypeOK, CallerTypeOK
<1>1. ASSUME NEW c \in Callers, DrainToken(c) PROVE Fresh'
  <2>1. /\ pc'[c] = "write" /\ base'[c] = LastGiven
        /\ ~srspSem' /\ UNCHANGED <<dpc, srspFrame>>
    BY <1>1 DEF DrainToken, Goto, TypeOK, CallerTypeOK, others, dispatcher
  <2>2. \A d \in Callers : d # c => pc'[d] \notin Inside
    BY <1>1, ExchangePc DEF DrainToken, Exchange, Inside
  <2>3. LastGiven <= srspFrame.n /\ (dpc = "give" => LastGiven < srspFrame.n)
    BY DEF LastGiven
  <2>4. QED
    BY <2>1, <2>2, <2>3 DEF Inside
<1>2. ASSUME NEW c \in Callers, WriteUart(c) \/ TakeSrsp(c) PROVE Fresh'
  <2>1. /\ pc[c] \in {"write", "wait"} /\ pc[c] \in Inside
        /\ UNCHANGED <<base, dpc, srspFrame>>
        /\ srspSem' => srspSem
        /\ pc'[c] = "copy" => srspSem /\ ~srspSem'
    BY <1>2 DEF WriteUart, TakeSrsp, Goto, TypeOK, CallerTypeOK, others, dispatcher, locals,
                correlator, Inside
  <2>2. \A d \in Callers : d # c => pc'[d] \notin Inside
    BY <1>2, <2>1, ExchangePc DEF Exchange
  <2>3. QED
    BY <2>1, <2>2, <1>0 DEF Inside
<1>3. ASSUME NEW c \in Callers,
             SrspTimeout(c) \/ CopyFrame(c) \/ \E k \in Commands : Call(c, k)
      PROVE  Fresh'
  <2>1. UNCHANGED <<base, dpc, srspFrame, srspSem>>
    BY <1>3 DEF SrspTimeout, CopyFrame, Call, locals, others, dispatcher, correlator
  <2>2. \A d \in Callers : pc'[d] \in {"write", "wait", "copy"} => pc'[d] = pc[d]
    BY <1>3 DEF SrspTimeout, CopyFrame, Call, Goto, TypeOK, CallerTypeOK
  <2>3. QED
    BY <2>1, <2>2
<1>4. CASE StoreSrsp
  <2>1. UNCHANGED <<pc, base>> /\ srspFrame' = frame /\ srspFrame.n < frame.n
    BY <1>4 DEF StoreSrsp, callerVars, locals, Order, ComeAfter, Holding
  <2>2. QED
    BY <2>1, <1>0
<1>5. CASE GiveSrsp
  BY <1>5 DEF GiveSrsp, callerVars, locals
<1>6. CASE Calm
  BY <1>6 DEF Calm, Busy
<1>7. QED
  BY <1>1, <1>2, <1>3, <1>4, <1>5, <1>6, CalmOrNot DEF Exchange

\* Answers are copied from the last SRSP, and perhaps the one that replaces it.
LEMMA CopiedFrames ==
    ASSUME TypeOK, Order, Latest, Fresh, NEW c \in Callers, CopyFrame(c)
    PROVE  /\ \A f \in got'[c] : f.n \in (seq[c] - lag[c]) .. seq[c] /\ f.n > base[c]
           /\ \A d \in Callers : d # c => got'[d] = got[d]
           /\ pc'[c] = "give" /\ \A d \in Callers : d # c => pc'[d] = pc[d]
           /\ UNCHANGED <<seq, lag, base>>
<1> USE QueueTypes
<1>1. /\ seq[c] = sent /\ lag[c] = late /\ sent - late <= srspFrame.n
      /\ base[c] < srspFrame.n /\ base[c] \in Int
  BY DEF CopyFrame, Latest, Fresh, TypeOK, CallerTypeOK
<1>2. srspFrame.n <= sent /\ (Holding => srspFrame.n < frame.n /\ frame.n <= sent)
  BY DEF Order, NotAhead, HeldFirst, ComeAfter
<1>3. got'[c] = {srspFrame} \/ (Holding /\ got'[c] = {srspFrame, frame})
  BY DEF CopyFrame, Holding, TypeOK, CallerTypeOK
<1>4. \A f \in got'[c] : f.n \in (seq[c] - lag[c]) .. seq[c] /\ f.n > base[c]
  BY <1>1, <1>2, <1>3
<1>5. QED
  BY <1>4 DEF CopyFrame, Goto, TypeOK, CallerTypeOK

LEMMA AnswersStep ==
    ASSUME TypeOK, Order, Latest, Fresh, NothingYet, AnswerLag, AnswerFresh, [Next]_vars
    PROVE  NothingYet' /\ AnswerLag' /\ AnswerFresh'
<1> USE DEF NothingYet, AnswerLag, AnswerFresh
<1>1. ASSUME NEW c \in Callers, CopyFrame(c)
      PROVE  NothingYet' /\ AnswerLag' /\ AnswerFresh'
  BY <1>1, CopiedFrames DEF Sending
<1>2. ASSUME NEW c \in Callers, NEW k \in Commands, Call(c, k)
      PROVE  NothingYet' /\ AnswerLag' /\ AnswerFresh'
  <2>1. got'[c] = {} /\ UNCHANGED <<seq, lag, base>>
    BY <1>2 DEF Call, TypeOK, CallerTypeOK
  <2>2. \A d \in Callers : d # c => got'[d] = got[d] /\ pc'[d] = pc[d]
    BY <1>2 DEF Call, Goto, TypeOK, CallerTypeOK
  <2>3. QED
    BY <2>1, <2>2
<1>3. ASSUME NEW c \in Callers,
             DrainToken(c) \/ WriteUart(c) \/ TakeSrsp(c) \/ SrspTimeout(c)
      PROVE  NothingYet' /\ AnswerLag' /\ AnswerFresh'
  <2>1. got' = got /\ got[c] = {}
    BY <1>3 DEF DrainToken, WriteUart, TakeSrsp, SrspTimeout, locals, Sending
  <2>2. \A d \in Callers : d # c => /\ seq'[d] = seq[d] /\ lag'[d] = lag[d]
                                    /\ base'[d] = base[d] /\ pc'[d] = pc[d]
    BY <1>3 DEF DrainToken, WriteUart, TakeSrsp, SrspTimeout, locals, Goto, TypeOK, CallerTypeOK
  <2>3. QED
    BY <2>1, <2>2
<1>4. CASE StoreSrsp \/ GiveSrsp
  BY <1>4 DEF StoreSrsp, GiveSrsp, callerVars, locals
<1>5. CASE Calm
  BY <1>5 DEF Calm
<1>6. QED
  BY <1>1, <1>2, <1>3, <1>4, <1>5, CalmOrNot DEF Exchange

-----------------------------------------------------------------------------
(* The theorems *)

LEMMA InitIInv == Init => IInv
<1> SUFFICES ASSUME Init PROVE IInv
  OBVIOUS
<1>1. TypeOK
  BY InitTypeOK
<1>2. /\ pc = [c \in Callers |-> "idle"] /\ got = [c \in Callers |-> {}]
      /\ srspSem = FALSE /\ dpc = "receive" /\ sent = 0 /\ late = 0
      /\ rawQueue = <<>> /\ uart = <<>> /\ toChip = <<>> /\ srspFrame.n = 0
  BY DEF Init, NoFrame, Srsp
<1>3. MutexInv /\ NothingYet /\ AnswerLag /\ AnswerFresh
  BY <1>2 DEF MutexInv, Inside, NothingYet, AnswerLag, AnswerFresh
<1>4. \A m \in Int : ComeAfter(m)
  BY <1>2, EmptyFacts DEF ComeAfter, QueuesAfter, After, Holding
<1>5. Order
  <2>1. InOrder
    BY <1>2, EmptyFacts DEF InOrder, Sorted, Before
  <2>2. NotAhead
    BY <1>2, EmptyFacts DEF NotAhead, UpTo
  <2>3. HeldFirst
    BY <1>2 DEF HeldFirst, Holding
  <2>4. QED
    BY <1>2, <1>4, <2>1, <2>2, <2>3 DEF Order
<1>6. Lag
  BY <1>1, <1>2, <1>4, FloorTypes DEF Lag, TokenLag, Latest
<1>7. Fresh
  BY <1>2 DEF Fresh
<1>8. QED
  BY <1>1, <1>3, <1>5, <1>6, <1>7 DEF IInv

LEMMA InvStep == IInv /\ [Next]_vars => IInv'
<1> SUFFICES ASSUME IInv, [Next]_vars PROVE IInv'
  OBVIOUS
<1> USE DEF IInv
<1>1. TypeOK' /\ MutexInv' /\ Order' /\ Lag' /\ Fresh'
  BY TypeStep, MutexStep, OrderStep, LagStep, FreshStep
<1>2. NothingYet' /\ AnswerLag' /\ AnswerFresh'
  BY AnswersStep DEF Lag
<1>3. QED
  BY <1>1, <1>2

LEMMA Invariant == Spec => []IInv
<1>1. Init => IInv
  BY InitIInv
<1>2. IInv /\ [Next]_vars => IInv'
  BY InvStep
<1>3. QED
  BY <1>1, <1>2, PTL DEF Spec

\* With any number of tasks and queues of any depth: callers, correlator and
\* dispatch task stay in their states, and neither queue outgrows its depth.
THEOREM TransportTypes == Spec => []TypeOK
<1>1. IInv => TypeOK
  BY DEF IInv
<1>2. QED
  BY <1>1, Invariant, PTL

\* znp_transport_send_sreq_timeout() never hands a caller an SRSP that is more
\* SREQs older than its own than had timed out before; without a timeout it
\* is its own. Lost bytes, full queues and resets do not change that.
THEOREM AnswersLagByTimeouts == Spec => []AnswerLag
<1>1. IInv => AnswerLag
  BY DEF IInv
<1>2. QED
  BY <1>1, Invariant, PTL

\* No call returns an SRSP the dispatch task had already given when the call
\* cleared the semaphore, in whatever order the two tasks run.
THEOREM AnswersAreFresh == Spec => []AnswerFresh
<1>1. IInv => AnswerFresh
  BY DEF IInv
<1>2. QED
  BY <1>1, Invariant, PTL

\* The steps between taking s_sreq_mutex and giving it back are never taken by
\* two tasks at once, also when an SREQ times out.
THEOREM OneSreqAtATime ==
    Spec => [](\A c, d \in Callers : pc[c] \in Inside /\ pc[d] \in Inside => c = d)
<1>1. IInv => \A c, d \in Callers : pc[c] \in Inside /\ pc[d] \in Inside => c = d
  BY DEF IInv, MutexInv
<1>2. QED
  BY <1>1, Invariant, PTL

-----------------------------------------------------------------------------
(* The numbers of the AREQs in a queue *)

\* Induction with a set for the property: n + 1 steps of x |-> x + 1 would
\* otherwise fit n + 1 numbers into n.
LEMMA NatSetInduction ==
    ASSUME NEW T, 0 \in T, \A n \in Nat : n \in T => n + 1 \in T
    PROVE  Nat \subseteq T
<1> SUFFICES ASSUME NEW n \in Nat, n \notin T PROVE FALSE
  OBVIOUS
<1> DEFINE A == {x \in 0 .. n : x \in T}
           next == [x \in A |-> x + 1]
<1>1. IsFiniteSet(A) /\ Cardinality(A) \in Nat
  <2>1. IsFiniteSet(0 .. n) /\ A \in SUBSET (0 .. n)
    BY FS_Interval
  <2> HIDE DEF A
  <2> QED  BY <2>1, FS_Subset, FS_CardinalityType
<1>2. 0 \in A
  OBVIOUS
<1>3. /\ IsFiniteSet(A \ {0}) /\ Cardinality(A \ {0}) < Cardinality(A)
  <2> HIDE DEF A
  <2>1. IsFiniteSet(A \ {0}) /\ Cardinality(A \ {0}) = Cardinality(A) - 1
    BY <1>1, <1>2, FS_RemoveElement
  <2> QED  BY <1>1, <2>1
<1>4. next \in [A -> A \ {0}]
  <2>1. ASSUME NEW x \in A PROVE x + 1 \in A \ {0}
    <3>1. x \in 0 .. n /\ x \in T /\ x # n
      OBVIOUS
    <3>2. x + 1 \in 0 .. n /\ x + 1 # 0
      BY <3>1
    <3> QED  BY <3>1, <3>2
  <2> QED  BY <2>1
<1>5. PICK x \in A, y \in A : x # y /\ next[x] = next[y]
  <2> HIDE DEF A, next
  <2> QED  BY <1>1, <1>3, <1>4, FS_PigeonHole
<1> QED  BY <1>5

LEMMA NumberType ==
    ASSUME NEW f \in Frame
    PROVE  Number(f) \in Seq(Nat)
  BY DEF Number, Frame

\* g[i] collects the numbers in the first i frames of q; Numbers(q) is the
\* last of these.
Runs(q, g, n) ==
    /\ g[0] = <<>>
    /\ \A i \in 1 .. n : g[i] = g[i - 1] \o Number(q[i])

LEMMA RunExists ==
    ASSUME NEW q \in Seq(Frame)
    PROVE  \E g \in [0 .. Len(q) -> Seq(Nat)] : Runs(q, g, Len(q))
<1> DEFINE T == {n \in Nat : n <= Len(q) => \E g \in [0 .. n -> Seq(Nat)] : Runs(q, g, n)}
<1>0. Len(q) \in Nat
  OBVIOUS
<1>1. 0 \in T
  <2>1. [i \in 0 .. 0 |-> <<>>] \in [0 .. 0 -> Seq(Nat)]
    OBVIOUS
  <2>2. Runs(q, [i \in 0 .. 0 |-> <<>>], 0)
    BY DEF Runs
  <2> QED  BY <2>1, <2>2
<1>2. ASSUME NEW n \in Nat, n \in T PROVE n + 1 \in T
  <2> SUFFICES ASSUME n + 1 <= Len(q)
               PROVE  \E g \in [0 .. n + 1 -> Seq(Nat)] : Runs(q, g, n + 1)
    OBVIOUS
  <2>1. PICK g \in [0 .. n -> Seq(Nat)] : Runs(q, g, n)
    BY <1>0, <1>2
  <2> DEFINE e == g[n] \o Number(q[n + 1])
             h == [i \in 0 .. n + 1 |-> IF i = n + 1 THEN e ELSE g[i]]
  <2>2. g[n] \in Seq(Nat) /\ q[n + 1] \in Frame
    BY <1>0
  <2>3. e \in Seq(Nat)
    <3>1. Number(q[n + 1]) \in Seq(Nat)
      BY <2>2, NumberType
    <3> QED  BY <2>2, <3>1, ConcatProperties
  <2> HIDE DEF e
  <2>4. h \in [0 .. n + 1 -> Seq(Nat)]
    BY <2>3
  <2>5. h[n + 1] = e /\ h[n] = g[n] /\ \A i \in 0 .. n : h[i] = g[i]
    OBVIOUS
  <2> HIDE DEF h
  <2>6. h[0] = <<>>
    BY <2>1, <2>5 DEF Runs
  <2>7. ASSUME NEW i \in 1 .. n + 1
        PROVE  h[i] = h[i - 1] \o Number(q[i])
    <3>1. CASE i = n + 1
      <4>1. i - 1 = n
        BY <3>1
      <4>2. h[n + 1] = g[n] \o Number(q[n + 1])
        BY <2>5 DEF e
      <4>3. h[n + 1] = h[n] \o Number(q[n + 1])
        BY <2>5, <4>2
      <4>4. h[i] = h[n + 1] /\ Number(q[i]) = Number(q[n + 1])
        BY <3>1
      <4>5. h[i - 1] = h[n]
        BY <4>1
      <4> QED  BY <4>3, <4>4, <4>5, Zenon
    <3>2. CASE i \in 1 .. n
      <4>1. i \in 0 .. n /\ i - 1 \in 0 .. n
        BY <3>2
      <4> QED  BY <2>1, <2>5, <3>2, <4>1 DEF Runs
    <3>3. i = n + 1 \/ i \in 1 .. n
      OBVIOUS
    <3> QED  BY <3>1, <3>2, <3>3, Zenon
  <2>8. Runs(q, h, n + 1)
    BY <2>6, <2>7 DEF Runs
  <2> QED  BY <2>4, <2>8
<1>3. Nat \subseteq T
  <2> HIDE DEF T
  <2> QED  BY <1>1, <1>2, NatSetInduction
<1>4. Len(q) \in T
  BY <1>0, <1>3
<1> QED  BY <1>0, <1>4

LEMMA RunUnique ==
    ASSUME NEW q, NEW g, NEW h, NEW n \in Nat, Runs(q, g, n), Runs(q, h, n)
    PROVE  \A i \in 0 .. n : g[i] = h[i]
<1> DEFINE T == {i \in Nat : i <= n => g[i] = h[i]}
<1>1. 0 \in T
  BY DEF Runs
<1>2. ASSUME NEW i \in Nat, i \in T PROVE i + 1 \in T
  <2> SUFFICES ASSUME i + 1 <= n PROVE g[i + 1] = h[i + 1]
    OBVIOUS
  <2>1. i + 1 \in 1 .. n /\ (i + 1) - 1 = i /\ g[i] = h[i]
    BY <1>2
  <2>2. /\ g[i + 1] = g[(i + 1) - 1] \o Number(q[i + 1])
        /\ h[i + 1] = h[(i + 1) - 1] \o Number(q[i + 1])
    BY <2>1 DEF Runs
  <2> QED  BY <2>1, <2>2
<1>3. Nat \subseteq T
  <2> HIDE DEF T
  <2> QED  BY <1>1, <1>2, NatSetInduction
<1> QED  BY <1>3

LEMMA NumbersAre ==
    ASSUME NEW q \in Seq(Frame), NEW g, Runs(q, g, Len(q))
    PROVE  Numbers(q) = g[Len(q)]
<1> DEFINE R(u) == [i \in 0 .. Len(q) |-> IF i = 0 THEN <<>>
                        ELSE u[i - 1] \o Number(q[i])]
<1>0. Len(q) \in Nat
  OBVIOUS
<1>1. \E u : u = R(u)
  <2>1. PICK u \in [0 .. Len(q) -> Seq(Nat)] : Runs(q, u, Len(q))
    BY RunExists
  <2>2. \A i \in 0 .. Len(q) : u[i] = R(u)[i]
    <3> TAKE i \in 0 .. Len(q)
    <3>1. CASE i = 0
      BY <2>1, <3>1 DEF Runs
    <3>2. CASE i # 0
      <4>1. i \in 1 .. Len(q)
        BY <1>0, <3>2
      <4> QED  BY <2>1, <3>2, <4>1 DEF Runs
    <3> QED  BY <3>1, <3>2
  <2>3. u = [i \in 0 .. Len(q) |-> u[i]]
    OBVIOUS
  <2>4. u = R(u)
    BY <2>2, <2>3
  <2> QED  BY <2>4
<1>2. PICK u : u = R(u) /\ Numbers(q) = u[Len(q)]
  <2>1. (CHOOSE u : u = R(u)) = R(CHOOSE u : u = R(u))
    BY <1>1, Zenon
  <2>2. Numbers(q) = (CHOOSE u : u = R(u))[Len(q)]
    BY DEF Numbers
  <2> HIDE DEF R
  <2> QED  BY <2>1, <2>2
<1>3. Runs(q, u, Len(q))
  <2>1. \A i \in 0 .. Len(q) : u[i] = IF i = 0 THEN <<>>
                        ELSE u[i - 1] \o Number(q[i])
    BY <1>2, Zenon
  <2>2. 0 \in 0 .. Len(q) /\ \A i \in 1 .. Len(q) : i \in 0 .. Len(q) /\ i # 0
    BY <1>0
  <2> QED  BY <2>1, <2>2, Zenon DEF Runs
<1>4. g[Len(q)] = u[Len(q)]
  <2>1. Len(q) \in 0 .. Len(q)
    BY <1>0
  <2> QED  BY <1>0, <1>3, <2>1, RunUnique
<1> QED  BY <1>2, <1>4

LEMMA NumbersEmpty == Numbers(<<>>) = <<>>
<1>1. <<>> \in Seq(Frame) /\ Len(<<>>) = 0
  OBVIOUS
<1>2. PICK g \in [0 .. Len(<<>>) -> Seq(Nat)] : Runs(<<>>, g, Len(<<>>))
  BY <1>1, RunExists
<1>3. Numbers(<<>>) = g[0]
  BY <1>1, <1>2, NumbersAre
<1> QED  BY <1>2, <1>3 DEF Runs

LEMMA NumbersType ==
    ASSUME NEW q \in Seq(Frame)
    PROVE  Numbers(q) \in Seq(Nat)
<1>1. PICK g \in [0 .. Len(q) -> Seq(Nat)] : Runs(q, g, Len(q))
  BY RunExists
<1>2. Numbers(q) = g[Len(q)] /\ Len(q) \in 0 .. Len(q)
  BY <1>1, NumbersAre
<1> QED  BY <1>1, <1>2

\* What putting a frame at the end, and taking one from the front, does to the
\* numbers in a queue.
LEMMA NumbersAppend ==
    ASSUME NEW q \in Seq(Frame), NEW f \in Frame
    PROVE  Numbers(Append(q, f)) = Numbers(q) \o Number(f)
<1> DEFINE r == Append(q, f)
           m == Len(q)
<1>0. m \in Nat /\ r \in Seq(Frame) /\ Len(r) = m + 1 /\ r[m + 1] = f
      /\ \A i \in 1 .. m : r[i] = q[i]
  BY AppendProperties
<1> HIDE DEF r, m
<1>1. PICK g \in [0 .. Len(r) -> Seq(Nat)] : Runs(r, g, Len(r))
  BY <1>0, RunExists
<1>2. Runs(r, g, m + 1) /\ Numbers(r) = g[m + 1] /\ g[m] \in Seq(Nat)
  <2>1. m \in 0 .. Len(r)
    BY <1>0
  <2> QED  BY <1>0, <1>1, <2>1, NumbersAre
<1>3. Runs(q, g, m)
  <2>1. ASSUME NEW i \in 1 .. m
        PROVE  g[i] = g[i - 1] \o Number(q[i])
    <3>1. i \in 1 .. m + 1 /\ r[i] = q[i]
      BY <1>0
    <3> QED  BY <1>2, <3>1 DEF Runs
  <2> QED  BY <1>2, <2>1 DEF Runs
<1>4. Numbers(q) = g[m]
  BY <1>3, NumbersAre DEF m
<1>5. g[m + 1] = g[m] \o Number(f)
  <2>1. m + 1 \in 1 .. m + 1 /\ (m + 1) - 1 = m
    BY <1>0
  <2>2. g[m + 1] = g[(m + 1) - 1] \o Number(r[m + 1])
    BY <1>2, <2>1 DEF Runs
  <2> QED  BY <1>0, <2>1, <2>2
<1>6. Numbers(r) = Numbers(q) \o Number(f)
  BY <1>2, <1>4, <1>5
<1> QED  BY <1>6 DEF r

\* Grouping and joining, in the form the steps below use them.
LEMMA Regroup ==
    \A a, b, c \in Seq(Nat) : (a \o b) \o c = a \o (b \o c)
  BY ConcatAssociative

LEMMA Joined ==
    ASSUME NEW a \in Seq(Nat), NEW b \in Seq(Nat)
    PROVE  /\ a \o b \in Seq(Nat) /\ Len(a \o b) = Len(a) + Len(b)
           /\ a \o <<>> = a /\ <<>> \o a = a
           /\ Len(a) \in Nat /\ Len(b) \in Nat
  BY ConcatProperties, ConcatEmptySeq, LenProperties

LEMMA NumbersHead ==
    ASSUME NEW q \in Seq(Frame), q # <<>>
    PROVE  Numbers(q) = Number(Head(q)) \o Numbers(Tail(q))
<1> DEFINE r == Tail(q)
           m == Len(r)
           a == Number(Head(q))
<1>0. /\ m \in Nat /\ r \in Seq(Frame) /\ Len(q) = m + 1 /\ Head(q) \in Frame /\ q[1] = Head(q)
      /\ \A i \in 1 .. m : r[i] = q[i + 1] /\ r[i] \in Frame
  <2>1. /\ r \in Seq(Frame) /\ Len(q) = Len(r) + 1 /\ Head(q) \in Frame /\ q[1] = Head(q)
        /\ \A i \in 1 .. Len(r) : r[i] = q[i + 1]
    BY HeadTailProperties, LenProperties, EmptySeq
  <2> QED  BY <2>1, ElementOfSeq, LenProperties
<1>1. a \in Seq(Nat)
  BY <1>0, NumberType
<1> HIDE DEF r, m, a
<1>2. PICK g \in [0 .. Len(q) -> Seq(Nat)] : Runs(q, g, Len(q))
  BY RunExists
<1>3. PICK h \in [0 .. m -> Seq(Nat)] : Runs(r, h, m)
  BY <1>0, RunExists DEF m
<1>4. Numbers(q) = g[m + 1] /\ Numbers(r) = h[m]
  BY <1>0, <1>2, <1>3, NumbersAre DEF m
<1> DEFINE T == {i \in Nat : i <= m => g[i + 1] = a \o h[i]}
<1>5. \A i \in 0 .. m : g[i + 1] = g[i] \o Number(q[i + 1])
  <2> TAKE i \in 0 .. m
  <2>1. i + 1 \in 1 .. Len(q) /\ (i + 1) - 1 = i
    BY <1>0
  <2>2. g[i + 1] = g[(i + 1) - 1] \o Number(q[i + 1])
    BY <1>2, <2>1 DEF Runs
  <2> QED  BY <2>1, <2>2
<1>6. 0 \in T
  <2>1. g[0] = <<>> /\ h[0] = <<>>
    BY <1>2, <1>3 DEF Runs
  <2>2. g[1] = g[0] \o Number(q[1])
    <3>1. 0 \in 0 .. m /\ 0 + 1 = 1
      BY <1>0
    <3>2. g[0 + 1] = g[0] \o Number(q[0 + 1])
      BY <1>5, <3>1
    <3> QED  BY <3>1, <3>2
  <2>3. g[1] = <<>> \o Number(Head(q))
    <3>1. <<>> \in Seq(Nat)
      OBVIOUS
    <3> QED  BY <1>0, <2>1, <2>2, <3>1
  <2>4. <<>> \o a = a /\ a \o <<>> = a
    BY <1>1, ConcatEmptySeq
  <2>5. g[0 + 1] = a \o h[0]
    BY <2>1, <2>3, <2>4 DEF a
  <2> QED  BY <2>5
<1>7. ASSUME NEW i \in Nat, i \in T PROVE i + 1 \in T
  <2> SUFFICES ASSUME i + 1 <= m PROVE g[(i + 1) + 1] = a \o h[i + 1]
    OBVIOUS
  <2>0. i + 1 \in 0 .. m /\ i + 1 \in 1 .. m /\ i \in 0 .. m /\ (i + 1) - 1 = i /\ i <= m
    BY <1>0
  <2>1. /\ i + 1 \in 0 .. m /\ i + 1 \in 1 .. m /\ i \in 0 .. m /\ (i + 1) - 1 = i
        /\ g[i + 1] = a \o h[i]
    BY <1>7, <2>0
  <2>2. r[i + 1] = q[(i + 1) + 1] /\ r[i + 1] \in Frame /\ h[i] \in Seq(Nat)
    BY <1>0, <1>3, <2>1
  <2>3. g[i + 1] \in Seq(Nat)
    BY <1>1, <2>1, <2>2, ConcatProperties
  <2> DEFINE b == Number(r[i + 1])
  <2>4. g[(i + 1) + 1] = g[i + 1] \o b
    BY <1>5, <2>1, <2>2, <2>3
  <2>5. h[i + 1] = h[i] \o b
    <3>1. h[i + 1] = h[(i + 1) - 1] \o Number(r[i + 1])
      BY <1>3, <2>1 DEF Runs
    <3> QED  BY <2>1, <2>2, <3>1
  <2>6. b \in Seq(Nat)
    BY <2>2, NumberType
  <2> HIDE DEF b
  <2>7. (a \o h[i]) \o b = a \o (h[i] \o b)
    BY <1>1, <2>2, <2>6, Regroup
  <2> QED  BY <2>1, <2>4, <2>5, <2>7
<1>8. Nat \subseteq T
  <2> HIDE DEF T
  <2> QED  BY <1>6, <1>7, NatSetInduction
<1>9. g[m + 1] = a \o h[m]
  BY <1>0, <1>8
<1> QED  BY <1>4, <1>9 DEF a, r

-----------------------------------------------------------------------------
(* The AREQs on their way are the content of a lossy channel *)

\* Without the one number in x, the channel has lost a message.
LEMMA LosesOne ==
    ASSUME NEW a \in Seq(Nat), NEW x \in Seq(Nat), NEW b \in Seq(Nat), Len(x) = 1
    PROVE  LET s == (a \o x) \o b
           IN  \E i \in DOMAIN s : SubSeq(s, 1, i - 1) \o SubSeq(s, i + 1, Len(s)) = a \o b
<1> DEFINE s == (a \o x) \o b
           m == Len(a)
           n == Len(b)
<1>0. /\ m \in Nat /\ n \in Nat
      /\ a \o x \in Seq(Nat) /\ Len(a \o x) = m + 1
      /\ s \in Seq(Nat) /\ Len(s) = m + 1 + n
      /\ x \o b \in Seq(Nat) /\ s = a \o (x \o b)
  <2>1. a \o x \in Seq(Nat) /\ Len(a \o x) = m + 1 /\ x \o b \in Seq(Nat)
        /\ m \in Nat /\ n \in Nat
    <3>1. a \o x \in Seq(Nat) /\ x \o b \in Seq(Nat) /\ m \in Nat /\ n \in Nat
      BY Joined, Zenon
    <3>2. Len(a \o x) = Len(a) + Len(x)
      BY Joined, Zenon
    <3> QED  BY <3>1, <3>2
  <2> DEFINE r == a \o x
  <2> HIDE DEF r
  <2>2. r \o b \in Seq(Nat) /\ Len(r \o b) = Len(r) + n
    BY <2>1, Joined DEF r
  <2>3. r \o b = a \o (x \o b)
    BY Regroup DEF r
  <2> QED  BY <2>1, <2>2, <2>3 DEF r
<1>1. m + 1 \in DOMAIN s
  <2>1. DOMAIN s = 1 .. Len(s)
    BY <1>0
  <2> HIDE DEF s, m, n
  <2> QED  BY <1>0, <2>1
<1>2. SubSeq(s, 1, m) = a
  <2>1. CASE m = 0
    <3>1. SubSeq(s, 1, m) = <<>>
      BY <2>1, SubSeqEmpty
    <3> QED  BY <2>1, <3>1, EmptySeq
  <2>2. CASE m # 0
    <3>1. 1 \in 1 .. Len(a) /\ Len(a) \in 1 .. Len(a)
      BY <1>0, <2>2
    <3>2. SubSeq(a \o (x \o b), 1, Len(a)) = SubSeq(a, 1, Len(a))
      BY <1>0, <3>1, SubSeqOfConcat1
    <3> QED  BY <1>0, <3>2, SubSeqFull
  <2> QED  BY <2>1, <2>2
<1>3. SubSeq(s, m + 2, Len(s)) = b
  <2> DEFINE r == a \o x
  <2>0. r \in Seq(Nat) /\ Len(r) = m + 1 /\ s = r \o b /\ Len(s) = m + 1 + n
    BY <1>0
  <2>1. CASE n = 0
    <3>1. m + 2 \in Int /\ Len(s) \in Int /\ Len(s) < m + 2
      <4> HIDE DEF s, r, m, n
      <4> QED  BY <1>0, <2>0, <2>1
    <3>2. SubSeq(s, m + 2, Len(s)) = <<>>
      <4> HIDE DEF s, m
      <4> QED  BY <3>1, SubSeqEmpty
    <3> QED  BY <2>1, <3>2, EmptySeq
  <2>2. CASE n # 0
    <3>1. /\ m + 2 \in Len(r) + 1 .. Len(r) + Len(b)
          /\ Len(s) \in Len(r) + 1 .. Len(r) + Len(b)
          /\ (m + 2) - Len(r) = 1 /\ Len(s) - Len(r) = n
      <4>1. Len(b) = n
        OBVIOUS
      <4> HIDE DEF s, r, m, n
      <4> QED  BY <1>0, <2>0, <2>2, <4>1
    <3>2. SubSeq(r \o b, m + 2, Len(s)) = SubSeq(b, (m + 2) - Len(r), Len(s) - Len(r))
      <4> DEFINE i == m + 2
                 j == Len(s)
      <4>1. i \in Len(r) + 1 .. Len(r) + Len(b) /\ j \in Len(r) + 1 .. Len(r) + Len(b)
        BY <3>1
      <4> HIDE DEF s, r, m, n, i, j
      <4>2. SubSeq(r \o b, i, j) = SubSeq(b, i - Len(r), j - Len(r))
        BY <2>0, <4>1, SubSeqOfConcat2
      <4> QED  BY <4>2 DEF i, j
    <3>3. SubSeq(b, 1, n) = b
      BY SubSeqFull
    <3> HIDE DEF s, r, m, n
    <3> QED  BY <2>0, <3>1, <3>2, <3>3
  <2> QED  BY <2>1, <2>2
<1>4. (m + 1) - 1 = m /\ (m + 1) + 1 = m + 2
  BY <1>0
<1> HIDE DEF s, m
<1>5. SubSeq(s, 1, (m + 1) - 1) \o SubSeq(s, (m + 1) + 1, Len(s)) = a \o b
  BY <1>2, <1>3, <1>4
<1>6. \E i \in DOMAIN s : SubSeq(s, 1, i - 1) \o SubSeq(s, i + 1, Len(s)) = a \o b
  BY <1>1, <1>5
<1> QED  BY <1>6 DEF s

LEMMA InFlightTypes ==
    TypeOK => /\ Numbers(areqQueue) \in Seq(Nat) /\ Held \in Seq(Nat)
              /\ Numbers(rawQueue) \in Seq(Nat) /\ Numbers(uart) \in Seq(Nat)
<1> SUFFICES ASSUME TypeOK PROVE /\ Numbers(areqQueue) \in Seq(Nat) /\ Held \in Seq(Nat)
                                 /\ Numbers(rawQueue) \in Seq(Nat) /\ Numbers(uart) \in Seq(Nat)
  OBVIOUS
<1>1. frame \in Frame /\ areqQueue \in Seq(Frame) /\ rawQueue \in Seq(Frame) /\ uart \in Seq(Frame)
  BY DEF TypeOK, CorrelatorTypeOK, QueueTypeOK
<1>2. Number(frame) \in Seq(Nat) /\ <<>> \in Seq(Nat)
  BY <1>1, NumberType
<1> QED  BY <1>1, <1>2, NumbersType DEF Held

\* A step that takes the frame x out of the middle loses it, if it was an AREQ.
LEMMA TakesOut ==
    ASSUME NEW a \in Seq(Nat), NEW f \in Frame, NEW b \in Seq(Nat),
           InFlight = (a \o Number(f)) \o b, InFlight' = a \o b, UNCHANGED told
    PROVE  Areqs!Lose \/ UNCHANGED <<InFlight, told>>
<1>1. CASE f.kind # "SRSP"
  <2>1. Number(f) \in Seq(Nat) /\ Len(Number(f)) = 1
    <3>1. Number(f) = <<f.n>>
      BY <1>1 DEF Number
    <3> QED  BY <3>1, NumberType
  <2>2. \E i \in DOMAIN InFlight :
            SubSeq(InFlight, 1, i - 1) \o SubSeq(InFlight, i + 1, Len(InFlight)) = a \o b
    BY <2>1, LosesOne
  <2>3. Areqs!Lose
    BY <2>2 DEF Areqs!Lose
  <2> QED  BY <2>3
<1>2. CASE f.kind = "SRSP"
  <2>1. Number(f) = <<>> /\ a \o <<>> = a
    BY <1>2, ConcatEmptySeq DEF Number
  <2> QED  BY <2>1
<1> QED  BY <1>1, <1>2

\* A step that takes it from the front receives it.
LEMMA TakesFirst ==
    ASSUME NEW f \in Frame, NEW b \in Seq(Nat),
           InFlight = Number(f) \o b, InFlight' = b, UNCHANGED told
    PROVE  Areqs!Receive \/ UNCHANGED <<InFlight, told>>
<1>1. CASE f.kind # "SRSP"
  <2>1. Number(f) = <<f.n>> /\ f.n \in Nat
    BY <1>1 DEF Number, Frame
  <2>2. <<f.n>> \o b # <<>> /\ Tail(<<f.n>> \o b) = b
    BY <2>1
  <2> QED  BY <2>1, <2>2 DEF Areqs!Receive
<1>2. CASE f.kind = "SRSP"
  <2>1. Number(f) = <<>> /\ <<>> \o b = b
    BY <1>2, ConcatEmptySeq DEF Number
  <2> QED  BY <2>1
<1> QED  BY <1>1, <1>2

\* The framework takes the oldest one.
LEMMA ReceiveFifo == TypeOK /\ ReceiveAreq => Areqs!Receive \/ UNCHANGED <<InFlight, told>>
<1> SUFFICES ASSUME TypeOK, ReceiveAreq
             PROVE  Areqs!Receive \/ UNCHANGED <<InFlight, told>>
  OBVIOUS
<1> DEFINE f == Head(areqQueue)
           n == Number(f)
           a == Numbers(Tail(areqQueue))
           h == Held
           r == Numbers(rawQueue)
           u == Numbers(uart)
           t == ((a \o h) \o r) \o u
<1>1. /\ areqQueue \in Seq(Frame) /\ areqQueue # <<>> /\ areqQueue' = Tail(areqQueue)
      /\ f \in Frame /\ Tail(areqQueue) \in Seq(Frame)
      /\ UNCHANGED <<rawQueue, uart, dpc, frame, told>>
  BY QueueFacts DEF ReceiveAreq, TypeOK, QueueTypeOK, dispatcher, wire, counts
<1>2. Numbers(areqQueue) = n \o a
  BY <1>1, NumbersHead
<1>3. a \in Seq(Nat) /\ h \in Seq(Nat) /\ r \in Seq(Nat) /\ u \in Seq(Nat) /\ n \in Seq(Nat)
  BY <1>1, NumbersType, NumberType, InFlightTypes
<1>4. InFlight = (((n \o a) \o h) \o r) \o u /\ InFlight' = t
  BY <1>1, <1>2 DEF InFlight, Held
<1>5. t \in Seq(Nat) /\ (((n \o a) \o h) \o r) \o u = n \o t
  <2> DEFINE b == (a \o h) \o r
  <2> HIDE DEF n, a, h, r, u
  <2>1. ((n \o a) \o h) \o r = n \o b /\ b \in Seq(Nat)
    <3>1. a \o h \in Seq(Nat)
      BY <1>3, Joined
    <3>2. b \in Seq(Nat)
      BY <1>3, <3>1, Joined
    <3>3. ((n \o a) \o h) \o r = n \o b
      <4>1. (n \o a) \o h = n \o (a \o h)
        BY <1>3, Regroup, Zenon
      <4>2. (n \o (a \o h)) \o r = n \o ((a \o h) \o r)
        BY <1>3, <3>1, Regroup, Zenon
      <4> QED  BY <4>1, <4>2, Zenon
    <3> QED  BY <3>2, <3>3, Zenon
  <2> HIDE DEF b
  <2>2. (n \o b) \o u = n \o (b \o u) /\ b \o u \in Seq(Nat)
    <3>1. (n \o b) \o u = n \o (b \o u)
      BY <1>3, <2>1, Regroup, Zenon
    <3>2. b \o u \in Seq(Nat)
      BY <1>3, <2>1, Joined, Zenon
    <3> QED  BY <3>1, <3>2, Zenon
  <2> QED  BY <2>1, <2>2 DEF b
<1> HIDE DEF t, a, h, r, u, f
<1> QED  BY <1>1, <1>4, <1>5, TakesFirst

\* The frame at the end of the line: into the raw queue, or lost.
LEMMA RxFifo == TypeOK /\ Rx => Areqs!Lose \/ UNCHANGED <<InFlight, told>>
<1> SUFFICES ASSUME TypeOK, Rx PROVE Areqs!Lose \/ UNCHANGED <<InFlight, told>>
  OBVIOUS
<1> DEFINE f == Head(uart)
           n == Number(f)
           a == Numbers(areqQueue)
           h == Held
           r == Numbers(rawQueue)
           u == Numbers(Tail(uart))
           p == (a \o h) \o r
<1>1. /\ uart \in Seq(Frame) /\ uart # <<>> /\ uart' = Tail(uart) /\ rawQueue \in Seq(Frame)
      /\ f \in Frame /\ Tail(uart) \in Seq(Frame)
      /\ UNCHANGED <<areqQueue, dpc, frame, told>>
      /\ rawQueue' = rawQueue \/ rawQueue' = Append(rawQueue, f)
  BY QueueFacts DEF Rx, RxFrame, RxReject, TypeOK, QueueTypeOK, dispatcher, wire, counts
<1>2. Numbers(uart) = n \o u
  BY <1>1, NumbersHead
<1>3. a \in Seq(Nat) /\ h \in Seq(Nat) /\ r \in Seq(Nat) /\ u \in Seq(Nat) /\ n \in Seq(Nat)
  BY <1>1, NumbersType, NumberType, InFlightTypes
<1>4. InFlight = p \o (n \o u)
  BY <1>2 DEF InFlight
<1>5. p \in Seq(Nat) /\ p \o (n \o u) = (p \o n) \o u /\ p \o n = (a \o h) \o (r \o n)
  <2> HIDE DEF n, a, h, r, u
  <2>1. a \o h \in Seq(Nat) /\ p \o n = (a \o h) \o (r \o n)
    <3>1. a \o h \in Seq(Nat)
      BY <1>3, Joined, Zenon
    <3>2. p \o n = (a \o h) \o (r \o n)
      <4>1. ((a \o h) \o r) \o n = (a \o h) \o (r \o n)
        BY <1>3, <3>1, Regroup, Zenon
      <4> QED  BY <4>1, Zenon
    <3> QED  BY <3>1, <3>2, Zenon
  <2>2. p \in Seq(Nat)
    BY <1>3, <2>1, Joined, Zenon
  <2> HIDE DEF p
  <2>3. (p \o n) \o u = p \o (n \o u)
    BY <1>3, <2>2, Regroup, Zenon
  <2> QED  BY <2>1, <2>2, <2>3, Zenon
<1>6. CASE rawQueue' = rawQueue
  <2>1. InFlight' = p \o u
    BY <1>1, <1>6 DEF InFlight, Held
  <2> HIDE DEF p, a, h, r, u, f
  <2> QED  BY <1>1, <1>3, <1>4, <1>5, <2>1, TakesOut
<1>7. CASE rawQueue' = Append(rawQueue, f)
  <2>1. Numbers(Append(rawQueue, f)) = r \o n
    BY <1>1, NumbersAppend
  <2>2. InFlight' = ((a \o h) \o (r \o n)) \o u
    BY <1>1, <1>7, <2>1 DEF InFlight, Held
  <2> HIDE DEF p, n, a, h, r, u, f
  <2> QED  BY <1>1, <1>4, <1>5, <2>2
<1> QED  BY <1>1, <1>6, <1>7

\* Between the queues the dispatch task holds the frame: it is still in flight.
LEMMA TakeFifo == TypeOK /\ TakeFrame => UNCHANGED <<InFlight, told>>
<1> SUFFICES ASSUME TypeOK, TakeFrame PROVE UNCHANGED <<InFlight, told>>
  OBVIOUS
<1> DEFINE f == Head(rawQueue)
           n == Number(f)
           a == Numbers(areqQueue)
           r == Numbers(Tail(rawQueue))
           u == Numbers(uart)
<1>1. /\ rawQueue \in Seq(Frame) /\ rawQueue # <<>> /\ rawQueue' = Tail(rawQueue)
      /\ f \in Frame /\ Tail(rawQueue) \in Seq(Frame)
      /\ UNCHANGED <<areqQueue, uart, told>> /\ frame' = f
      /\ dpc = "receive"
  BY QueueFacts DEF TakeFrame, TypeOK, QueueTypeOK, wire, counts
<1>2. Held = <<>>
  BY <1>1 DEF Held
<1>3. Held' = n
  <2>1. f.kind \in {"SRSP", "AREQ", "RESET"}
    BY <1>1 DEF Frame
  <2>2. dpc' = CASE f.kind = "SRSP" -> "type" [] f.kind = "AREQ" -> "post"
                 [] f.kind = "RESET" -> "reset"
    BY <1>1 DEF TakeFrame
  <2>3. dpc' \in {"post", "reset"} <=> f.kind # "SRSP"
    BY <2>1, <2>2
  <2>4. Held' = IF dpc' \in {"post", "reset"} THEN Number(frame') ELSE <<>>
    BY DEF Held
  <2>5. f.kind = "SRSP" => n = <<>>
    BY DEF Number
  <2> QED  BY <1>1, <2>3, <2>4, <2>5
<1>4. Numbers(rawQueue) = n \o r
  BY <1>1, NumbersHead
<1>5. a \in Seq(Nat) /\ r \in Seq(Nat) /\ u \in Seq(Nat) /\ n \in Seq(Nat)
  BY <1>1, NumbersType, NumberType, InFlightTypes
<1>6. /\ InFlight = ((a \o <<>>) \o (n \o r)) \o u
      /\ InFlight' = ((a \o n) \o r) \o u
  BY <1>1, <1>2, <1>3, <1>4 DEF InFlight
<1>7. a \o <<>> = a /\ a \o (n \o r) = (a \o n) \o r
  <2> HIDE DEF n, a, r, u
  <2>1. a \o <<>> = a
    BY <1>5, Joined, Zenon
  <2>2. (a \o n) \o r = a \o (n \o r)
    BY <1>5, Regroup, Zenon
  <2> QED  BY <2>1, <2>2, Zenon
<1> HIDE DEF n, a, r, u
<1> QED  BY <1>1, <1>6, <1>7

\* It posts it to the framework, or the queue is full and it is lost.
LEMMA PostFifo == TypeOK /\ PostAreq => Areqs!Lose \/ UNCHANGED <<InFlight, told>>
<1> SUFFICES ASSUME TypeOK, PostAreq PROVE Areqs!Lose \/ UNCHANGED <<InFlight, told>>
  OBVIOUS
<1> DEFINE n == Number(frame)
           a == Numbers(areqQueue)
           r == Numbers(rawQueue)
           u == Numbers(uart)
<1>1. /\ areqQueue \in Seq(Frame) /\ frame \in Frame
      /\ UNCHANGED <<rawQueue, uart, told>>
      /\ dpc = "post" /\ dpc' = "receive"
      /\ areqQueue' = areqQueue \/ areqQueue' = Append(areqQueue, frame)
  BY DEF PostAreq, TypeOK, CorrelatorTypeOK, QueueTypeOK, wire, counts
<1>2. Held = n /\ Held' = <<>>
  BY <1>1 DEF Held
<1>3. a \in Seq(Nat) /\ r \in Seq(Nat) /\ u \in Seq(Nat) /\ n \in Seq(Nat)
  BY <1>1, NumberType, InFlightTypes
<1>4. InFlight = ((a \o n) \o r) \o u
  BY <1>2 DEF InFlight
<1>5. /\ ((a \o n) \o r) \o u = (a \o n) \o (r \o u) /\ r \o u \in Seq(Nat)
      /\ ((a \o <<>>) \o r) \o u = a \o (r \o u)
      /\ (a \o n) \o <<>> = a \o n
  <2> HIDE DEF n, a, r, u
  <2> DEFINE b == a \o n
  <2>1. b \in Seq(Nat) /\ r \o u \in Seq(Nat) /\ a \o <<>> = a
    BY <1>3, Joined
  <2>2. (a \o r) \o u = a \o (r \o u)
    BY <1>3, Regroup
  <2> HIDE DEF b
  <2>3. (b \o r) \o u = b \o (r \o u) /\ b \o <<>> = b
    <3>1. (b \o r) \o u = b \o (r \o u)
      BY <1>3, <2>1, Regroup, Zenon
    <3>2. b \o <<>> = b
      BY <2>1, Joined, Zenon
    <3> QED  BY <3>1, <3>2, Zenon
  <2> QED  BY <2>1, <2>2, <2>3 DEF b
<1>6. CASE areqQueue' = areqQueue
  <2>1. InFlight' = ((a \o <<>>) \o r) \o u
    BY <1>1, <1>2, <1>6 DEF InFlight
  <2> HIDE DEF a, r, u
  <2> QED  BY <1>1, <1>3, <1>4, <1>5, <2>1, TakesOut
<1>7. CASE areqQueue' = Append(areqQueue, frame)
  <2>1. Numbers(Append(areqQueue, frame)) = a \o n
    BY <1>1, NumbersAppend
  <2>2. InFlight' = (((a \o n) \o <<>>) \o r) \o u
    BY <1>1, <1>2, <1>7, <2>1 DEF InFlight
  <2> HIDE DEF a, r, u, n
  <2> QED  BY <1>1, <1>4, <1>5, <2>2
<1> QED  BY <1>1, <1>6, <1>7

\* What the coprocessor owes are SRSPs.
OwesSrsps == \A i \in DOMAIN toChip : IsSrsp(toChip[i])

LEMMA OwesStep == TypeOK /\ OwesSrsps /\ [Next]_vars => OwesSrsps'
<1> SUFFICES ASSUME TypeOK, OwesSrsps, [Next]_vars PROVE OwesSrsps'
  OBVIOUS
<1>0. toChip \in Seq(Frame)
  BY DEF TypeOK, QueueTypeOK
<1>1. ASSUME NEW c \in Callers, WriteUart(c) PROVE OwesSrsps'
  <2>1. toChip' \in {toChip, Append(toChip, Srsp(cmd[c], sent'))}
    BY <1>1 DEF WriteUart
  <2>2. IsSrsp(Srsp(cmd[c], sent'))
    BY DEF IsSrsp, Srsp
  <2>3. ASSUME NEW f, IsSrsp(f)
        PROVE  \A i \in DOMAIN Append(toChip, f) : IsSrsp(Append(toChip, f)[i])
    BY <1>0, <2>3 DEF OwesSrsps
  <2> QED  BY <2>1, <2>2, <2>3 DEF OwesSrsps
<1>2. CASE PulseReset \/ ChipResets
  BY <1>2 DEF PulseReset, ChipResets, ChipDown, OwesSrsps
<1>3. CASE ChipAnswers
  BY <1>0, <1>3 DEF ChipAnswers, OwesSrsps
<1>4. CASE ReceiveAreq \/ Rx \/ TakeFrame \/ PostAreq \/ ChipReports \/ ChipBoots
  BY <1>4 DEF ReceiveAreq, Rx, RxFrame, RxReject, TakeFrame, PostAreq, ChipReports,
              ChipBoots, wire, OwesSrsps
<1>5. CASE UNCHANGED wire
  BY <1>5 DEF wire, OwesSrsps
<1> QED  BY <1>1, <1>2, <1>3, <1>4, <1>5, Untouched DEF Chip

\* The coprocessor sends the next AREQ.
LEMMA ChipFifo == TypeOK /\ OwesSrsps /\ Chip => Areqs!Send \/ UNCHANGED <<InFlight, told>>
<1> SUFFICES ASSUME TypeOK, OwesSrsps, Chip PROVE Areqs!Send \/ UNCHANGED <<InFlight, told>>
  OBVIOUS
<1> DEFINE p == (Numbers(areqQueue) \o Held) \o Numbers(rawQueue)
           u == Numbers(uart)
<1>0. /\ p \in Seq(Nat) /\ u \in Seq(Nat) /\ uart \in Seq(Frame) /\ told \in Nat
      /\ toChip \in Seq(Frame) /\ InFlight = p \o u
      /\ Numbers(uart) \in Seq(Nat)
  <2>1. /\ Numbers(areqQueue) \in Seq(Nat) /\ Held \in Seq(Nat)
        /\ Numbers(rawQueue) \in Seq(Nat) /\ Numbers(uart) \in Seq(Nat)
    BY InFlightTypes
  <2>2. p \in Seq(Nat)
    BY <2>1, ConcatProperties
  <2> QED  BY <2>1, <2>2 DEF InFlight, TypeOK, QueueTypeOK, CountTypeOK
<1>1. UNCHANGED <<areqQueue, dpc, frame, rawQueue>>
  BY DEF Chip, ChipAnswers, ChipReports, ChipBoots, ChipResets, dispatcher
<1>2. InFlight' = p \o Numbers(uart')
  BY <1>1 DEF InFlight, Held
<1>3. CASE ChipResets
  <2>1. UNCHANGED <<uart, told>>
    BY <1>3 DEF ChipResets, counts
  <2> QED  BY <1>0, <1>2, <2>1
<1>4. CASE ChipReports \/ ChipBoots
  <2>0. told' = told + 1 /\ told' \in Nat
    BY <1>0, <1>4 DEF ChipReports, ChipBoots
  <2>1. PICK f \in Frame : uart' = Append(uart, f) /\ Number(f) = <<told'>>
    <3>1. Report(told') \in Frame /\ ResetInd(told') \in Frame
      BY <2>0, FrameFacts
    <3>2. Number(Report(told')) = <<told'>> /\ Number(ResetInd(told')) = <<told'>>
      BY DEF Number, Report, ResetInd
    <3>3. uart' = Append(uart, Report(told')) \/ uart' = Append(uart, ResetInd(told'))
      BY <1>4 DEF ChipReports, ChipBoots
    <3> QED  BY <3>1, <3>2, <3>3
  <2>2. Numbers(uart') = u \o <<told'>>
    BY <1>0, <2>1, NumbersAppend
  <2> HIDE DEF p, u
  <2>4. p \o (u \o <<told'>>) = Append(p \o u, told')
    <3> DEFINE x == told'
    <3>1. x \in Nat /\ <<x>> \in Seq(Nat)
      BY <2>0
    <3> HIDE DEF x
    <3>2. p \o (u \o <<x>>) = (p \o u) \o <<x>>
      BY <1>0, <3>1, Regroup
    <3>3. (p \o u) \o <<x>> = Append(p \o u, x)
      BY <1>0, <3>1, ConcatProperties, AppendIsConcat
    <3> QED  BY <3>2, <3>3 DEF x
  <2>5. InFlight' = Append(InFlight, told')
    BY <1>0, <1>2, <2>2, <2>4
  <2> QED  BY <2>0, <2>5 DEF Areqs!Send
<1>5. CASE ChipAnswers
  <2>1. /\ toChip # <<>> /\ Head(toChip) = toChip[1] /\ 1 \in DOMAIN toChip
        /\ Head(toChip) \in Frame
        /\ uart' = Append(uart, Head(toChip)) /\ UNCHANGED told
    BY <1>0, <1>5 DEF ChipAnswers, counts
  <2>2. Number(Head(toChip)) = <<>>
    BY <2>1 DEF OwesSrsps, IsSrsp, Number
  <2>3. Numbers(uart') = u \o <<>>
    BY <1>0, <2>1, <2>2, NumbersAppend
  <2> HIDE DEF p, u
  <2> QED  BY <1>0, <1>2, <2>1, <2>3, ConcatEmptySeq
<1> QED  BY <1>3, <1>4, <1>5 DEF Chip

\* Every step of the transport is one of the channel, or none.
LEMMA NextFifo ==
    TypeOK /\ OwesSrsps /\ [Next]_vars => [Areqs!Next]_<<InFlight, told>>
<1> SUFFICES ASSUME TypeOK, OwesSrsps, [Next]_vars
             PROVE  Areqs!Next \/ UNCHANGED <<InFlight, told>>
  OBVIOUS
<1>1. CASE UNCHANGED <<areqQueue, Held, rawQueue, uart, told>>
  BY <1>1 DEF InFlight
<1>2. CASE ReceiveAreq \/ Rx \/ TakeFrame \/ PostAreq \/ Chip
  BY <1>2, ReceiveFifo, RxFifo, TakeFifo, PostFifo, ChipFifo DEF Areqs!Next
<1>3. CASE MatchType \/ MatchId \/ StoreSrsp \/ GiveSrsp \/ GiveReset
  <2>1. Held' = Held
    BY <1>3 DEF MatchType, MatchId, StoreSrsp, GiveSrsp, GiveReset, Held
  <2>2. UNCHANGED <<areqQueue, rawQueue, uart, told>>
    BY <1>3 DEF MatchType, MatchId, StoreSrsp, GiveSrsp, GiveReset, wire, counts
  <2> QED  BY <1>1, <2>1, <2>2
<1>4. ASSUME NEW c \in Callers, SendSreq(c) \/ \E k \in Commands : Call(c, k)
      PROVE  UNCHANGED <<areqQueue, dispatcher, rawQueue, uart, told>>
  BY <1>4 DEF SendSreq, TakeMutex, MutexTimeout, ExpectType, ExpectId, DrainToken, WriteUart,
              TakeSrsp, SrspTimeout, CopyFrame, GiveMutex, Call, others, wire, counts
<1>5. CASE DrainReset \/ ResetCoprocessor \/ Quiet \/ UNCHANGED vars
  <2>1. UNCHANGED <<areqQueue, dispatcher, rawQueue, uart, told>>
    BY <1>5 DEF DrainReset, ResetCoprocessor, PulseReset, ResetHeard, ResetTimeout, Quiet, vars,
                others, wire, counts
  <2> QED  BY <1>1, <2>1 DEF dispatcher, Held
<1>6. ASSUME NEW c \in Callers, SendSreq(c) \/ \E k \in Commands : Call(c, k)
      PROVE  UNCHANGED <<InFlight, told>>
  BY <1>4, <1>6 DEF dispatcher, Held, InFlight
<1> QED  BY <1>2, <1>3, <1>5, <1>6 DEF Next, Dispatch

\* FR-1.5 for any number of tasks, queues of any depth and any faults: seen
\* from the framework, the coprocessor's AREQs come through a channel that may
\* lose some, but never reorders, repeats or invents one.
THEOREM ImplementsFifo == Spec => AreqFifo
<1>1. Init => OwesSrsps /\ Areqs!Init
  <2> SUFFICES ASSUME Init PROVE OwesSrsps /\ Areqs!Init
    OBVIOUS
  <2>1. /\ toChip = <<>> /\ uart = <<>> /\ rawQueue = <<>> /\ areqQueue = <<>>
        /\ dpc = "receive" /\ told = 0
    BY DEF Init
  <2>2. OwesSrsps
    BY <2>1 DEF OwesSrsps
  <2>3. InFlight = ((<<>> \o <<>>) \o <<>>) \o <<>>
    BY <2>1, NumbersEmpty DEF InFlight, Held
  <2>4. <<>> \o <<>> = <<>>
    OBVIOUS
  <2> QED  BY <2>1, <2>2, <2>3, <2>4 DEF Areqs!Init
<1>2. TypeOK /\ OwesSrsps /\ [Next]_vars => OwesSrsps' /\ [Areqs!Next]_<<InFlight, told>>
  BY OwesStep, NextFifo
<1> QED  BY <1>1, <1>2, TransportTypes, PTL DEF Spec, AreqFifo, Areqs!Spec
=============================================================================
