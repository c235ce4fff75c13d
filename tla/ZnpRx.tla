------------------------------- MODULE ZnpRx -------------------------------
(***************************************************************************)
(* MT framing: the wire format of znp_mt_protocol.c and the task that      *)
(* assembles frames from it one byte at a time (znp_rx_task), against a    *)
(* line that loses, changes and invents bytes.                             *)
(***************************************************************************)
EXTENDS Integers, Sequences, SequencesExt

CONSTANTS
    Bytes,          \* the values of a byte
    ByteXor(_, _),      \* exclusive or of two of them
    Sof,            \* ZNP_SOF
    MaxPayload,     \* ZNP_MAX_PAYLOAD
    Frames,         \* frames the coprocessor sends
    RawDepth,       \* RAW_QUEUE_DEPTH
    MaxFaults       \* bytes the line may damage: a bound of the model

VARIABLES
    state, len, type, id, payload,  \* of znp_rx_task
    line,           \* bytes of the current transmission not read yet
    rawQueue,       \* s_raw_queue
    sending,        \* the frame the coprocessor transmits
    read,           \* the bytes read since the SOF hunted for
    since,          \* 0 from a damaged byte to the next plain frame, then one
                    \* more than the bytes read since
    faults          \* bytes damaged

parser == <<state, len, type, id, payload>>
vars == <<parser, line, rawQueue, sending, read, since, faults>>

-----------------------------------------------------------------------------
(* The wire format *)

\* A frame; a correct one has len = Len(payload), which is at most
\* ZNP_MAX_PAYLOAD, so that the caller's buffer holds what it encodes to.
Frame(l, t, i, p) == [len |-> l, type |-> t, id |-> i, payload |-> p]

Fcs(f) == FoldLeft(ByteXor, 0, <<f.len, f.type, f.id>> \o f.payload)

Encode(f) == <<Sof, f.len, f.type, f.id>> \o f.payload \o <<Fcs(f)>>

\* The frame of a buffer, or NoFrame if it holds none.
NoFrame == Frame(-1, 0, 0, <<>>)
Decode(b) ==
    IF Len(b) < 5 \/ b[1] # Sof \/ Len(b) < b[2] + 5 THEN NoFrame
    ELSE LET f == Frame(b[2], b[3], b[4], SubSeq(b, 5, 4 + b[2]))
         IN  IF b[5 + b[2]] = Fcs(f) THEN f ELSE NoFrame

WireLength(f) == Len(f.payload) + 5

\* Longest is a number no wire length exceeds.
Longest == MaxPayload + 5

\* Nothing keeps SOF out of a length, a type, an identifier, a payload or an FCS.
\* In a plain frame it does not occur: whoever hunts for it in the middle of one
\* finds the next frame.
Plain(f) == \A n \in 2 .. WireLength(f) : Encode(f)[n] # Sof

ASSUME RxAssumption ==
    /\ Bytes \subseteq Nat /\ 0 \in Bytes /\ Sof \in Bytes
    /\ MaxPayload \in Nat /\ RawDepth \in Nat \ {0} /\ MaxFaults \in Nat
    /\ \A f \in Frames :
        /\ f = Frame(Len(f.payload), f.type, f.id, f.payload)
        /\ f.type \in Bytes /\ f.id \in Bytes /\ f.payload \in Seq(Bytes)
        /\ Fcs(f) \in Bytes
        /\ Len(f.payload) \in Bytes \cap (0 .. MaxPayload)

-----------------------------------------------------------------------------
(* The line (external) *)

\* The coprocessor sends one frame after the other. One that is not plain begins
\* the count of since again, unless it was complete.
Transmit ==
    /\ line = <<>>
    /\ \E f \in Frames :
        /\ sending' = f /\ line' = Encode(f)
        /\ since' = IF since < 2 * Longest /\ ~Plain(f) THEN 0
                    ELSE IF since = 0 THEN 1 ELSE since
    /\ UNCHANGED <<parser, rawQueue, read, faults>>

Damage(l) ==
    /\ faults < MaxFaults
    /\ faults' = faults + 1
    /\ line' = l
    /\ since' = 0
    /\ UNCHANGED <<parser, rawQueue, sending, read>>

LoseByte == \E i \in DOMAIN line : Damage(RemoveAt(line, i))
ChangeByte == \E i \in DOMAIN line, b \in Bytes : Damage([line EXCEPT ![i] = b])
InventByte == \E i \in 1 .. Len(line) + 1, b \in Bytes : Damage(InsertAt(line, i, b))

-----------------------------------------------------------------------------
(* znp_rx_task(): one byte, in the state the byte before left *)

byte == Head(line)

\* More bytes than any frame has need not be told apart.
Take ==
    /\ line # <<>>
    /\ line' = Tail(line)
    /\ read' = IF state = "hunt" THEN IF byte = Sof THEN <<byte>> ELSE <<>>
               ELSE IF Len(read) < 2 * Longest THEN Append(read, byte) ELSE read
    /\ since' = IF since \in 1 .. 2 * Longest - 1 THEN since + 1 ELSE since
    /\ UNCHANGED <<sending, faults>>

HuntSof ==
    /\ state = "hunt"
    /\ Take
    /\ state' = IF byte = Sof THEN "len" ELSE "hunt"
    /\ UNCHANGED <<len, type, id, payload, rawQueue>>

ReadLen ==
    /\ state = "len"
    /\ Take
    /\ len' = byte
    /\ state' = "type"
    /\ UNCHANGED <<type, id, payload, rawQueue>>

ReadType ==
    /\ state = "type"
    /\ Take
    /\ type' = byte
    /\ state' = "id"
    /\ UNCHANGED <<len, id, payload, rawQueue>>

\* A bug: the index into the payload is not reset.
ReadIdOnly ==
    /\ state = "id"
    /\ Take
    /\ id' = byte
    /\ state' = IF len > 0 THEN "payload" ELSE "fcs"
    /\ UNCHANGED <<len, type, payload, rawQueue>>

ReadId ==
    /\ state = "id"
    /\ Take
    /\ id' = byte
    /\ payload' = <<>>
    /\ state' = IF len > 0 THEN "payload" ELSE "fcs"
    /\ UNCHANGED <<len, type, rawQueue>>

\* A bug: the bound of the payload is not checked.
ReadPayloadUnbounded ==
    /\ state = "payload"
    /\ Take
    /\ payload' = Append(payload, byte)
    /\ state' = IF Len(payload') >= len THEN "fcs" ELSE "payload"
    /\ UNCHANGED <<len, type, id, rawQueue>>

\* A byte that does not fit is dropped, and not counted.
ReadPayload ==
    /\ state = "payload"
    /\ Take
    /\ payload' = IF Len(payload) < MaxPayload THEN Append(payload, byte)
                                              ELSE payload
    /\ state' = IF Len(payload') >= len THEN "fcs" ELSE "payload"
    /\ UNCHANGED <<len, type, id, rawQueue>>

\* A bug: the frame is posted before its FCS is compared.
ReadFcsLate ==
    /\ state = "fcs"
    /\ Take
    /\ rawQueue' = IF Len(rawQueue) < RawDepth
                   THEN Append(rawQueue, Frame(len, type, id, payload))
                   ELSE rawQueue
    /\ state' = "hunt"
    /\ UNCHANGED <<len, type, id, payload>>

\* A bug: after a wrong FCS the next byte is taken for the length.
ReadFcsNoHunt ==
    /\ state = "fcs"
    /\ Take
    /\ LET f == Frame(len, type, id, payload)
       IN  /\ rawQueue' = IF byte = Fcs(f) /\ Len(rawQueue) < RawDepth
                          THEN Append(rawQueue, f) ELSE rawQueue
           /\ state' = IF byte = Fcs(f) THEN "hunt" ELSE "len"
    /\ UNCHANGED <<len, type, id, payload>>

\* A frame whose FCS is wrong, or that finds the queue full, is dropped.
ReadFcs ==
    /\ state = "fcs"
    /\ Take
    /\ LET f == Frame(len, type, id, payload)
       IN  rawQueue' = IF byte = Fcs(f) /\ Len(rawQueue) < RawDepth
                       THEN Append(rawQueue, f) ELSE rawQueue
    /\ state' = "hunt"
    /\ UNCHANGED <<len, type, id, payload>>

\* znp_dispatch_task() takes the oldest frame.
Dispatch ==
    /\ rawQueue # <<>>
    /\ rawQueue' = Tail(rawQueue)
    /\ UNCHANGED <<parser, line, sending, read, since, faults>>

-----------------------------------------------------------------------------
(* The specification *)

Init ==
    /\ state = "hunt" /\ len = 0 /\ type = 0 /\ id = 0 /\ payload = <<>>
    /\ line = <<>> /\ rawQueue = <<>> /\ sending = NoFrame /\ read = <<>>
    /\ since = 2 * Longest /\ faults = 0

Rx == HuntSof \/ ReadLen \/ ReadType \/ ReadId \/ ReadPayload \/ ReadFcs
Line == Transmit \/ LoseByte \/ ChangeByte \/ InventByte
Next == Line \/ Rx \/ Dispatch

Spec == Init /\ [][Next]_vars

-----------------------------------------------------------------------------
(* Properties *)

ParserTypeOK ==
    /\ state \in {"hunt", "len", "type", "id", "payload", "fcs"}
    /\ len \in Bytes /\ type \in Bytes /\ id \in Bytes
    /\ payload \in Seq(Bytes) /\ Len(payload) <= MaxPayload

Received == [len : Bytes, type : Bytes, id : Bytes, payload : Seq(Bytes)]

TypeOK ==
    /\ ParserTypeOK
    /\ line \in Seq(Bytes) /\ read \in Seq(Bytes)
    /\ rawQueue \in Seq(Received) /\ Len(rawQueue) <= RawDepth
    /\ sending \in Frames \cup {NoFrame}
    /\ since \in 0 .. 2 * Longest /\ faults \in 0 .. MaxFaults

\* The task reads the frame that is being transmitted from its first byte on.
InStep ==
    IF state = "hunt" THEN line = <<>> \/ line = Encode(sending)
                      ELSE read \o line = Encode(sending)

\* The length the task has read is more than it stores, so that it waits for
\* a byte that no longer comes.
Stuck == state \in {"type", "id", "payload"} /\ len > MaxPayload

\* FR-1.7: once the bytes of a wrong frame and of the frame it ends in have
\* gone by, the task is in step again, unless it is stuck, provided that the
\* frames sent meanwhile hold no SOF behind their first byte; from then on it
\* stays in step whatever they hold, until the next damage. A frame with such an
\* SOF, sent while the task is out of step, may keep it out, and nothing is
\* claimed until enough plain ones have followed.
RecoversUnlessStuck == since >= 2 * Longest => InStep \/ Stuck

\* The same without the exception, as the comment at the wrong FCS and the FSD
\* promise it.
Recovers == since >= 2 * Longest => InStep

\* The frames the task posts are exactly those that znp_frame_decode() finds
\* in the bytes it has read.
Posted(f) == rawQueue' = Append(rawQueue, f)
PostsWhatDecodes ==
    [][state = "fcs" /\ state' = "hunt" /\ Len(rawQueue) < RawDepth
        => LET f == Decode(Append(read, byte))
           IN  IF f = NoFrame THEN UNCHANGED rawQueue ELSE Posted(f)]_vars

\* FR-1.3: a frame that reaches the task undamaged while it is in step is
\* posted as it was sent, whatever came before it.
InStepFramesArrive ==
    [][state = "fcs" /\ state' = "hunt" /\ InStep /\ Len(rawQueue) < RawDepth
        => Posted(sending)]_vars
=============================================================================
