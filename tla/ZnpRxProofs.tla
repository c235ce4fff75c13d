---------------------------- MODULE ZnpRxProofs ----------------------------
(***************************************************************************)
(* Proofs about ZnpRx: whatever comes over the line, the parser keeps its  *)
(* buffer bounded, posts exactly the frames the decoder accepts, and never *)
(* leaves the state a length above the limit has put it in.                *)
(***************************************************************************)
EXTENDS ZnpRx, SequenceTheorems, TLAPS

-----------------------------------------------------------------------------
(* The inductive invariant *)

\* The bytes read so far of a frame are the ones its parts were taken from,
\* unless the task is stuck.
Header == <<Sof, len, type, id>>
ReadParts ==
    /\ state = "len" => read = <<Sof>>
    /\ state = "type" => read = <<Sof, len>>
    /\ state = "id" => read = <<Sof, len, type>>
    /\ state = "payload" =>
        /\ Len(payload) < len
        /\ len <= MaxPayload => read = Header \o payload
    /\ state = "fcs" =>
        /\ Len(payload) = len /\ len <= MaxPayload
        /\ read = Header \o payload

\* The length stays where it was read.
ReadLength ==
    state \in {"payload", "fcs"} => Len(read) >= 4 /\ read[2] = len

IInv == TypeOK /\ ReadParts /\ ReadLength

-----------------------------------------------------------------------------
(* Facts about frames and bytes *)

LEMMA FrameParts ==
    ASSUME NEW f \in Frames
    PROVE  /\ f = Frame(f.len, f.type, f.id, f.payload)
           /\ f.len = Len(f.payload) /\ f.len \in Bytes /\ f.len <= MaxPayload
           /\ f.type \in Bytes /\ f.id \in Bytes /\ f.payload \in Seq(Bytes)
           /\ Fcs(f) \in Bytes
<1>1. f = Frame(Len(f.payload), f.type, f.id, f.payload)
  BY RxAssumption
<1>2. f.len = Len(f.payload)
  BY <1>1 DEF Frame
<1> QED  BY <1>1, <1>2, RxAssumption

\* The bytes of a frame, one after the other.
LEMMA WireBytes ==
    ASSUME NEW l \in Bytes, NEW t \in Bytes, NEW i \in Bytes,
           NEW p \in Seq(Bytes), NEW c \in Bytes
    PROVE  LET w == <<Sof, l, t, i>> \o p \o <<c>>
           IN  /\ w \in Seq(Bytes) /\ Len(w) = Len(p) + 5
               /\ w[1] = Sof /\ w[2] = l /\ w[3] = t /\ w[4] = i
               /\ \A n \in 1 .. Len(p) : w[4 + n] = p[n]
               /\ w[5 + Len(p)] = c
<1> DEFINE h == <<Sof, l, t, i>>
           w == h \o p \o <<c>>
<1>1. h \in Seq(Bytes) /\ Len(h) = 4 /\ <<c>> \in Seq(Bytes) /\ Len(<<c>>) = 1
      /\ h[1] = Sof /\ h[2] = l /\ h[3] = t /\ h[4] = i /\ <<c>>[1] = c
  BY RxAssumption
<1> HIDE DEF h
<1>2. /\ h \o p \in Seq(Bytes) /\ Len(h \o p) = 4 + Len(p)
      /\ \A n \in 1 .. 4 + Len(p) : (h \o p)[n] = IF n <= 4 THEN h[n] ELSE p[n - 4]
  <2>1. /\ h \o p \in Seq(Bytes) /\ Len(h \o p) = Len(h) + Len(p)
        /\ \A n \in 1 .. Len(h) + Len(p) :
              (h \o p)[n] = IF n <= Len(h) THEN h[n] ELSE p[n - Len(h)]
    BY <1>1, ConcatProperties
  <2> QED  BY <1>1, <2>1
<1>3. /\ w \in Seq(Bytes) /\ Len(w) = Len(h \o p) + 1
      /\ \A n \in 1 .. Len(h \o p) + 1 :
            w[n] = IF n <= Len(h \o p) THEN (h \o p)[n] ELSE <<c>>[n - Len(h \o p)]
  BY <1>1, <1>2, ConcatProperties
<1>4. Len(p) \in Nat
  BY LenProperties
<1> HIDE DEF w
<1>5. w[1] = Sof /\ w[2] = l /\ w[3] = t /\ w[4] = i
  BY <1>1, <1>2, <1>3, <1>4
<1>6. \A n \in 1 .. Len(p) : w[4 + n] = p[n]
  BY <1>2, <1>3, <1>4
<1>7. w[5 + Len(p)] = c
  BY <1>1, <1>2, <1>3, <1>4
<1> QED  BY <1>2, <1>3, <1>5, <1>6, <1>7 DEF w, h

LEMMA FrameWire ==
    ASSUME NEW f \in Frames
    PROVE  LET w == Encode(f)
           IN  /\ Len(w) = f.len + 5 /\ w[1] = Sof
               /\ w[2] = f.len /\ w[3] = f.type /\ w[4] = f.id
               /\ \A n \in 1 .. f.len : w[4 + n] = f.payload[n]
               /\ w[5 + f.len] = Fcs(f)
<1> DEFINE l == f.len
           t == f.type
           i == f.id
           p == f.payload
           c == Fcs(f)
           w == Encode(f)
<1>1. /\ l = Len(p) /\ l \in Bytes /\ t \in Bytes /\ i \in Bytes
      /\ p \in Seq(Bytes) /\ c \in Bytes
  BY FrameParts
<1>2. w = <<Sof, l, t, i>> \o p \o <<c>>
  BY DEF Encode
<1> HIDE DEF w, l, t, i, p, c
<1>3. /\ Len(w) = Len(p) + 5
      /\ w[1] = Sof /\ w[2] = l /\ w[3] = t /\ w[4] = i
      /\ \A n \in 1 .. Len(p) : w[4 + n] = p[n]
      /\ w[5 + Len(p)] = c
  BY <1>1, <1>2, WireBytes
<1> QED  BY <1>1, <1>3 DEF w, l, t, i, p, c

LEMMA FrameBytes ==
    ASSUME NEW f \in Frames
    PROVE  Encode(f) \in Seq(Bytes)
  BY FrameParts, WireBytes DEF Encode

\* Whatever the line does to it, what is left of a transmission are bytes.
LEMMA DamagedBytes ==
    ASSUME NEW l \in Seq(Bytes), NEW b \in Bytes
    PROVE  /\ \A i \in DOMAIN l : RemoveAt(l, i) \in Seq(Bytes)
           /\ \A i \in DOMAIN l : [l EXCEPT ![i] = b] \in Seq(Bytes)
           /\ \A i \in 1 .. Len(l) + 1 : InsertAt(l, i, b) \in Seq(Bytes)
<1>1. \A i \in DOMAIN l : RemoveAt(l, i) \in Seq(Bytes)
  <2> TAKE i \in DOMAIN l
  <2>1. SubSeq(l, 1, i - 1) \in Seq(Bytes)
    OBVIOUS
  <2>2. SubSeq(l, i + 1, Len(l)) \in Seq(Bytes)
    OBVIOUS
  <2> QED  BY <2>1, <2>2, ConcatProperties DEF RemoveAt
<1>2. \A i \in DOMAIN l : [l EXCEPT ![i] = b] \in Seq(Bytes)
  BY ExceptSeq
<1>3. \A i \in 1 .. Len(l) + 1 : InsertAt(l, i, b) \in Seq(Bytes)
  <2> TAKE i \in 1 .. Len(l) + 1
  <2>1. SubSeq(l, 1, i - 1) \in Seq(Bytes)
    OBVIOUS
  <2>2. SubSeq(l, i, Len(l)) \in Seq(Bytes)
    OBVIOUS
  <2>3. SubSeq(l, 1, i - 1) \o <<b>> \in Seq(Bytes)
    BY <2>1, ConcatProperties
  <2> QED  BY <2>2, <2>3, ConcatProperties DEF InsertAt
<1> QED  BY <1>1, <1>2, <1>3

\* The decoder accepts a complete frame of correct length iff its FCS is right.
LEMMA DecodeComplete ==
    ASSUME NEW l \in Bytes, NEW t \in Bytes, NEW i \in Bytes,
           NEW p \in Seq(Bytes), NEW c \in Bytes, Len(p) = l
    PROVE  Decode(<<Sof, l, t, i>> \o p \o <<c>>) =
               IF c = Fcs(Frame(l, t, i, p)) THEN Frame(l, t, i, p) ELSE NoFrame
<1> DEFINE w == <<Sof, l, t, i>> \o p \o <<c>>
<1>1. /\ w \in Seq(Bytes) /\ Len(w) = Len(p) + 5
      /\ w[1] = Sof /\ w[2] = l /\ w[3] = t /\ w[4] = i
      /\ \A n \in 1 .. Len(p) : w[4 + n] = p[n]
      /\ w[5 + Len(p)] = c
  BY WireBytes
<1> HIDE DEF w
<1>2. l \in Nat
  BY RxAssumption
<1>3. SubSeq(w, 5, 4 + l) = p
  <2> DEFINE q == SubSeq(w, 5, 4 + l)
  <2>0. \A n \in 5 .. 4 + l : w[n] \in Bytes
    BY <1>1, <1>2, ElementOfSeq
  <2>1. /\ q \in Seq(Bytes) /\ Len(q) = IF 5 <= 4 + l THEN 4 + l - 5 + 1 ELSE 0
        /\ \A n \in 1 .. 4 + l - 5 + 1 : q[n] = w[5 + n - 1]
    BY <1>2, <2>0, SubSeqProperties
  <2> HIDE DEF q
  <2>2. Len(q) = Len(p) /\ \A n \in 1 .. Len(q) : q[n] = p[n]
    BY <1>1, <1>2, <2>1
  <2>3. q = p
    BY <2>1, <2>2, SeqEqual
  <2> QED  BY <2>3 DEF q
<1>4. ~ (Len(w) < 5 \/ w[1] # Sof \/ Len(w) < w[2] + 5)
  BY <1>1, <1>2
<1>5. Decode(w) = IF w[5 + w[2]] = Fcs(Frame(w[2], w[3], w[4], SubSeq(w, 5, 4 + w[2])))
                  THEN Frame(w[2], w[3], w[4], SubSeq(w, 5, 4 + w[2])) ELSE NoFrame
  BY <1>4 DEF Decode
<1>6. Decode(w) = IF c = Fcs(Frame(l, t, i, p)) THEN Frame(l, t, i, p) ELSE NoFrame
  BY <1>1, <1>3, <1>5
<1> QED  BY <1>6 DEF w

-----------------------------------------------------------------------------
(* The invariant is inductive *)

LEMMA InitIInv == Init => IInv
<1>1. MaxPayload \in Nat /\ RawDepth \in Nat /\ MaxFaults \in Nat /\ 0 \in Bytes
  BY RxAssumption
<1>2. <<>> \in Seq(Bytes) /\ Len(<<>>) = 0
  BY EmptySeq
<1> QED
  BY <1>1, <1>2 DEF Init, IInv, TypeOK, ParserTypeOK, ReadParts, ReadLength, Longest, NoFrame

\* A step of the line leaves the parser alone and leaves bytes to read.
LEMMA LineStep == IInv /\ Line => IInv'
<1> SUFFICES ASSUME IInv, Line PROVE IInv'
  OBVIOUS
<1>0. MaxPayload \in Nat /\ MaxFaults \in Nat /\ Longest \in Nat /\ Longest >= 5
  BY RxAssumption DEF Longest
<1>1. UNCHANGED <<parser, rawQueue, read>> /\ since' \in 0 .. 2 * Longest
      /\ faults' \in 0 .. MaxFaults /\ sending' \in Frames \cup {NoFrame}
  BY <1>0 DEF Line, Transmit, LoseByte, ChangeByte, InventByte, Damage, IInv, TypeOK
<1>2. line' \in Seq(Bytes)
  <2>0. line \in Seq(Bytes) /\ 0 \in Bytes
    BY RxAssumption DEF IInv, TypeOK
  <2>1. CASE Transmit
    BY <2>1, FrameBytes DEF Transmit
  <2>2. CASE LoseByte
    BY <2>0, <2>2, DamagedBytes DEF LoseByte, Damage
  <2>3. CASE ChangeByte
    BY <2>0, <2>3, DamagedBytes DEF ChangeByte, Damage
  <2>4. CASE InventByte
    BY <2>0, <2>4, DamagedBytes DEF InventByte, Damage
  <2> QED  BY <2>1, <2>2, <2>3, <2>4 DEF Line
<1>3. TypeOK'
  BY <1>1, <1>2 DEF IInv, TypeOK, ParserTypeOK, parser
<1>4. ReadParts'
  BY <1>1 DEF IInv, ReadParts, Header, parser
<1>5. ReadLength'
  BY <1>1 DEF IInv, ReadLength, parser
<1> QED  BY <1>3, <1>4, <1>5 DEF IInv

\* What every step of the task does to the line and to the ghosts.
LEMMA TakeStep ==
    ASSUME IInv, Take
    PROVE  /\ byte \in Bytes /\ byte \in Nat /\ line' \in Seq(Bytes)
           /\ read' \in Seq(Bytes)
           /\ since' \in 0 .. 2 * Longest /\ UNCHANGED <<sending, faults>>
<1>0. MaxPayload \in Nat /\ Longest \in Nat /\ Longest >= 5 /\ Bytes \subseteq Nat
  BY RxAssumption DEF Longest
<1>1. line \in Seq(Bytes) /\ line # <<>> /\ read \in Seq(Bytes)
  BY DEF IInv, TypeOK, Take
<1>2. byte \in Bytes /\ line' \in Seq(Bytes)
  BY <1>1, HeadTailProperties DEF byte, Take
<1>3. Append(read, byte) \in Seq(Bytes) /\ <<byte>> \in Seq(Bytes) /\ <<>> \in Seq(Bytes)
  BY <1>1, <1>2
<1>4. read' \in Seq(Bytes)
  BY <1>1, <1>3 DEF Take
<1>5. since' \in 0 .. 2 * Longest /\ UNCHANGED <<sending, faults>>
  BY <1>0 DEF Take, IInv, TypeOK
<1> QED  BY <1>0, <1>2, <1>4, <1>5

LEMMA RxTypeOK == IInv /\ Rx => TypeOK'
<1> SUFFICES ASSUME IInv, Rx PROVE TypeOK'
  OBVIOUS
<1>0. MaxPayload \in Nat /\ RawDepth \in Nat /\ Bytes \subseteq Nat /\ Take
  BY RxAssumption
     DEF Rx, HuntSof, ReadLen, ReadType, ReadId, ReadPayload, ReadFcs
<1>1. /\ byte \in Bytes /\ line' \in Seq(Bytes) /\ read' \in Seq(Bytes)
      /\ since' \in 0 .. 2 * Longest /\ UNCHANGED <<sending, faults>>
  BY <1>0, TakeStep
<1>2. ParserTypeOK'
  <2>1. CASE HuntSof \/ ReadLen \/ ReadType \/ ReadFcs
    BY <1>1, <2>1 DEF HuntSof, ReadLen, ReadType, ReadFcs, IInv, TypeOK, ParserTypeOK
  <2>2. CASE ReadId
    BY <1>0, <1>1, <2>2, EmptySeq DEF ReadId, IInv, TypeOK, ParserTypeOK
  <2>3. CASE ReadPayload
    <3>1. payload \in Seq(Bytes) /\ Len(payload) \in Nat
      BY LenProperties DEF IInv, TypeOK, ParserTypeOK
    <3>2. Append(payload, byte) \in Seq(Bytes)
          /\ Len(Append(payload, byte)) = Len(payload) + 1
      BY <1>1, <3>1
    <3>3. payload' \in Seq(Bytes) /\ Len(payload') <= MaxPayload
      BY <1>0, <2>3, <3>1, <3>2 DEF ReadPayload, IInv, TypeOK, ParserTypeOK
    <3> QED  BY <2>3, <3>3 DEF ReadPayload, IInv, TypeOK, ParserTypeOK
  <2> QED  BY <2>1, <2>2, <2>3 DEF Rx
<1>3. rawQueue' \in Seq(Received) /\ Len(rawQueue') <= RawDepth
  <2>0. rawQueue \in Seq(Received) /\ Len(rawQueue) <= RawDepth
        /\ Frame(len, type, id, payload) \in Received
    BY DEF IInv, TypeOK, ParserTypeOK, Received, Frame
  <2>1. CASE ReadFcs
    <3> DEFINE f == Frame(len, type, id, payload)
    <3>1. \/ rawQueue' = rawQueue
          \/ rawQueue' = Append(rawQueue, f) /\ Len(rawQueue) < RawDepth
      BY <2>1 DEF ReadFcs
    <3> HIDE DEF f
    <3>2. Append(rawQueue, f) \in Seq(Received)
          /\ Len(Append(rawQueue, f)) = Len(rawQueue) + 1 /\ Len(rawQueue) \in Nat
      BY <2>0 DEF f
    <3> QED  BY <1>0, <2>0, <3>1, <3>2
  <2>2. CASE ~ ReadFcs
    BY <2>2 DEF Rx, HuntSof, ReadLen, ReadType, ReadId, ReadPayload, IInv, TypeOK
  <2> QED  BY <2>1, <2>2
<1> QED  BY <1>1, <1>2, <1>3 DEF IInv, TypeOK

LEMMA AppendIs ==
    ASSUME NEW s \in Seq(Bytes), NEW b \in Bytes, NEW t \in Seq(Bytes),
           Len(t) = Len(s) + 1, t[Len(s) + 1] = b,
           \A n \in 1 .. Len(s) : t[n] = s[n]
    PROVE  Append(s, b) = t
<1>1. Append(s, b) \in Seq(Bytes) /\ Len(Append(s, b)) = Len(t) /\ Len(s) \in Nat
  OBVIOUS
<1>2. \A n \in 1 .. Len(t) : Append(s, b)[n] = t[n]
  BY <1>1
<1> QED  BY <1>1, <1>2, SeqEqual

LEMMA AppendConcat ==
    ASSUME NEW h \in Seq(Bytes), NEW s \in Seq(Bytes), NEW b \in Bytes
    PROVE  Append(h \o s, b) = h \o Append(s, b)
<1>1. <<b>> \in Seq(Bytes) /\ h \o s \in Seq(Bytes)
  BY ConcatProperties
<1>2. Append(h \o s, b) = (h \o s) \o <<b>>
  BY <1>1
<1>3. Append(s, b) = s \o <<b>>
  BY <1>1
<1> QED  BY <1>1, <1>2, <1>3, ConcatAssociative

LEMMA AppendToOne ==
    ASSUME NEW a \in Bytes, NEW b \in Bytes
    PROVE  Append(<<a>>, b) = <<a, b>>
<1> DEFINE s == <<a>>
           t == <<a, b>>
<1>1. s \in Seq(Bytes) /\ Len(s) = 1 /\ t \in Seq(Bytes) /\ Len(t) = 2
  OBVIOUS
<1>2. t[2] = b /\ \A n \in 1 .. 1 : t[n] = s[n]
  OBVIOUS
<1> HIDE DEF s, t
<1>3. t[Len(s) + 1] = b /\ Len(t) = Len(s) + 1
  BY <1>1, <1>2
<1>4. \A n \in 1 .. Len(s) : t[n] = s[n]
  BY <1>1, <1>2
<1>5. Append(s, b) = t
  BY <1>1, <1>3, <1>4, AppendIs
<1> QED  BY <1>5 DEF s, t

LEMMA AppendToTwo ==
    ASSUME NEW a \in Bytes, NEW b \in Bytes, NEW c \in Bytes
    PROVE  Append(<<a, b>>, c) = <<a, b, c>>
<1> DEFINE s == <<a, b>>
           t == <<a, b, c>>
<1>1. s \in Seq(Bytes) /\ Len(s) = 2 /\ t \in Seq(Bytes) /\ Len(t) = 3
  OBVIOUS
<1>2. t[3] = c /\ \A n \in 1 .. 2 : t[n] = s[n]
  OBVIOUS
<1> HIDE DEF s, t
<1>3. t[Len(s) + 1] = c /\ Len(t) = Len(s) + 1
  BY <1>1, <1>2
<1>4. \A n \in 1 .. Len(s) : t[n] = s[n]
  BY <1>1, <1>2
<1>5. Append(s, c) = t
  BY <1>1, <1>3, <1>4, AppendIs
<1> QED  BY <1>5 DEF s, t

LEMMA AppendToThree ==
    ASSUME NEW a \in Bytes, NEW b \in Bytes, NEW c \in Bytes, NEW d \in Bytes
    PROVE  Append(<<a, b, c>>, d) = <<a, b, c, d>>
<1> DEFINE s == <<a, b, c>>
           t == <<a, b, c, d>>
<1>1. s \in Seq(Bytes) /\ Len(s) = 3 /\ t \in Seq(Bytes) /\ Len(t) = 4
  OBVIOUS
<1>2. t[4] = d /\ \A n \in 1 .. 3 : t[n] = s[n]
  OBVIOUS
<1> HIDE DEF s, t
<1>3. t[Len(s) + 1] = d /\ Len(t) = Len(s) + 1
  BY <1>1, <1>2
<1>4. \A n \in 1 .. Len(s) : t[n] = s[n]
  BY <1>1, <1>2
<1>5. Append(s, d) = t
  BY <1>1, <1>3, <1>4, AppendIs
<1> QED  BY <1>5 DEF s, t

\* What has been read of a frame, byte by byte.
LEMMA RxReadParts == IInv /\ Rx => ReadParts'
<1> SUFFICES ASSUME IInv, Rx PROVE ReadParts'
  OBVIOUS
<1>0. /\ MaxPayload \in Nat /\ Longest \in Nat /\ 2 * Longest > 4 + MaxPayload
      /\ Bytes \subseteq Nat /\ Take
  BY RxAssumption
     DEF Rx, HuntSof, ReadLen, ReadType, ReadId, ReadPayload, ReadFcs, Longest
<1>1. /\ byte \in Bytes /\ byte \in Nat /\ len \in Nat
      /\ payload \in Seq(Bytes) /\ Len(payload) \in Nat /\ Len(payload) <= MaxPayload
  BY <1>0, TakeStep, LenProperties DEF IInv, TypeOK, ParserTypeOK
<1>2. CASE HuntSof
  <2>1. state' \in {"hunt", "len"} /\ (state' = "len" => read' = <<Sof>>)
    BY <1>2 DEF HuntSof, Take
  <2> QED  BY <2>1 DEF ReadParts
<1>3. CASE ReadLen
  <2>1. state = "len" /\ read = <<Sof>> /\ Len(read) = 1
    BY <1>3 DEF ReadLen, IInv, ReadParts
  <2>2. read' = Append(read, byte)
    BY <1>0, <2>1 DEF Take
  <2>3. read' = <<Sof, byte>>
    BY <1>1, <2>1, <2>2, AppendToOne, RxAssumption
  <2> QED  BY <1>3, <2>3 DEF ReadLen, ReadParts
<1>4. CASE ReadType
  <2>1. state = "type" /\ read = <<Sof, len>> /\ Len(read) = 2
    BY <1>4 DEF ReadType, IInv, ReadParts
  <2>2. read' = Append(read, byte)
    BY <1>0, <2>1 DEF Take
  <2>3. read' = <<Sof, len, byte>>
    <3>1. Sof \in Bytes /\ len \in Bytes
      BY RxAssumption DEF IInv, TypeOK, ParserTypeOK
    <3>2. Append(<<Sof, len>>, byte) = <<Sof, len, byte>>
      BY <1>1, <3>1, AppendToTwo
    <3> QED  BY <2>1, <2>2, <3>2
  <2> QED  BY <1>4, <2>3 DEF ReadType, ReadParts
<1>5. CASE ReadId
  <2>1. read' = <<Sof, len, type, byte>> /\ Header' = <<Sof, len, type, byte>>
    <3>1. state = "id" /\ read = <<Sof, len, type>> /\ Len(read) = 3
      BY <1>5 DEF ReadId, IInv, ReadParts
    <3>2. read' = Append(read, byte)
      BY <1>0, <3>1 DEF Take
    <3>3. read' = <<Sof, len, type, byte>>
      <4>1. Sof \in Bytes /\ len \in Bytes /\ type \in Bytes
        BY RxAssumption DEF IInv, TypeOK, ParserTypeOK
      <4>2. Append(<<Sof, len, type>>, byte) = <<Sof, len, type, byte>>
        BY <1>1, <4>1, AppendToThree
      <4> QED  BY <3>1, <3>2, <4>2
    <3> QED  BY <1>5, <3>3 DEF ReadId, Header
  <2>2. Header' \o <<>> = Header'
    BY <2>1
  <2>3. read' = Header' \o payload' /\ Len(payload') = 0
        /\ len' = len
        /\ state' = IF len > 0 THEN "payload" ELSE "fcs"
    BY <1>5, <2>1, <2>2 DEF ReadId
  <2> QED  BY <1>0, <1>1, <2>3 DEF ReadParts
<1>6. CASE ReadPayload
  <2>1. Len(payload) < len /\ (len <= MaxPayload => read = Header \o payload)
    BY <1>6 DEF ReadPayload, IInv, ReadParts
  <2>2. state' \in {"payload", "fcs"} /\ UNCHANGED <<len, Header>>
        /\ state' = IF Len(payload') >= len THEN "fcs" ELSE "payload"
    BY <1>6 DEF ReadPayload, Header
  <2>3. CASE Len(payload) < MaxPayload
    <3>1. payload' = Append(payload, byte) /\ Len(payload') = Len(payload) + 1
      BY <1>1, <1>6, <2>3 DEF ReadPayload
    <3>2. len <= MaxPayload => read' = Header' \o payload'
      <4> SUFFICES ASSUME len <= MaxPayload PROVE read' = Header' \o payload'
        OBVIOUS
      <4>1. Header \in Seq(Bytes) /\ Len(Header) = 4
        BY RxAssumption DEF Header, IInv, TypeOK, ParserTypeOK
      <4>2. read = Header \o payload /\ Len(read) = 4 + Len(payload)
        <5>1. read = Header \o payload
          BY <2>1
        <5>2. Len(Header \o payload) = Len(Header) + Len(payload)
          BY <1>1, <4>1, ConcatProperties
        <5> QED  BY <4>1, <5>1, <5>2
      <4>3. read' = Append(read, byte)
        BY <1>0, <1>1, <1>6, <4>2 DEF ReadPayload, Take
      <4> HIDE DEF Header
      <4>4. Append(Header \o payload, byte) = Header \o Append(payload, byte)
        BY <1>1, <4>1, AppendConcat
      <4>5. read' = Header \o payload'
        BY <3>1, <4>2, <4>3, <4>4
      <4>6. Header' = Header
        BY <2>2
      <4> QED  BY <4>5, <4>6
    <3>3. UNCHANGED len /\ Len(payload') \in Nat
      BY <1>1, <1>6, <3>1 DEF ReadPayload
    <3>4. state' = "payload" => Len(payload') < len'
      BY <1>1, <2>2, <3>3
    <3>5. state' = "fcs" => Len(payload') = len' /\ len' <= MaxPayload
      BY <1>0, <1>1, <2>1, <2>2, <2>3, <3>1, <3>3
    <3> QED  BY <2>2, <3>2, <3>3, <3>4, <3>5 DEF ReadParts
  <2>4. CASE Len(payload) >= MaxPayload
    <3>1. payload' = payload /\ len > MaxPayload
      BY <1>0, <1>1, <1>6, <2>1, <2>4 DEF ReadPayload
    <3>2. UNCHANGED len /\ state' = "payload"
      BY <1>0, <1>1, <1>6, <2>2, <3>1 DEF ReadPayload
    <3> QED  BY <1>0, <1>1, <2>1, <3>1, <3>2 DEF ReadParts
  <2> QED  BY <1>0, <1>1, <2>3, <2>4
<1>7. CASE ReadFcs
  BY <1>7 DEF ReadFcs, ReadParts
<1> QED  BY <1>2, <1>3, <1>4, <1>5, <1>6, <1>7 DEF Rx

LEMMA RxReadLength == IInv /\ Rx => ReadLength'
<1> SUFFICES ASSUME IInv, Rx PROVE ReadLength'
  OBVIOUS
<1>0. Longest \in Nat /\ 2 * Longest >= 10 /\ Take
  BY RxAssumption
     DEF Rx, HuntSof, ReadLen, ReadType, ReadId, ReadPayload, ReadFcs, Longest
<1>1. /\ byte \in Bytes /\ len \in Bytes /\ type \in Bytes /\ Sof \in Bytes
      /\ read \in Seq(Bytes) /\ Len(read) \in Nat
  BY <1>0, TakeStep, LenProperties, RxAssumption DEF IInv, TypeOK, ParserTypeOK
<1>2. CASE HuntSof \/ ReadLen \/ ReadType \/ ReadFcs
  BY <1>2 DEF HuntSof, ReadLen, ReadType, ReadFcs, ReadLength
<1>3. CASE ReadId
  <2>1. state = "id" /\ read = <<Sof, len, type>> /\ Len(read) = 3
    BY <1>3 DEF ReadId, IInv, ReadParts
  <2>2. read' = Append(read, byte)
    BY <1>0, <2>1 DEF Take
  <2>3. Append(<<Sof, len, type>>, byte) = <<Sof, len, type, byte>>
    BY <1>1, AppendToThree
  <2>4. Len(read') = 4 /\ read'[2] = len
    BY <2>1, <2>2, <2>3
  <2> QED  BY <1>3, <2>4 DEF ReadId, ReadLength
<1>4. CASE ReadPayload
  <2>1. state = "payload" /\ len' = len /\ Len(read) >= 4 /\ read[2] = len
    BY <1>4 DEF ReadPayload, IInv, ReadLength
  <2>2. read' = read \/ read' = Append(read, byte)
    BY <1>0, <2>1 DEF Take
  <2>3. Len(read') >= 4 /\ read'[2] = read[2]
    BY <1>1, <2>1, <2>2
  <2> QED  BY <2>1, <2>3 DEF ReadLength
<1> QED  BY <1>2, <1>3, <1>4 DEF Rx

LEMMA DispatchStep == IInv /\ Dispatch => IInv'
<1> SUFFICES ASSUME IInv, Dispatch PROVE IInv'
  OBVIOUS
<1>1. /\ rawQueue \in Seq(Received) /\ rawQueue # <<>>
      /\ Len(rawQueue) <= RawDepth /\ RawDepth \in Nat
  BY RxAssumption DEF Dispatch, IInv, TypeOK
<1>2. rawQueue' \in Seq(Received) /\ Len(rawQueue') <= RawDepth
  BY <1>1, HeadTailProperties DEF Dispatch
<1> QED
  BY <1>2 DEF Dispatch, IInv, TypeOK, ParserTypeOK, ReadParts, ReadLength, Header, parser

LEMMA StutterStep == IInv /\ UNCHANGED vars => IInv'
  BY DEF vars, parser, IInv, TypeOK, ParserTypeOK, ReadParts, ReadLength,
         Header

\* Whatever comes over the line, the parser's registers hold bytes, its buffer
\* at most ZNP_MAX_PAYLOAD of them, and the queue at most RAW_QUEUE_DEPTH
\* frames.
THEOREM ParserInvariant == Spec => []IInv
<1>1. IInv /\ [Next]_vars => IInv'
  BY LineStep, RxTypeOK, RxReadParts, RxReadLength, DispatchStep, StutterStep DEF Next, IInv
<1> QED  BY InitIInv, <1>1, PTL DEF Spec

\* The parser keeps its types: no byte overruns a register or the buffer, and no
\* frame the raw queue.
THEOREM TypeCorrect == Spec => []TypeOK
<1>1. IInv => TypeOK
  BY DEF IInv
<1> QED  BY ParserInvariant, <1>1, PTL

-----------------------------------------------------------------------------
(* What the task posts *)

\* The byte-by-byte parser and the decoder of a whole buffer are the same
\* function: for every alphabet, limit and history of the line, the task posts
\* what znp_frame_decode() returns for the bytes it has read, and nothing when
\* that returns an error.
THEOREM PostsTheDecoded == Spec => PostsWhatDecodes
<1> DEFINE Post ==
        state = "fcs" /\ state' = "hunt" /\ Len(rawQueue) < RawDepth
            => LET f == Decode(Append(read, byte))
               IN  IF f = NoFrame THEN UNCHANGED rawQueue ELSE Posted(f)
<1>1. IInv /\ [Next]_vars => [Post]_vars
  <2> SUFFICES ASSUME IInv, Next, state = "fcs", state' = "hunt",
                      Len(rawQueue) < RawDepth
               PROVE  LET f == Decode(Append(read, byte))
                      IN  IF f = NoFrame THEN UNCHANGED rawQueue ELSE Posted(f)
    OBVIOUS
  <2>1. ReadFcs
    BY DEF Next, Line, Transmit, LoseByte, ChangeByte, InventByte, Damage, Dispatch,
           parser, Rx, HuntSof, ReadLen, ReadType, ReadId, ReadPayload
  <2>2. /\ byte \in Bytes /\ len \in Bytes /\ type \in Bytes /\ id \in Bytes
        /\ payload \in Seq(Bytes) /\ Len(payload) = len /\ len \in Nat
        /\ read = Header \o payload
    BY <2>1, TakeStep, RxAssumption
       DEF ReadFcs, IInv, TypeOK, ParserTypeOK, ReadParts
  <2>3. Append(read, byte) = <<Sof, len, type, id>> \o payload \o <<byte>>
    <3>1. Header \in Seq(Bytes)
      BY <2>2, RxAssumption DEF Header
    <3>2. Header \o payload \in Seq(Bytes)
      BY <2>2, <3>1, ConcatProperties
    <3> HIDE DEF Header
    <3>3. Append(Header \o payload, byte) = (Header \o payload) \o <<byte>>
      BY <2>2, <3>2
    <3> QED  BY <2>2, <3>3 DEF Header
  <2> DEFINE f == Frame(len, type, id, payload)
  <2>4. Decode(Append(read, byte)) = IF byte = Fcs(f) THEN f ELSE NoFrame
    BY <2>2, <2>3, DecodeComplete
  <2>5. f # NoFrame
    BY <2>2 DEF Frame, NoFrame
  <2>6. rawQueue' = IF byte = Fcs(f) /\ Len(rawQueue) < RawDepth
                    THEN Append(rawQueue, f) ELSE rawQueue
    BY <2>1 DEF ReadFcs
  <2> HIDE DEF f
  <2>7. CASE byte = Fcs(f)
    BY <2>4, <2>5, <2>6, <2>7 DEF Posted
  <2>8. CASE byte # Fcs(f)
    BY <2>4, <2>6, <2>8
  <2> QED  BY <2>7, <2>8
<1>2. Spec => [][Post]_vars
  BY ParserInvariant, <1>1, PTL DEF Spec
<1> QED  BY <1>2 DEF PostsWhatDecodes

LEMMA StaysStuck ==
    ASSUME TypeOK, TypeOK', Next, Stuck
    PROVE  Stuck' /\ rawQueue' \in {rawQueue, Tail(rawQueue)}
<1>0. MaxPayload \in Nat /\ len \in Nat /\ len > MaxPayload
      /\ state \in {"type", "id", "payload"}
  BY RxAssumption DEF TypeOK, ParserTypeOK, Stuck
<1>1. CASE Line \/ Dispatch
  BY <1>0, <1>1 DEF Line, Transmit, LoseByte, ChangeByte, InventByte, Damage,
                    Dispatch, parser, Stuck
<1>2. CASE HuntSof \/ ReadLen \/ ReadFcs
  BY <1>0, <1>2 DEF HuntSof, ReadLen, ReadFcs
<1>3. CASE ReadType \/ ReadId
  BY <1>0, <1>3 DEF ReadType, ReadId, Stuck
<1>4. CASE ReadPayload
  <2>1. Len(payload') <= MaxPayload /\ Len(payload') \in Nat
    BY LenProperties DEF TypeOK, ParserTypeOK
  <2>2. state' = "payload" /\ len' = len /\ rawQueue' = rawQueue
    BY <1>0, <1>4, <2>1 DEF ReadPayload
  <2> QED  BY <1>0, <2>2 DEF Stuck
<1> QED  BY <1>1, <1>2, <1>3, <1>4 DEF Next, Rx

\* A length above the limit is a trap: no byte the task reads afterwards, and
\* nothing the line does, ends it, and the task posts nothing any more.
THEOREM StuckForEver ==
    Spec => [][Stuck => Stuck' /\ rawQueue' \in {rawQueue, Tail(rawQueue)}]_vars
<1> DEFINE Waits == Stuck => Stuck' /\ rawQueue' \in {rawQueue, Tail(rawQueue)}
<1>1. TypeOK /\ TypeOK' /\ [Next]_vars => [Waits]_vars
  BY StaysStuck
<1>2. Spec => [][Waits]_vars
  BY TypeCorrect, <1>1, PTL DEF Spec
<1> QED  BY <1>2

-----------------------------------------------------------------------------
(* In step with the line *)

LEMMA MoveHead ==
    ASSUME NEW r \in Seq(Bytes), NEW l \in Seq(Bytes), l # <<>>
    PROVE  Append(r, Head(l)) \o Tail(l) = r \o l
<1>1. Head(l) \in Bytes /\ Tail(l) \in Seq(Bytes) /\ <<Head(l)>> \in Seq(Bytes)
  BY HeadTailProperties
<1>2. <<Head(l)>> \o Tail(l) = l
  OBVIOUS
<1>3. Append(r, Head(l)) = r \o <<Head(l)>>
  BY <1>1
<1>4. (r \o <<Head(l)>>) \o Tail(l) = r \o (<<Head(l)>> \o Tail(l))
  BY <1>1, ConcatAssociative
<1> QED  BY <1>2, <1>3, <1>4

\* A frame the coprocessor sends has a length; NoFrame has none.
LEMMA NoFrameOnLine ==
    ASSUME NEW r \in Seq(Bytes)
    PROVE  r # Encode(NoFrame)
<1> DEFINE S == Int \cup Bytes \cup {Fcs(NoFrame)}
           h == <<Sof, -1, 0, 0>>
           t == <<Fcs(NoFrame)>>
<1>1. Encode(NoFrame) = h \o <<>> \o t
  BY DEF Encode, NoFrame, Frame
<1>2. h \in Seq(S) /\ Len(h) = 4 /\ h[2] = -1 /\ t \in Seq(S) /\ Len(t) = 1
  BY RxAssumption
<1> HIDE DEF S, h, t
<1>3. h \o <<>> = h
  BY <1>2, ConcatEmptySeq
<1>4. Len(h \o t) = Len(h) + Len(t)
      /\ \A n \in 1 .. Len(h) + Len(t) :
            (h \o t)[n] = IF n <= Len(h) THEN h[n] ELSE t[n - Len(h)]
  BY <1>2, ConcatProperties
<1>5. Len(h \o t) = 5 /\ (h \o t)[2] = -1
  BY <1>2, <1>4
<1>6. Len(r) = 5 => r[2] \in Bytes
  BY ElementOfSeq
<1> QED  BY <1>1, <1>3, <1>5, <1>6, RxAssumption

\* What the registers hold of the frame being transmitted.
LEMMA InStepMeans ==
    ASSUME IInv, InStep, state # "hunt"
    PROVE  /\ sending \in Frames
           /\ Len(read) + Len(line) = sending.len + 5
           /\ state \in {"payload", "fcs"} => len = sending.len
<1> DEFINE w == Encode(sending)
<1>1. read \in Seq(Bytes) /\ line \in Seq(Bytes) /\ read \o line = w
  BY DEF IInv, TypeOK, InStep
<1>2. read \o line \in Seq(Bytes) /\ Len(read \o line) = Len(read) + Len(line)
      /\ \A n \in 1 .. Len(read) + Len(line) :
            (read \o line)[n] = IF n <= Len(read) THEN read[n] ELSE line[n - Len(read)]
  BY <1>1, ConcatProperties
<1>3. sending \in Frames
  BY <1>1, <1>2, NoFrameOnLine DEF IInv, TypeOK
<1>4. sending.len = Len(sending.payload) /\ sending.len \in Nat
      /\ Len(w) = Len(sending.payload) + 5 /\ w[2] = sending.len
  BY <1>3, FrameParts, WireBytes, RxAssumption DEF Encode
<1> HIDE DEF w
<1>5. Len(read) \in Nat /\ Len(line) \in Nat
  BY <1>1, LenProperties
<1>6. state \in {"payload", "fcs"} => len = sending.len
  <2> SUFFICES ASSUME state \in {"payload", "fcs"} PROVE len = sending.len
    OBVIOUS
  <2>1. Len(read) >= 4 /\ read[2] = len
    BY DEF IInv, ReadLength
  <2>2. w[2] = read[2]
    BY <1>1, <1>2, <1>5, <2>1
  <2> QED  BY <1>4, <2>1, <2>2
<1> QED  BY <1>1, <1>2, <1>3, <1>4, <1>6

\* The bytes of the frame being transmitted that the task has not read yet are
\* on the line.
LEMMA InStepLeft ==
    ASSUME IInv, InStep, state # "hunt"
    PROVE  /\ line # <<>> /\ Len(read) < Longest
           /\ state = "fcs" => Len(line) = 1
<1>1. /\ sending \in Frames /\ Len(read) + Len(line) = sending.len + 5
      /\ state \in {"payload", "fcs"} => len = sending.len
      /\ sending.len \in Nat /\ sending.len <= MaxPayload /\ MaxPayload \in Nat
  BY InStepMeans, FrameParts, RxAssumption
<1>2. /\ read \in Seq(Bytes) /\ line \in Seq(Bytes) /\ payload \in Seq(Bytes)
      /\ Len(read) \in Nat /\ Len(line) \in Nat /\ Len(payload) \in Nat
      /\ Header \in Seq(Bytes) /\ Len(Header) = 4
  BY LenProperties, RxAssumption DEF IInv, TypeOK, ParserTypeOK, Header
<1>3. CASE state \in {"len", "type", "id"}
  <2>1. Len(<<Sof>>) = 1 /\ Len(<<Sof, len>>) = 2 /\ Len(<<Sof, len, type>>) = 3
    OBVIOUS
  <2>2. read \in {<<Sof>>, <<Sof, len>>, <<Sof, len, type>>}
    BY <1>3 DEF IInv, ReadParts
  <2>3. Len(read) <= 3
    BY <2>1, <2>2
  <2> QED  BY <1>1, <1>2, <1>3, <2>3, EmptySeq DEF Longest
<1>4. CASE state \in {"payload", "fcs"}
  <2>1. read = Header \o payload
        /\ (state = "payload" => Len(payload) < len)
        /\ (state = "fcs" => Len(payload) = len)
    BY <1>1, <1>4 DEF IInv, ReadParts
  <2>2. Len(read) = 4 + Len(payload)
    <3>1. Len(Header \o payload) = Len(Header) + Len(payload)
      BY <1>2, ConcatProperties
    <3> QED  BY <1>2, <2>1, <3>1
  <2>3. Len(line) = len + 1 - Len(payload) /\ len \in Nat /\ len <= MaxPayload
    BY <1>1, <1>2, <1>4, <2>2
  <2>4. Len(read) < Longest /\ Len(line) > 0 /\ (state = "fcs" => Len(line) = 1)
    BY <1>1, <1>2, <1>4, <2>1, <2>2, <2>3 DEF Longest
  <2> QED  BY <2>4, EmptySeq
<1>5. state \in {"len", "type", "id", "payload", "fcs"}
  BY DEF IInv, TypeOK, ParserTypeOK
<1> QED  BY <1>3, <1>4, <1>5

\* At the FCS, the registers hold the frame being transmitted.
LEMMA InStepWhole ==
    ASSUME IInv, InStep, state = "fcs"
    PROVE  Frame(len, type, id, payload) = sending /\ byte = Fcs(sending)
<1> DEFINE w == Encode(sending)
           r == Header \o payload
<1>1. /\ read = r /\ r \o line = w /\ Len(payload) = len
      /\ line \in Seq(Bytes) /\ payload \in Seq(Bytes)
      /\ Header \in Seq(Bytes) /\ Len(Header) = 4
      /\ Header[1] = Sof /\ Header[2] = len /\ Header[3] = type /\ Header[4] = id
  <2>1. read = r /\ r \o line = w /\ Len(payload) = len
    BY DEF IInv, ReadParts, InStep
  <2>2. line \in Seq(Bytes) /\ payload \in Seq(Bytes)
    BY DEF IInv, TypeOK, ParserTypeOK
  <2>3. Sof \in Bytes /\ len \in Bytes /\ type \in Bytes /\ id \in Bytes
    BY RxAssumption DEF IInv, TypeOK, ParserTypeOK
  <2>4. Header \in Seq(Bytes) /\ Len(Header) = 4
        /\ Header[1] = Sof /\ Header[2] = len /\ Header[3] = type /\ Header[4] = id
    BY <2>3 DEF Header
  <2> QED  BY <2>1, <2>2, <2>4
<1>2. sending \in Frames /\ Len(line) = 1 /\ len = sending.len
  BY InStepMeans, InStepLeft
<1>3. /\ sending = Frame(sending.len, sending.type, sending.id, sending.payload)
      /\ sending.payload \in Seq(Bytes) /\ Len(sending.payload) = len /\ len \in Nat
      /\ w[3] = sending.type /\ w[4] = sending.id
      /\ \A n \in 1 .. len : w[4 + n] = sending.payload[n]
      /\ w[5 + len] = Fcs(sending)
  <2> len \in Nat /\ sending.len = Len(sending.payload)
    BY <1>2, FrameParts, RxAssumption
  <2> QED  BY <1>2, FrameParts, FrameWire
<1>4. /\ r \in Seq(Bytes) /\ Len(r) = Len(Header) + Len(payload)
      /\ \A n \in 1 .. Len(Header) + Len(payload) :
            r[n] = IF n <= Len(Header) THEN Header[n] ELSE payload[n - Len(Header)]
  BY <1>1, ConcatProperties
<1> HIDE DEF w, r, Header
<1>5. \A n \in 1 .. Len(r) + Len(line) :
            w[n] = IF n <= Len(r) THEN r[n] ELSE line[n - Len(r)]
  <2>1. \A n \in 1 .. Len(r) + Len(line) :
            (r \o line)[n] = IF n <= Len(r) THEN r[n] ELSE line[n - Len(r)]
    BY <1>1, <1>4, ConcatProperties
  <2>2. r \o line = w
    BY <1>1
  <2> QED  BY <2>1, <2>2
<1>6. Len(r) = 4 + len /\ r[3] = type /\ r[4] = id
      /\ \A n \in 1 .. len : r[4 + n] = payload[n]
  BY <1>1, <1>3, <1>4
<1>7. \A n \in 1 .. 4 + len : w[n] = r[n]
  <2> TAKE n \in 1 .. 4 + len
  <2>1. n \in 1 .. Len(r) + Len(line) /\ n <= Len(r)
    BY <1>2, <1>3, <1>6
  <2> QED  BY <1>5, <2>1
<1>8. w[5 + len] = line[1]
  <2>1. ASSUME NEW m \in Int, m = 5 + len
        PROVE  w[m] = line[1]
    <3>1. len \in Nat /\ Len(r) = 4 + len /\ Len(line) = 1
      BY <1>2, <1>3, <1>6
    <3> DEFINE k == Len(r)
               j == Len(line)
    <3> HIDE DEF k, j
    <3>2. len \in Nat /\ k = 4 + len /\ j = 1
      BY <3>1 DEF k, j
    <3>3. m \in 1 .. k + j /\ ~ (m <= k) /\ m - k = 1
      BY <2>1, <3>2
    <3>4. m \in 1 .. Len(r) + Len(line) /\ ~ (m <= Len(r)) /\ m - Len(r) = 1
      BY <3>3 DEF k, j
    <3>5. w[m] = line[m - Len(r)]
      BY <1>5, <3>4
    <3> QED  BY <3>4, <3>5
  <2> QED  BY <1>3, <2>1
<1>9. w[3] = type /\ w[4] = id /\ \A n \in 1 .. len : w[4 + n] = payload[n]
  <2>1. 3 \in 1 .. 4 + len /\ 4 \in 1 .. 4 + len
        /\ \A n \in 1 .. len : 4 + n \in 1 .. 4 + len
    BY <1>3
  <2> QED  BY <1>6, <1>7, <2>1
<1>10. \A n \in 1 .. len : payload[n] = sending.payload[n]
  BY <1>3, <1>9
<1>11. payload = sending.payload
  BY <1>1, <1>3, <1>10, SeqEqual
<1>12. byte = Fcs(sending)
  BY <1>1, <1>2, <1>3, <1>8 DEF byte
<1>13. Frame(len, type, id, payload) = sending
  BY <1>2, <1>3, <1>9, <1>11
<1> QED  BY <1>12, <1>13

LEMMA RxKeepsInStep ==
    ASSUME IInv, InStep, Rx
    PROVE  InStep'
<1>0. /\ Take /\ line \in Seq(Bytes) /\ line # <<>> /\ read \in Seq(Bytes)
      /\ line' = Tail(line) /\ UNCHANGED sending
  BY DEF Rx, HuntSof, ReadLen, ReadType, ReadId, ReadPayload, ReadFcs, Take,
         IInv, TypeOK
<1>1. CASE HuntSof
  <2>1. line = Encode(sending) /\ state = "hunt"
    BY <1>0, <1>1 DEF HuntSof, InStep
  <2>2. sending \in Frames
    BY <1>0, <2>1, NoFrameOnLine DEF IInv, TypeOK
  <2>3. line[1] = Sof
    BY <2>1, <2>2, FrameParts, WireBytes DEF Encode
  <2>4. byte = Sof
    BY <1>0, <2>3 DEF byte
  <2>5. read' = <<byte>> /\ state' = "len"
    BY <1>0, <1>1, <2>1, <2>4 DEF HuntSof, Take
  <2>6. <<Head(line)>> \o Tail(line) = line
    BY <1>0
  <2> QED  BY <1>0, <2>1, <2>5, <2>6 DEF InStep, byte
<1>2. CASE ReadLen \/ ReadType \/ ReadId \/ ReadPayload
  <2>1. state # "hunt" /\ state' # "hunt"
    BY <1>2 DEF ReadLen, ReadType, ReadId, ReadPayload
  <2>2. Len(read) < 2 * Longest
    BY <1>0, <2>1, InStepLeft, LenProperties, RxAssumption DEF Longest
  <2>3. read' = Append(read, byte)
    BY <1>0, <2>1, <2>2 DEF Take
  <2>4. read' \o line' = read \o line
    BY <1>0, <2>3, MoveHead DEF byte
  <2> QED  BY <1>0, <2>1, <2>4 DEF InStep
<1>3. CASE ReadFcs
  <2>1. Len(line) = 1 /\ state' = "hunt"
    BY <1>3, InStepLeft DEF ReadFcs
  <2>2. line' = <<>>
    BY <1>0, <2>1, HeadTailProperties, EmptySeq
  <2> QED  BY <2>1, <2>2 DEF InStep
<1> QED  BY <1>1, <1>2, <1>3 DEF Rx

LEMMA KeepsInStep ==
    ASSUME IInv, Next, InStep, UNCHANGED faults
    PROVE  InStep'
<1>1. CASE Transmit
  BY <1>1, InStepLeft DEF Transmit, InStep, parser
<1>2. CASE LoseByte \/ ChangeByte \/ InventByte
  BY <1>2, RxAssumption DEF LoseByte, ChangeByte, InventByte, Damage, IInv, TypeOK
<1>3. CASE Rx
  BY <1>3, RxKeepsInStep
<1>4. CASE Dispatch
  BY <1>4 DEF Dispatch, InStep, parser
<1> QED  BY <1>1, <1>2, <1>3, <1>4 DEF Next, Line

\* Only a fault of the line takes the task out of step: no sequence of frames,
\* however they follow each other, does.
THEOREM StaysInStep == Spec => [][InStep /\ UNCHANGED faults => InStep']_vars
<1>1. IInv /\ [Next]_vars => [InStep /\ UNCHANGED faults => InStep']_vars
  BY KeepsInStep
<1> QED  BY ParserInvariant, <1>1, PTL DEF Spec

\* While no byte has been damaged the task is in step.
THEOREM UndamagedInStep == Spec => [](faults = 0 => InStep)
<1> DEFINE Undamaged == faults = 0 => InStep
<1>1. Init => Undamaged
  BY DEF Init, InStep
<1>2. IInv /\ Undamaged /\ [Next]_vars => Undamaged'
  <2> SUFFICES ASSUME IInv, Undamaged, [Next]_vars, faults' = 0
               PROVE  InStep'
    OBVIOUS
  <2>1. UNCHANGED faults /\ InStep
    BY RxAssumption
       DEF IInv, TypeOK, Next, Line, Transmit, LoseByte, ChangeByte, InventByte,
           Damage, Rx, HuntSof, ReadLen, ReadType, ReadId, ReadPayload, ReadFcs,
           Take, Dispatch, vars
  <2> QED  BY <2>1, KeepsInStep DEF vars, parser, InStep
<1> QED  BY ParserInvariant, <1>1, <1>2, PTL DEF Spec

\* FR-1.3 for every frame, limit and history of the line: a frame whose bytes
\* all reach the task in step is posted as the coprocessor sent it.
THEOREM InStepArrives == Spec => InStepFramesArrive
<1> DEFINE Arrive ==
        state = "fcs" /\ state' = "hunt" /\ InStep /\ Len(rawQueue) < RawDepth
            => Posted(sending)
<1>1. IInv /\ [Next]_vars => [Arrive]_vars
  <2> SUFFICES ASSUME IInv, Next, state = "fcs", state' = "hunt", InStep,
                      Len(rawQueue) < RawDepth
               PROVE  Posted(sending)
    OBVIOUS
  <2>1. ReadFcs
    BY DEF Next, Line, Transmit, LoseByte, ChangeByte, InventByte, Damage, Dispatch,
           parser, Rx, HuntSof, ReadLen, ReadType, ReadId, ReadPayload
  <2>2. Frame(len, type, id, payload) = sending /\ byte = Fcs(sending)
    BY InStepWhole
  <2> QED  BY <2>1, <2>2 DEF ReadFcs, Posted
<1>2. Spec => [][Arrive]_vars
  BY ParserInvariant, <1>1, PTL DEF Spec
<1> QED  BY <1>2 DEF InStepFramesArrive

-----------------------------------------------------------------------------
(* Back in step *)

\* What has come since the last damage. A frame that began before it is wrong,
\* and the bytes read since are part of it; when it has ended, the task hunts
\* through the rest of a plain frame, in which there is no SOF. Once in step it
\* need not be plain frames that follow.
Clean ==
    \/ line = <<>>
    \/ sending \in Frames /\ Plain(sending) /\ line = Encode(sending)
    \/ Len(line) < Longest /\ \A n \in 1 .. Len(line) : line[n] # Sof
InWrong == state # "hunt" /\ since <= Len(read)
InRest == state = "hunt" /\ since + Len(line) < 2 * Longest
Resync == since >= 1 => InStep \/ Stuck \/ (Clean /\ (InWrong \/ InRest))

LEMMA Lengths ==
    IInv => /\ Longest \in Nat /\ Longest = MaxPayload + 5 /\ MaxPayload \in Nat
            /\ since \in 0 .. 2 * Longest /\ since \in Nat
            /\ line \in Seq(Bytes) /\ read \in Seq(Bytes)
            /\ Len(line) \in Nat /\ Len(read) \in Nat
  BY LenProperties, RxAssumption DEF IInv, TypeOK, Longest

\* A wrong frame that has not ended is shorter than the longest frame.
LEMMA ReadIsShort ==
    ASSUME IInv, state # "hunt", ~Stuck
    PROVE  Len(read) >= 1 /\ Len(read) < Longest
<1>0. /\ MaxPayload \in Nat /\ Longest = MaxPayload + 5 /\ len \in Nat
      /\ payload \in Seq(Bytes) /\ Len(payload) \in Nat
      /\ Header \in Seq(Bytes) /\ Len(Header) = 4
  BY LenProperties, RxAssumption DEF IInv, TypeOK, ParserTypeOK, Header, Longest
<1>1. CASE state \in {"len", "type", "id"}
  <2>1. Len(<<Sof>>) = 1 /\ Len(<<Sof, len>>) = 2 /\ Len(<<Sof, len, type>>) = 3
    OBVIOUS
  <2>2. read \in {<<Sof>>, <<Sof, len>>, <<Sof, len, type>>}
    BY <1>1 DEF IInv, ReadParts
  <2> DEFINE m == Len(read)
  <2>3. m \in {1, 2, 3}
    BY <2>1, <2>2
  <2> HIDE DEF m
  <2>4. m >= 1 /\ m < Longest
    BY <1>0, <2>3
  <2> QED  BY <2>4 DEF m
<1>2. CASE state \in {"payload", "fcs"}
  <2>1. len <= MaxPayload
    BY <1>0, <1>2 DEF Stuck, IInv, ReadParts
  <2>2. read = Header \o payload /\ Len(payload) <= len
    BY <1>0, <1>2, <2>1 DEF IInv, ReadParts
  <2>3. Len(Header \o payload) = Len(Header) + Len(payload)
    BY <1>0, ConcatProperties
  <2>4. Len(read) = 4 + Len(payload)
    BY <1>0, <2>2, <2>3
  <2> DEFINE n == Len(payload)
             m == Len(read)
  <2>5. n \in Nat /\ n <= len /\ m = 4 + n
    BY <1>0, <2>2, <2>4
  <2> HIDE DEF n, m
  <2>6. m >= 1 /\ m < Longest
    BY <1>0, <2>1, <2>5
  <2> QED  BY <2>6 DEF m
<1>3. state \in {"len", "type", "id", "payload", "fcs"}
  BY DEF IInv, TypeOK, ParserTypeOK
<1> QED  BY <1>1, <1>2, <1>3

\* Behind its first byte a plain frame holds no SOF.
LEMMA TakeClean ==
    ASSUME IInv, Clean, Take
    PROVE  /\ Len(line') < Longest /\ \A n \in 1 .. Len(line') : line'[n] # Sof
           /\ state = "hunt" => InStep \/ byte # Sof
<1>1. /\ line \in Seq(Bytes) /\ line # <<>> /\ line' = Tail(line)
      /\ Len(line) \in Nat /\ Longest = MaxPayload + 5 /\ MaxPayload \in Nat
  BY Lengths DEF Take
<1>2. /\ Len(line) >= 1 /\ Len(line') = Len(line) - 1
      /\ \A n \in 1 .. Len(line') : line'[n] = line[n + 1]
      /\ byte = line[1]
  BY <1>1, HeadTailProperties, EmptySeq DEF byte
<1>3. CASE sending \in Frames /\ Plain(sending) /\ line = Encode(sending)
  <2>1. /\ Len(line) = sending.len + 5 /\ sending.len <= MaxPayload /\ sending.len \in Nat
        /\ WireLength(sending) = Len(line)
    BY <1>3, FrameWire, FrameParts, RxAssumption DEF WireLength
  <2>2. \A n \in 2 .. Len(line) : line[n] # Sof
    BY <1>3, <2>1 DEF Plain
  <2>3. state = "hunt" => InStep
    BY <1>3 DEF InStep
  <2> QED  BY <1>1, <1>2, <2>1, <2>2, <2>3
<1>4. CASE Len(line) < Longest /\ \A n \in 1 .. Len(line) : line[n] # Sof
  BY <1>1, <1>2, <1>4
<1> QED  BY <1>1, <1>3, <1>4 DEF Clean

LEMMA RxResync ==
    ASSUME IInv, TypeOK', Resync, Rx
    PROVE  Resync'
<1>0. Take /\ Next
  BY DEF Next, Rx, HuntSof, ReadLen, ReadType, ReadId, ReadPayload, ReadFcs
<1>1. /\ Longest \in Nat /\ Longest = MaxPayload + 5 /\ MaxPayload \in Nat
      /\ since \in 0 .. 2 * Longest /\ since \in Nat
      /\ line \in Seq(Bytes) /\ read \in Seq(Bytes)
      /\ Len(line) \in Nat /\ Len(read) \in Nat
  BY Lengths
<1>2. CASE since = 0
  <2>1. since' = 0
    BY <1>0, <1>1, <1>2 DEF Take
  <2> QED  BY <2>1 DEF Resync
<1>3. CASE since >= 1
  <2>1. InStep \/ Stuck \/ (Clean /\ (InWrong \/ InRest))
    BY <1>3 DEF Resync
  <2>2. Clean => Len(line') < Longest /\ \A n \in 1 .. Len(line') : line'[n] # Sof
    BY <1>0, TakeClean
  <2>3. Clean => Clean'
    BY <2>2 DEF Clean
  <2>4. CASE InStep
    <3>1. InStep'
      BY <2>4, RxKeepsInStep
    <3> QED  BY <3>1 DEF Resync
  <2>5. CASE Stuck
    <3>1. Stuck'
      BY <1>0, <2>5, StaysStuck DEF IInv
    <3> QED  BY <3>1 DEF Resync
  <2>6. CASE Clean /\ InWrong /\ ~Stuck
    <3>1. /\ state # "hunt" /\ since <= Len(read) /\ Len(read) < Longest
      BY <2>6, ReadIsShort DEF InWrong
    <3>2. since' = since + 1
      BY <1>0, <1>1, <1>3, <3>1 DEF Take
    <3>3. read' = Append(read, byte)
      BY <1>0, <1>1, <3>1 DEF Take
    <3>4. Len(read') = Len(read) + 1
      <4>1. byte \in Bytes
        BY <1>0, TakeStep
      <4> QED  BY <1>1, <3>3, <4>1, AppendProperties
    <3>5. CASE ReadFcs
      <4>1. state' = "hunt"
        BY <3>5 DEF ReadFcs
      <4>2. Len(line') \in Nat
        BY LenProperties DEF TypeOK
      <4>3. since' + Len(line') < 2 * Longest
        BY <1>1, <2>2, <2>6, <3>1, <3>2, <4>2
      <4> QED  BY <2>3, <2>6, <4>1, <4>3 DEF Resync, InRest
    <3>6. CASE ~ReadFcs
      <4>1. state' # "hunt"
        BY <3>1, <3>6 DEF Rx, HuntSof, ReadLen, ReadType, ReadId, ReadPayload
      <4>2. since' <= Len(read')
        BY <1>1, <3>1, <3>2, <3>4
      <4> QED  BY <2>3, <2>6, <4>1, <4>2 DEF Resync, InWrong
    <3> QED  BY <3>5, <3>6
  <2>7. CASE Clean /\ InRest /\ ~InStep
    <3>1. state = "hunt" /\ since + Len(line) < 2 * Longest
      BY <2>7 DEF InRest
    <3>2. byte # Sof
      BY <1>0, <2>7, <3>1, TakeClean
    <3>3. HuntSof /\ state' = "hunt"
      BY <3>1, <3>2 DEF Rx, HuntSof, ReadLen, ReadType, ReadId, ReadPayload, ReadFcs
    <3>4. Len(line) >= 1 /\ Len(line') = Len(line) - 1
      BY <1>0, <1>1, HeadTailProperties, EmptySeq DEF Take
    <3>5. since' = since + 1
      BY <1>0, <1>1, <1>3, <3>1, <3>4 DEF Take
    <3>6. since' + Len(line') < 2 * Longest
      BY <1>1, <3>1, <3>4, <3>5
    <3> QED  BY <2>3, <2>7, <3>3, <3>6 DEF Resync, InRest
  <2> QED  BY <2>1, <2>4, <2>5, <2>6, <2>7
<1> QED  BY <1>1, <1>2, <1>3

\* The plain frame that follows the damaged one begins the count, or is taken in.
LEMMA TransmitResync ==
    ASSUME IInv, TypeOK', Resync, Transmit
    PROVE  Resync'
<1>0. /\ since \in Nat /\ Longest \in Nat /\ Longest >= 5 /\ line = <<>>
      /\ UNCHANGED <<parser, read>> /\ Len(read) \in Nat
      /\ since' = IF since < 2 * Longest /\ ~Plain(sending') THEN 0
                  ELSE IF since = 0 THEN 1 ELSE since
  BY Lengths DEF Transmit
<1>1. UNCHANGED state
  BY <1>0 DEF parser
<1>2. Plain(sending') => Clean'
  <2>1. sending' \in Frames /\ line' = Encode(sending')
    BY DEF Transmit
  <2>2. Encode(sending') = Encode(sending)' /\ Plain(sending') = Plain(sending)'
    OBVIOUS
  <2> QED  BY <2>1, <2>2 DEF Clean
<1>3. CASE state = "hunt"
  <2>1. line' = Encode(sending)'
    BY DEF Transmit
  <2>2. InStep'
    BY <1>1, <1>3, <2>1 DEF InStep
  <2> QED  BY <2>2 DEF Resync
<1>4. CASE Stuck
  <2>1. Stuck'
    BY <1>0, <1>4 DEF Stuck, parser
  <2> QED  BY <2>1 DEF Resync
<1>5. CASE state # "hunt" /\ ~Stuck
  <2>1. Len(read) >= 1 /\ Len(read) < Longest
    BY <1>5, ReadIsShort
  <2>2. ~InStep
    BY <1>0, <1>5, InStepLeft
  <2>3. since >= 1 => since <= Len(read)
    BY <1>5, <2>2 DEF Resync, InWrong, InRest
  <2>4. since < 2 * Longest
    BY <1>0, <2>1, <2>3
  <2>5. since' <= Len(read') /\ (since' >= 1 => Plain(sending'))
    BY <1>0, <2>1, <2>3, <2>4
  <2> QED  BY <1>1, <1>2, <1>5, <2>5 DEF Resync, InWrong
<1> QED  BY <1>3, <1>4, <1>5

LEMMA ResyncInvariant == Spec => []Resync
<1>1. Init => Resync
  BY DEF Init, Resync, Clean, InStep
<1>2. IInv /\ IInv' /\ Resync /\ [Next]_vars => Resync'
  <2> SUFFICES ASSUME IInv, IInv', Resync, [Next]_vars PROVE Resync'
    OBVIOUS
  <2>1. CASE Transmit
    BY <2>1, TransmitResync DEF IInv
  <2>2. CASE LoseByte \/ ChangeByte \/ InventByte
    <3>1. since' = 0
      BY <2>2 DEF LoseByte, ChangeByte, InventByte, Damage
    <3> QED  BY <3>1 DEF Resync
  <2>3. CASE Rx
    BY <2>3, RxResync DEF IInv
  <2>4. CASE Dispatch \/ UNCHANGED vars
    <3>1. UNCHANGED <<state, len, line, sending, read, since>>
      BY <2>4 DEF Dispatch, vars, parser
    <3> QED  BY <3>1 DEF Resync, Clean, InStep, Stuck, InWrong, InRest
  <2> QED  BY <2>1, <2>2, <2>3, <2>4 DEF Next, Line
<1> QED  BY <1>1, <1>2, ParserInvariant, PTL DEF Spec

\* FR-1.7 for every alphabet, limit, set of frames and history of the line: when
\* the bytes of two frames of the greatest length have been read since the last
\* damage, all of frames with no SOF behind their first byte, the task is in step
\* again, unless a length above the limit has trapped it. It then stays in step,
\* also through frames that hold SOFs, until the next damage.
THEOREM RecoversOtherwise == Spec => []RecoversUnlessStuck
<1>1. IInv /\ Resync => RecoversUnlessStuck
  <2> SUFFICES ASSUME IInv, Resync, since >= 2 * Longest, ~InStep, ~Stuck PROVE FALSE
    BY DEF RecoversUnlessStuck
  <2>0. /\ Longest \in Nat /\ Longest >= 5 /\ since \in Nat
        /\ Len(line) \in Nat /\ Len(read) \in Nat
    BY Lengths
  <2>1. InWrong \/ InRest
    BY <2>0 DEF Resync
  <2>2. CASE InWrong
    <3>1. since <= Len(read) /\ Len(read) < Longest
      BY <2>2, ReadIsShort DEF InWrong
    <3> QED  BY <2>0, <3>1
  <2>3. CASE InRest
    BY <2>0, <2>3 DEF InRest
  <2> QED  BY <2>1, <2>2, <2>3
<1> QED  BY ParserInvariant, ResyncInvariant, <1>1, PTL
=============================================================================
