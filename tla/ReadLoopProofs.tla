---------------------------- MODULE ReadLoopProofs --------------------------
(***************************************************************************)
(* Proofs about ReadLoop, for frames of any length, any number of them and *)
(* any capacity of the channel to the handler.                             *)
(***************************************************************************)
EXTENDS ReadLoop, Lemmas, TLAPS

\* Where the frames lie in the byte stream: one behind the other, without a
\* gap; a client that has not closed its end has written whole frames.
Layout ==
    /\ \A i \in DOMAIN stream :
          stream[i].from = EndOf(i - 1) /\ stream[i].from < stream[i].to
    /\ \A i, j \in DOMAIN stream : i < j => stream[i].to <= stream[j].from
    /\ ~closed => /\ written = EndOf(Len(stream))
                  /\ \A i \in DOMAIN stream : stream[i].to <= written

\* The inductive invariant.
Inv == TypeOK /\ Layout /\ Framed

-----------------------------------------------------------------------------
(* Types                                                                   *)

\* Types of the initial state.
LEMMA TypeInit == Init => TypeOK
<1> SUFFICES ASSUME Init PROVE TypeOK
  OBVIOUS
<1>1. /\ stream \in Seq(Frame) /\ got \in Seq(Frame)
      /\ inq \in Seq(Frame) /\ Len(inq) <= InCap
      /\ hand \in Seq(Frame) /\ Len(hand) <= 1
  BY LengthsArePositive DEF Init
<1>2. written \in Nat /\ read \in 0 .. written /\ pos \in 0 .. read
  BY DEF Init
<1>3. closed \in BOOLEAN /\ reset \in BOOLEAN /\ rx \in BOOLEAN
  BY DEF Init
<1>4. fr = "reading"
  BY DEF Init
<1> QED
  BY <1>1, <1>2, <1>3, <1>4 DEF TypeOK

\* What the client writes is a frame, and it lies behind all that was written.
LEMMA WriteTypes ==
    ASSUME TypeOK, NEW kind \in Kinds, NEW len \in Lengths, NEW part \in 1 .. len,
           ClientWrites(kind, len, part)
    PROVE  TypeOK'
<1>1. len \in Nat \ {0} /\ written \in Nat
  BY LengthsArePositive DEF TypeOK
<1>2. [kind |-> kind, from |-> written, to |-> written + len] \in Frame
  BY <1>1 DEF Frame
<1>3. stream' \in Seq(Frame)
  BY <1>2 DEF ClientWrites, TypeOK
<1>4. written' \in Nat /\ read' \in 0 .. written' /\ pos' \in 0 .. read'
  BY <1>1 DEF ClientWrites, TypeOK, loop
<1> QED
  BY <1>3, <1>4 DEF ClientWrites, TypeOK, loop, channel

\* Every step of the client, FramedRead, the codec and the handler keeps the
\* types, and the capacity of the channel.
LEMMA TypeStep == TypeOK /\ [Next]_vars => TypeOK'
<1> SUFFICES ASSUME TypeOK, [Next]_vars PROVE TypeOK'
  OBVIOUS
<1> USE DEF socket, loop, channel
<1>1. CASE Client
  <2>1. ASSUME NEW len \in Lengths, NEW kind \in Kinds, ClientWrites(kind, len, len)
        PROVE  TypeOK'
    <3>1. len \in 1 .. len
      BY LengthsArePositive
    <3> QED
      BY <2>1, <3>1, WriteTypes
  <2>2. ASSUME NEW len \in Lengths, NEW part \in 1 .. len - 1,
               ClientWrites("command", len, part)
        PROVE  TypeOK'
    <3>1. part \in 1 .. len /\ "command" \in Kinds
      BY LengthsArePositive DEF Kinds
    <3> QED
      BY <2>2, <3>1, WriteTypes
  <2>3. CASE ClientCloses \/ ConnectionResets
    BY <2>3 DEF ClientCloses, ConnectionResets, TypeOK
  <2> QED
    BY <1>1, <2>1, <2>2, <2>3 DEF Client
<1>2. ASSUME NEW n \in 1 .. written - read, Fill(n) PROVE TypeOK'
  <2>1. read' \in 0 .. written' /\ pos' \in 0 .. read'
    BY <1>2 DEF Fill, TypeOK
  <2> QED
    BY <1>2, <2>1 DEF Fill, TypeOK, InNext
<1>3. CASE FillEof \/ FillFails \/ DecodeErr \/ DecodeNone \/ DecodeRest \/ NextIsNone
  BY <1>3 DEF FillEof, FillFails, DecodeErr, DecodeNone, DecodeRest, NextIsNone,
              InNext, Becomes, TypeOK
<1>4. ASSUME NEW i \in DOMAIN stream, DecodeOk(i) PROVE TypeOK'
  <2>1. stream[i] \in Frame /\ stream[i].to \in Nat /\ stream[i].to <= read
    <3>1. stream[i] \in Frame
      BY DEF TypeOK
    <3>2. stream[i].to <= read
      BY <1>4 DEF DecodeOk, DecodesCommand, Buffered
    <3> QED
      BY <3>1, <3>2 DEF Frame
  <2>2. hand' \in Seq(Frame) /\ Len(hand') = 1 /\ pos' \in 0 .. read'
    BY <1>4, <2>1 DEF DecodeOk, TypeOK
  <2> QED
    BY <1>4, <2>2 DEF DecodeOk, InNext, TypeOK
<1>5. CASE Send
  <2>1. hand \in Seq(Frame) /\ Len(hand) <= 1 /\ inq \in Seq(Frame)
    BY DEF TypeOK
  <2>2. inq' \in Seq(Frame) /\ Len(inq') <= Len(inq) + 1
    BY <1>5, <2>1 DEF Send
  <2>3. Len(inq') <= InCap
    <3>1. Len(inq) < InCap /\ Len(inq) \in Nat /\ Len(inq') \in Nat /\ InCap \in Nat
      BY <1>5, <2>1, <2>2, LengthsArePositive DEF Send
    <3> QED
      BY <2>2, <3>1
  <2>4. hand' \in Seq(Frame) /\ Len(hand') <= 1
    BY <1>5 DEF Send
  <2> QED
    BY <1>5, <2>2, <2>3, <2>4 DEF Send, TypeOK
<1>6. CASE SendFails
  BY <1>6 DEF SendFails, TypeOK
<1>7. CASE HandlerRecv
  <2>1. got' \in Seq(Frame) /\ inq' \in Seq(Frame) /\ Len(inq') <= InCap
    BY <1>7, LengthsArePositive DEF HandlerRecv, TypeOK
  <2> QED
    BY <1>7, <2>1 DEF HandlerRecv, TypeOK
<1>8. CASE HandlerEnds
  <2>1. inq' \in Seq(Frame) /\ Len(inq') <= InCap
    BY <1>8, LengthsArePositive DEF HandlerEnds
  <2> QED
    BY <1>8, <2>1 DEF HandlerEnds, TypeOK
<1>9. CASE UNCHANGED vars
  BY <1>9 DEF vars, TypeOK
<1> QED
  BY <1>1, <1>2, <1>3, <1>4, <1>5, <1>6, <1>7, <1>8, <1>9 DEF Next, Loop

-----------------------------------------------------------------------------
(* Where the frames lie                                                    *)

\* At first the stream is empty.
LEMMA LayoutInit == Init => Layout
BY DEF Init, Layout, EndOf

\* A new frame begins where the last one ends.
LEMMA WriteLayout ==
    ASSUME TypeOK, Layout, NEW kind \in Kinds, NEW len \in Lengths, NEW part \in 1 .. len,
           ClientWrites(kind, len, part)
    PROVE  Layout'
<1> DEFINE frame == [kind |-> kind, from |-> written, to |-> written + len]
           n     == Len(stream)
<1>1. /\ len \in Nat \ {0} /\ written \in Nat /\ part \in Nat /\ part <= len
      /\ n \in Nat /\ stream \in Seq(Frame) /\ DOMAIN stream = 1 .. n
  BY LengthsArePositive DEF TypeOK
<1>2. ~closed /\ closed' = (part < len) /\ written' = written + part
  BY DEF ClientWrites
<1>3. frame \in Frame /\ frame.from = written /\ frame.to = written + len
  BY <1>1 DEF Frame
<1>4. /\ stream' = Append(stream, frame) /\ Len(stream') = n + 1
      /\ DOMAIN stream' = 1 .. n + 1
      /\ \A i \in 1 .. n : stream'[i] = stream[i]
      /\ stream'[n + 1] = frame
  BY <1>1, <1>3 DEF ClientWrites
<1>5. \A i \in 1 .. n : stream[i].from \in Nat /\ stream[i].to \in Nat
  <2>1. \A i \in 1 .. n : stream[i] \in Frame
    BY <1>1
  <2> QED
    BY <2>1 DEF Frame
<1> HIDE DEF frame, n
<1>6. \A i \in 0 .. n : EndOf(i)' = EndOf(i)
  BY <1>1, <1>4 DEF EndOf
<1>7. written = EndOf(n) /\ \A i \in 1 .. n : stream[i].to <= written
  BY <1>1, <1>2 DEF Layout, n
<1>8. ASSUME NEW i \in 1 .. n + 1
      PROVE  stream'[i].from = EndOf(i - 1)' /\ stream'[i].from < stream'[i].to
  <2>1. CASE i = n + 1
    BY <1>1, <1>3, <1>4, <1>6, <1>7, <2>1
  <2>2. CASE i \in 1 .. n
    BY <1>1, <1>4, <1>6, <2>2 DEF Layout
  <2> QED
    BY <1>1, <2>1, <2>2
<1>9. ASSUME NEW i \in 1 .. n + 1, NEW j \in 1 .. n + 1, i < j
      PROVE  stream'[i].to <= stream'[j].from
  <2>1. CASE j = n + 1
    BY <1>1, <1>3, <1>4, <1>7, <1>9, <2>1
  <2>2. CASE j \in 1 .. n
    BY <1>1, <1>4, <1>9, <2>2 DEF Layout
  <2> QED
    BY <1>1, <2>1, <2>2
<1>10. ASSUME ~closed'
       PROVE  written' = EndOf(Len(stream))' /\ \A i \in 1 .. n + 1 : stream'[i].to <= written'
  <2>1. part = len
    <3>1. ~(part < len)
      BY <1>2, <1>10, Zenon
    <3> QED
      BY <1>1, <3>1
  <2>2. EndOf(Len(stream))' = written'
    BY <1>1, <1>2, <1>3, <1>4, <2>1 DEF EndOf
  <2>3. ASSUME NEW i \in 1 .. n + 1 PROVE stream'[i].to <= written'
    <3>1. CASE i = n + 1
      BY <1>1, <1>2, <1>3, <1>4, <2>1, <3>1
    <3>2. CASE i \in 1 .. n
      BY <1>1, <1>2, <1>4, <1>5, <1>7, <2>1, <3>2
    <3> QED
      BY <1>1, <3>1, <3>2
  <2> QED
    BY <2>2, <2>3
<1> QED
  BY <1>4, <1>8, <1>9, <1>10 DEF Layout

\* Only the client writes to the stream, and only at its end.
LEMMA LayoutStep == TypeOK /\ Layout /\ [Next]_vars => Layout'
<1> SUFFICES ASSUME TypeOK, Layout, [Next]_vars PROVE Layout'
  OBVIOUS
<1>1. ASSUME NEW len \in Lengths, NEW kind \in Kinds, ClientWrites(kind, len, len)
      PROVE  Layout'
  <2>1. len \in 1 .. len
    BY LengthsArePositive
  <2> QED
    BY <1>1, <2>1, WriteLayout
<1>2. ASSUME NEW len \in Lengths, NEW part \in 1 .. len - 1, ClientWrites("command", len, part)
      PROVE  Layout'
  <2>1. part \in 1 .. len /\ "command" \in Kinds
    BY LengthsArePositive DEF Kinds
  <2> QED
    BY <1>2, <2>1, WriteLayout
<1>3. CASE ClientCloses
  BY <1>3 DEF ClientCloses, Layout, EndOf
<1>4. CASE UNCHANGED <<stream, written, closed>>
  BY <1>4 DEF Layout, EndOf
<1>5. Loop \/ HandlerRecv \/ HandlerEnds \/ ConnectionResets \/ UNCHANGED vars
        => UNCHANGED <<stream, written, closed>>
  BY DEF Loop, HandlerRecv, HandlerEnds, ConnectionResets, vars, socket, Fill, FillEof,
         FillFails, DecodeOk, DecodeErr, DecodeNone, DecodeRest, NextIsNone, Becomes, Send,
         SendFails
<1> QED
  BY <1>1, <1>2, <1>3, <1>4, <1>5 DEF Next, Client

\* The frame that begins where frame k ends is the next one.
LEMMA NextFrame ==
    ASSUME TypeOK, Layout, NEW i \in DOMAIN stream, NEW k \in 0 .. Len(stream),
           stream[i].from = EndOf(k)
    PROVE  i = k + 1
<1>1. DOMAIN stream = 1 .. Len(stream) /\ Len(stream) \in Nat
  BY DEF TypeOK
<1>2. \A j \in DOMAIN stream : stream[j].from \in Nat /\ stream[j].to \in Nat
  <2>1. \A j \in DOMAIN stream : stream[j] \in Frame
    BY DEF TypeOK
  <2> QED
    BY <2>1 DEF Frame
<1>3. \A j \in DOMAIN stream : stream[j].from = EndOf(j - 1) /\ stream[j].from < stream[j].to
  BY DEF Layout
<1>4. \A j, l \in DOMAIN stream : j < l => stream[j].to <= stream[l].from
  BY DEF Layout
<1>5. CASE i <= k
  <2>1. k \in DOMAIN stream /\ EndOf(k) = stream[k].to
    BY <1>1, <1>5 DEF EndOf
  <2>2. stream[i].from < stream[k].to
    <3>1. CASE i = k
      BY <1>3, <3>1
    <3>2. CASE i < k
      BY <1>2, <1>3, <1>4, <2>1, <3>2
    <3> QED
      BY <1>1, <1>5, <3>1, <3>2
  <2> QED
    BY <1>2, <2>1, <2>2
<1>6. CASE i > k + 1
  <2>1. k + 1 \in DOMAIN stream
    BY <1>1, <1>6
  <2>2. stream[k + 1].from = EndOf(k)
    BY <1>1, <1>3, <2>1
  <2>3. stream[k + 1].to <= stream[i].from
    BY <1>4, <1>6, <2>1
  <2> QED
    BY <1>2, <1>3, <2>1, <2>2, <2>3
<1> QED
  BY <1>1, <1>5, <1>6

-----------------------------------------------------------------------------
(* The codec and the handler                                               *)

\* The commands the loop has taken out of the byte stream, with those the
\* handler has received.
Taken == got \o inq \o hand

\* The second part of Framed.
InStep ==
    /\ IsPrefix(Taken, stream)
    /\ pos = EndOf(Len(Taken))
    /\ \A i \in DOMAIN Taken : Taken[i].kind = "command"

\* Framed in two parts: what the handler got, and where the codec stands.
LEMMA FramedParts ==
    /\ Framed <=> IsPrefix(got, stream) /\ (rx => InStep)
    /\ Framed' <=> IsPrefix(got', stream') /\ (rx' => InStep')
BY DEF Framed, InStep, Taken

\* What has left the codec is a sequence of frames.
LEMMA TakenType == TypeOK => Taken \in Seq(Frame) /\ Len(Taken) \in Nat
BY DEF TypeOK, Taken

\* At first nothing is read or decoded.
LEMMA FramedInit == Init => Framed
<1> SUFFICES ASSUME Init PROVE Framed
  OBVIOUS
<1>1. got = <<>> /\ stream = <<>> /\ pos = 0 /\ Taken = <<>>
  <2>1. <<>> \o <<>> = <<>>
    OBVIOUS
  <2> QED
    BY <2>1 DEF Init, Taken
<1>2. IsPrefix(<<>>, <<>>) /\ Len(<<>>) = 0 /\ DOMAIN <<>> = {}
  BY DEF IsPrefix
<1> QED
  BY <1>1, <1>2, FramedParts DEF InStep, EndOf

\* What is written later changes nothing for the frames there are.
LEMMA FramedWrite ==
    ASSUME TypeOK, Framed, NEW frame \in Frame, stream' = Append(stream, frame),
           UNCHANGED <<loop, channel>>
    PROVE  Framed'
<1>1. stream \in Seq(Frame) /\ got \in Seq(Frame)
  BY DEF TypeOK
<1>2. Taken' = Taken /\ got' = got /\ rx' = rx /\ pos' = pos
  BY DEF Taken, loop, channel
<1>3. IsPrefix(got', stream')
  BY <1>1, <1>2, PrefixOfAppend, FramedParts
<1>4. ASSUME rx PROVE InStep'
  <2>1. InStep
    BY <1>4, FramedParts
  <2>2. IsPrefix(Taken, stream')
    BY <1>1, <2>1, TakenType, PrefixOfAppend DEF InStep
  <2>3. Len(Taken) <= Len(stream) /\ Len(Taken) \in Nat
    BY <2>1, TakenType DEF InStep, IsPrefix
  <2>4. EndOf(Len(Taken))' = EndOf(Len(Taken))
    BY <1>1, <1>2, <2>3 DEF EndOf
  <2> QED
    BY <1>2, <2>1, <2>2, <2>4 DEF InStep
<1> QED
  BY <1>2, <1>3, <1>4, FramedParts

\* The codec takes the frame behind the last one it took, and no other.
LEMMA FramedDecode ==
    ASSUME TypeOK, Layout, Framed, NEW i \in DOMAIN stream, DecodeOk(i)
    PROVE  Framed'
<1>1. /\ stream \in Seq(Frame) /\ got \in Seq(Frame) /\ inq \in Seq(Frame)
      /\ stream[i] \in Frame
  BY DEF TypeOK
<1>2. /\ hand = <<>> /\ hand' = <<stream[i]>> /\ pos' = stream[i].to
      /\ stream' = stream /\ got' = got /\ inq' = inq /\ rx' = rx
      /\ stream[i].kind = "command" /\ stream[i].from = pos
  BY DEF DecodeOk, InNext, DecodesCommand, Buffered, socket, channel
<1>3. ASSUME rx PROVE InStep'
  <2>1. InStep
    BY <1>3, FramedParts
  <2>2. Len(Taken) \in 0 .. Len(stream)
    BY <1>1, <2>1, TakenType DEF InStep, IsPrefix
  <2>3. i = Len(Taken) + 1
    BY <1>2, <2>1, <2>2, NextFrame DEF InStep
  <2>4. Taken' = Append(Taken, stream[i])
    BY <1>1, <1>2 DEF Taken
  <2>5. Len(Taken') = Len(Taken) + 1
    BY <1>1, <2>4, TakenType
  <2>6. IsPrefix(Taken', stream)
    <3>1. Len(Taken) + 1 <= Len(stream)
      BY <1>1, <2>3
    <3> QED
      BY <1>1, <2>1, <2>3, <2>4, <3>1, TakenType, PrefixGrows DEF InStep
  <2>7. pos' = EndOf(Len(Taken))'
    BY <1>2, <2>2, <2>3, <2>5 DEF EndOf
  <2>8. \A k \in DOMAIN Taken' : Taken'[k].kind = "command"
    <3>1. \A k \in 1 .. Len(Taken) : Taken[k].kind = "command"
      BY <2>1, TakenType DEF InStep
    <3>2. /\ DOMAIN Taken' = 1 .. Len(Taken) + 1
          /\ \A k \in 1 .. Len(Taken) : Taken'[k] = Taken[k]
          /\ Taken'[Len(Taken) + 1] = stream[i]
      BY <1>1, <2>4, TakenType
    <3> QED
      BY <1>2, <3>1, <3>2, TakenType
  <2> QED
    BY <1>2, <2>6, <2>7, <2>8 DEF InStep
<1> QED
  BY <1>2, <1>3, FramedParts

\* Every step keeps the codec on the border of a frame.
LEMMA FramedStep == TypeOK /\ Layout /\ Framed /\ [Next]_vars => Framed'
<1> SUFFICES ASSUME TypeOK, Layout, Framed, [Next]_vars PROVE Framed'
  OBVIOUS
<1>t. /\ stream \in Seq(Frame) /\ got \in Seq(Frame) /\ inq \in Seq(Frame)
      /\ hand \in Seq(Frame)
  BY DEF TypeOK
<1>1. CASE Client
  <2>1. ASSUME NEW kind \in Kinds, NEW len \in Lengths, NEW part, ClientWrites(kind, len, part)
        PROVE  Framed'
    <3> DEFINE frame == [kind |-> kind, from |-> written, to |-> written + len]
    <3>1. frame \in Frame
      BY LengthsArePositive DEF Frame, TypeOK
    <3>2. stream' = Append(stream, frame) /\ UNCHANGED <<loop, channel>>
      BY <2>1 DEF ClientWrites
    <3> QED
      BY <3>1, <3>2, FramedWrite
  <2>2. CASE ClientCloses \/ ConnectionResets
    BY <2>2 DEF ClientCloses, ConnectionResets, loop, channel, Framed, EndOf
  <2> QED
    BY <1>1, <2>1, <2>2 DEF Client, Kinds
<1>2. ASSUME NEW i \in DOMAIN stream, DecodeOk(i) PROVE Framed'
  BY <1>2, FramedDecode
<1>3. CASE Send
  <2>1. got' = got /\ inq' = inq \o hand /\ hand' = <<>>
    BY <1>3 DEF Send
  <2>2. (got \o (inq \o hand)) \o <<>> = (got \o inq) \o hand
    BY <1>t, ConcatenationGroups, SMTT(30)
  <2>3. Taken' = Taken
    BY <2>1, <2>2 DEF Taken
  <2> QED
    BY <1>3, <2>3, FramedParts DEF Send, InStep, EndOf, socket
<1>4. CASE SendFails
  BY <1>4, FramedParts DEF SendFails, socket, channel
<1>5. CASE HandlerRecv
  <2>1. /\ got' = Append(got, Head(inq)) /\ inq' = Tail(inq) /\ inq # <<>> /\ rx
        /\ hand' = hand /\ stream' = stream /\ pos' = pos /\ rx' = rx
    BY <1>5 DEF HandlerRecv, socket, loop
  <2>2. Head(inq) \in Frame /\ Tail(inq) \in Seq(Frame) /\ got' \in Seq(Frame)
    BY <1>t, <2>1
  <2>3. got' \o inq' = got \o inq
    <3>1. Append(got, Head(inq)) \o Tail(inq) = got \o inq
      BY <1>t, <2>1, HandOn
    <3> QED
      BY <2>1, <3>1, Zenon
  <2>4. Taken' = Taken
    BY <2>1, <2>3 DEF Taken
  <2>5. InStep'
    BY <2>1, <2>4, FramedParts DEF InStep, EndOf
  <2>6. IsPrefix(got', stream')
    <3>1. inq' \o hand' \in Seq(Frame)
      BY <1>t, <2>1, <2>2
    <3>2. Taken' = got' \o (inq' \o hand')
      <4>1. got' \in Seq(Frame) /\ inq' \in Seq(Frame) /\ hand' \in Seq(Frame)
        BY <1>t, <2>1, <2>2
      <4>2. (got' \o inq') \o hand' = got' \o (inq' \o hand')
        BY <4>1, ConcatAssociates
      <4> QED
        BY <4>2 DEF Taken
    <3> QED
      BY <1>t, <2>1, <2>2, <2>5, <3>1, <3>2, PrefixOfPrefix DEF InStep
  <2> QED
    BY <2>5, <2>6, FramedParts
<1>6. CASE HandlerEnds
  BY <1>6, FramedParts DEF HandlerEnds, socket
<1>7. CASE UNCHANGED <<stream, pos, hand, inq, rx, got>>
  BY <1>7 DEF Framed, EndOf
<1>8. ASSUME \/ \E n \in 1 .. written - read : Fill(n)
             \/ FillEof \/ FillFails \/ DecodeErr \/ DecodeNone \/ DecodeRest \/ NextIsNone
             \/ UNCHANGED vars
      PROVE  UNCHANGED <<stream, pos, hand, inq, rx, got>>
  BY <1>8 DEF vars, socket, loop, channel, Fill, FillEof, FillFails, DecodeErr, DecodeNone,
         DecodeRest, NextIsNone, Becomes
<1> QED
  BY <1>1, <1>2, <1>3, <1>4, <1>5, <1>6, <1>7, <1>8 DEF Next, Loop

-----------------------------------------------------------------------------
(* What is left in the buffer                                              *)

\* The codec has consumed the first m frames, commands all of them.
Border(m) ==
    /\ m \in 0 .. Len(stream) /\ pos = EndOf(m)
    /\ \A i \in 1 .. m : stream[i].kind = "command"

\* The codec will get no further, whatever the handler does.
Blocked == DecodesError \/ (closed /\ read = written /\ DecodesNone)

\* Why FramedRead is in the state it is in.
Reasons ==
    /\ fr = "reading" => hand = <<>> /\ DecodesNone
    /\ fr = "eof" => closed /\ read = written
    /\ fr \in {"errored", "ended"} => hand = <<>> /\ (reset \/ Blocked)

\* The strengthening of RestsWhenDone: unlike Framed it goes on after the
\* handler has ended.
Progress == (\E m \in 0 .. Len(stream) : Border(m)) /\ Reasons

\* The start and the end of a frame are numbers.
LEMMA FrameNumbers ==
    TypeOK => /\ DOMAIN stream = 1 .. Len(stream) /\ Len(stream) \in Nat
              /\ \A i \in DOMAIN stream : stream[i].from \in Nat /\ stream[i].to \in Nat
<1> SUFFICES ASSUME TypeOK
             PROVE  /\ DOMAIN stream = 1 .. Len(stream) /\ Len(stream) \in Nat
                    /\ \A i \in DOMAIN stream : stream[i].from \in Nat /\ stream[i].to \in Nat
  OBVIOUS
<1>1. DOMAIN stream = 1 .. Len(stream) /\ Len(stream) \in Nat
  BY DEF TypeOK
<1>2. \A i \in DOMAIN stream : stream[i] \in Frame
  BY DEF TypeOK
<1> QED
  BY <1>1, <1>2 DEF Frame

\* At first the buffer is empty.
LEMMA ProgressInit == Init => Progress
<1> SUFFICES ASSUME Init PROVE Progress
  OBVIOUS
<1>1. stream = <<>> /\ pos = 0 /\ fr = "reading" /\ hand = <<>>
  BY DEF Init
<1>2. 0 \in 0 .. Len(stream) /\ Border(0)
  BY <1>1 DEF Border, EndOf
<1>3. DOMAIN stream = {}
  BY <1>1
<1>4. DecodesNone
  BY <1>3 DEF DecodesNone, DecodesError
<1> QED
  BY <1>1, <1>2, <1>4 DEF Progress, Reasons

\* What the codec makes of the buffer depends on these variables alone.
LEMMA SameBuffer ==
    ASSUME UNCHANGED <<stream, read, pos>>
    PROVE  /\ DecodesNone' = DecodesNone /\ DecodesError' = DecodesError
           /\ \A m : Border(m)' = Border(m)
BY DEF DecodesNone, DecodesError, DecodesCommand, Buffered, Border, EndOf

\* A frame that is written now is not in the buffer yet: the codec still makes
\* the same of it.
LEMMA WriteProgress ==
    ASSUME TypeOK, Layout, Progress, NEW kind \in Kinds, NEW len \in Lengths,
           NEW part \in 1 .. len, ClientWrites(kind, len, part)
    PROVE  Progress'
<1> DEFINE frame == [kind |-> kind, from |-> written, to |-> written + len]
           n     == Len(stream)
<1>1. /\ len \in Nat \ {0} /\ written \in Nat /\ read \in Nat /\ read <= written
      /\ n \in Nat /\ stream \in Seq(Frame) /\ DOMAIN stream = 1 .. n
  BY LengthsArePositive DEF TypeOK
<1>2. /\ ~closed /\ reset' = reset
      /\ read' = read /\ pos' = pos /\ fr' = fr /\ hand' = hand
  BY DEF ClientWrites, loop
<1>3. frame \in Frame /\ frame.to = written + len
  BY <1>1 DEF Frame
<1>4. /\ stream' = Append(stream, frame) /\ Len(stream') = n + 1
      /\ DOMAIN stream' = 1 .. n + 1
      /\ \A i \in 1 .. n : stream'[i] = stream[i]
      /\ stream'[n + 1] = frame
  BY <1>1, <1>3 DEF ClientWrites
<1> HIDE DEF frame, n
<1>5. ~(stream'[n + 1].to <= read')
  BY <1>1, <1>2, <1>3, <1>4
<1>6. \A i \in 1 .. n, k \in Kinds : Buffered(i, k)' <=> Buffered(i, k)
  BY <1>2, <1>4 DEF Buffered
<1>7. \A i \in {n + 1}, k \in Kinds : ~Buffered(i, k)'
  BY <1>5 DEF Buffered
<1>8. 1 .. n + 1 = (1 .. n) \cup {n + 1}
  BY <1>1
<1>9. DecodesError' <=> DecodesError
  BY <1>1, <1>4, <1>6, <1>7, <1>8 DEF DecodesError, Kinds
<1>10. DecodesNone' <=> DecodesNone
  <2>1. (\A i \in 1 .. n + 1 : ~DecodesCommand(i)') <=> \A i \in 1 .. n : ~DecodesCommand(i)
    BY <1>6, <1>7, <1>8 DEF DecodesCommand, Kinds
  <2> QED
    BY <1>1, <1>4, <1>9, <2>1 DEF DecodesNone
<1>11. \E m \in 0 .. Len(stream') : Border(m)'
  <2>1. PICK m \in 0 .. n : Border(m)
    BY DEF Progress, n
  <2>2. m \in 0 .. n + 1 /\ \A i \in 1 .. m : stream'[i] = stream[i]
    BY <1>1, <1>4, <2>1
  <2>3. EndOf(m)' = EndOf(m)
    BY <1>1, <2>1, <2>2 DEF EndOf
  <2> QED
    BY <1>2, <1>4, <2>1, <2>2, <2>3 DEF Border
<1>12. Reasons'
  <2>1. fr = "eof" => FALSE
    BY <1>2 DEF Progress, Reasons
  <2>2. Blocked => Blocked'
    BY <1>2, <1>9 DEF Blocked
  <2> QED
    BY <1>2, <1>10, <2>1, <2>2 DEF Progress, Reasons
<1> QED
  BY <1>11, <1>12 DEF Progress

\* A frame is not empty: at the end of the buffer there is none.
LEMMA EmptyBuffer == TypeOK /\ Layout /\ pos = read => DecodesNone
<1> SUFFICES ASSUME TypeOK, Layout, pos = read PROVE DecodesNone
  OBVIOUS
<1>1. \A i \in DOMAIN stream : stream[i].from < stream[i].to
  BY DEF Layout
<1>2. read \in Nat
  BY DEF TypeOK
<1>3. ASSUME NEW i \in DOMAIN stream, stream[i].from = pos, stream[i].to <= read PROVE FALSE
  BY <1>1, <1>2, <1>3, FrameNumbers
<1> QED
  BY <1>3 DEF DecodesNone, DecodesError, DecodesCommand, Buffered

\* The codec takes the next frame: one more, and it is a command.
LEMMA DecodeProgress ==
    ASSUME TypeOK, Layout, Progress, NEW i \in DOMAIN stream, DecodeOk(i)
    PROVE  Progress'
<1>1. /\ fr \in {"readable", "eof"} /\ fr' = fr /\ pos' = stream[i].to
      /\ stream' = stream /\ closed' = closed /\ read' = read /\ written' = written
      /\ stream[i].kind = "command" /\ stream[i].from = pos
  BY DEF DecodeOk, InNext, DecodesCommand, Buffered, socket
<1>2. PICK m \in 0 .. Len(stream) : Border(m)
  BY DEF Progress
<1>3. i = m + 1
  BY <1>1, <1>2, NextFrame DEF Border
<1>4. m + 1 \in 0 .. Len(stream) /\ m \in Nat /\ m + 1 # 0
  BY <1>2, <1>3, FrameNumbers
<1>5. EndOf(m + 1)' = stream[i].to
  BY <1>1, <1>3, <1>4 DEF EndOf
<1>6. \A k \in 1 .. m + 1 : stream[k].kind = "command"
  <2>1. \A k \in 1 .. m : stream[k].kind = "command"
    BY <1>2 DEF Border
  <2>2. \A k \in 1 .. m + 1 : k \in 1 .. m \/ k = m + 1
    BY <1>4
  <2> QED
    BY <1>1, <1>3, <2>1, <2>2
<1>7. Border(m + 1)'
  BY <1>1, <1>4, <1>5, <1>6 DEF Border
<1>8. Reasons'
  BY <1>1 DEF Progress, Reasons
<1> QED
  BY <1>1, <1>4, <1>7, <1>8 DEF Progress

\* FramedRead gets into a state only for its reason.
LEMMA ProgressStep == TypeOK /\ Layout /\ Progress /\ [Next]_vars => Progress'
<1> SUFFICES ASSUME TypeOK, Layout, Progress, [Next]_vars PROVE Progress'
  OBVIOUS
<1> USE DEF socket, loop, channel
<1>1. ASSUME NEW len \in Lengths, NEW kind \in Kinds, ClientWrites(kind, len, len)
      PROVE  Progress'
  <2>1. len \in 1 .. len
    BY LengthsArePositive
  <2> QED
    BY <1>1, <2>1, WriteProgress
<1>2. ASSUME NEW len \in Lengths, NEW part \in 1 .. len - 1, ClientWrites("command", len, part)
      PROVE  Progress'
  <2>1. part \in 1 .. len /\ "command" \in Kinds
    BY LengthsArePositive DEF Kinds
  <2> QED
    BY <1>2, <2>1, WriteProgress
<1>3. ASSUME UNCHANGED <<stream, read, pos>>, Reasons' PROVE Progress'
  BY <1>3, SameBuffer DEF Progress
<1>4. ASSUME NEW n \in 1 .. written - read, Fill(n) PROVE Progress'
  <2>1. fr' = "readable" /\ stream' = stream /\ pos' = pos
    BY <1>4 DEF Fill
  <2>2. Reasons'
    BY <2>1 DEF Reasons
  <2>3. \A m : Border(m)' = Border(m)
    BY <2>1 DEF Border, EndOf
  <2> QED
    BY <2>1, <2>2, <2>3 DEF Progress
<1>5. ASSUME NEW i \in DOMAIN stream, DecodeOk(i) PROVE Progress'
  BY <1>5, DecodeProgress
<1>6. ASSUME ClientCloses \/ ConnectionResets \/ HandlerRecv \/ HandlerEnds
             \/ Send \/ SendFails \/ UNCHANGED vars
      PROVE  Progress'
  <2>1. /\ UNCHANGED <<stream, read, pos, written, fr>>
        /\ closed => closed' = closed
        /\ reset => reset'
        /\ hand' = hand \/ hand' = <<>>
    BY <1>6 DEF ClientCloses, ConnectionResets, HandlerRecv, HandlerEnds, Send, SendFails, vars
  <2>2. Reasons'
    BY <2>1, SameBuffer DEF Progress, Reasons, Blocked
  <2> QED
    BY <1>3, <2>1, <2>2
<1>7. ASSUME FillEof \/ FillFails \/ DecodeErr \/ DecodeNone \/ DecodeRest \/ NextIsNone
      PROVE  Progress'
  <2>1. UNCHANGED <<stream, read, pos, written, closed, reset, hand>> /\ hand = <<>>
    BY <1>7 DEF FillEof, FillFails, DecodeErr, DecodeNone, DecodeRest, NextIsNone, Becomes, InNext
  <2>2. Reasons
    BY DEF Progress
  <2>3. DecodesNone' = DecodesNone /\ DecodesError' = DecodesError
    BY <2>1, SameBuffer
  <2>4. ASSUME FillEof PROVE Reasons'
    BY <2>1, <2>4 DEF FillEof, Becomes, Reasons
  <2>5. ASSUME FillFails PROVE Reasons'
    BY <2>1, <2>5 DEF FillFails, Becomes, Reasons
  <2>6. ASSUME DecodeErr PROVE Reasons'
    BY <2>1, <2>3, <2>6 DEF DecodeErr, Becomes, Reasons, Blocked
  <2>7. ASSUME DecodeNone PROVE Reasons'
    BY <2>1, <2>3, <2>7 DEF DecodeNone, Becomes, Reasons
  <2>8. ASSUME DecodeRest PROVE Reasons'
    BY <2>1, <2>2, <2>3, <2>8 DEF DecodeRest, Becomes, Reasons, Blocked, InNext
  <2>9. ASSUME NextIsNone PROVE Reasons'
    <3>1. fr' = "ended" /\ (fr = "errored" \/ (fr = "eof" /\ pos = read))
      BY <2>9 DEF NextIsNone, Becomes, InNext
    <3>2. fr = "errored" => reset \/ Blocked
      BY <2>2 DEF Reasons
    <3>3. fr = "eof" /\ pos = read => Blocked
      BY <2>2, EmptyBuffer DEF Reasons, Blocked
    <3>4. Blocked => Blocked'
      BY <2>1, <2>3 DEF Blocked
    <3> QED
      BY <2>1, <3>1, <3>2, <3>3, <3>4 DEF Reasons
  <2>10. Reasons'
    BY <1>7, <2>4, <2>5, <2>6, <2>7, <2>8, <2>9
  <2> QED
    BY <1>3, <2>1, <2>10
<1> QED
  BY <1>1, <1>2, <1>4, <1>5, <1>6, <1>7 DEF Next, Client, Loop

-----------------------------------------------------------------------------
(* The loop at rest                                                        *)

\* Where the loop can be when nothing is ready: it waits for bytes that the
\* client has not written, or it has ended; nothing is on its way.
LEMMA AtRest ==
    ASSUME TypeOK, ~Ready
    PROVE  /\ hand = <<>>
           /\ rx => inq = <<>>
           /\ fr = "ended" \/ (fr = "reading" /\ ~reset /\ ~closed /\ read = written)
<1>1. rx => inq = <<>>
  BY DEF Ready
<1>2. hand = <<>>
  <2>1. SUFFICES ASSUME hand # <<>> PROVE FALSE
    OBVIOUS
  <2>2. rx /\ ~(Len(inq) < InCap)
    BY <2>1 DEF Ready
  <2> QED
    BY <1>1, <2>2, LengthsArePositive
<1>3. fr \in {"reading", "ended"}
  BY <1>2 DEF Ready, InNext, TypeOK
<1>4. fr = "reading" => ~reset /\ ~closed /\ ~(read < written)
  BY <1>2 DEF Ready, InNext
<1>5. read \in 0 .. written /\ written \in Nat
  BY DEF TypeOK
<1>6. ~(read < written) => read = written
  BY <1>5
<1> QED
  BY <1>1, <1>2, <1>3, <1>4, <1>6

\* The codec makes nothing of the buffer, which has every byte: then it has
\* taken all of the commands in front of the first frame that is none.
LEMMA AllTaken ==
    ASSUME TypeOK, Layout, DecodesNone, read = written,
           NEW m \in 0 .. Len(stream), Border(m), NEW k \in Nat, CommandsUpTo(k)
    PROVE  k <= m
<1>1. SUFFICES ASSUME m < k PROVE FALSE
  OBVIOUS
<1>2. k <= Len(stream) /\ EndOf(k) <= written /\ \A i \in 1 .. k : stream[i].kind = "command"
  BY DEF CommandsUpTo
<1>3. m \in Nat /\ m + 1 \in 1 .. k /\ m + 1 \in DOMAIN stream /\ k \in DOMAIN stream
  BY <1>1, <1>2, FrameNumbers
<1>4. stream[m + 1].from = pos
  BY <1>3 DEF Layout, Border
<1>5. EndOf(k) = stream[k].to
  BY <1>3 DEF EndOf
<1>6. stream[m + 1].to <= stream[k].to
  <2>1. CASE m + 1 = k
    BY <1>3, <2>1, FrameNumbers
  <2>2. CASE m + 1 < k
    <3>1. stream[m + 1].to <= stream[k].from /\ stream[k].from < stream[k].to
      BY <1>3, <2>2 DEF Layout
    <3> QED
      BY <1>3, <3>1, FrameNumbers
  <2> QED
    BY <1>3, <2>1, <2>2
<1>7. stream[m + 1].to <= read
  <2>1. stream[m + 1].to \in Nat /\ stream[k].to \in Nat /\ written \in Nat
    BY <1>3, FrameNumbers DEF TypeOK
  <2> QED
    BY <1>2, <1>5, <1>6, <2>1
<1>8. DecodesCommand(m + 1)
  BY <1>2, <1>3, <1>4, <1>7 DEF DecodesCommand, Buffered
<1> QED
  BY <1>3, <1>8 DEF DecodesNone

\* At rest the codec has taken every command it will ever get, or the connection
\* is broken.
LEMMA RestTakesAll ==
    ASSUME TypeOK, Layout, Progress, ~Ready, ~reset,
           NEW m \in 0 .. Len(stream), Border(m), NEW k \in Nat, CommandsUpTo(k)
    PROVE  k <= m
<1>1. CASE DecodesNone /\ read = written
  BY <1>1, AllTaken
<1>2. CASE DecodesError
  <2>1. PICK i \in DOMAIN stream : Buffered(i, "garbage")
    BY <1>2 DEF DecodesError
  <2>2. stream[i].kind = "garbage" /\ i = m + 1
    BY <2>1, NextFrame DEF Buffered, Border
  <2>3. ~(i \in 1 .. k)
    BY <2>2 DEF CommandsUpTo
  <2> QED
    BY <2>2, <2>3, FrameNumbers
<1> QED
  BY <1>1, <1>2, AtRest DEF Progress, Reasons, Blocked

\* At rest the handler has every command, and a client that is gone or sends
\* garbage has ended the loop.
LEMMA RestIsDone == TypeOK /\ Layout /\ Framed /\ Progress => RestsWhenDone
<1> SUFFICES ASSUME TypeOK, Layout, Framed, Progress, ~Ready
             PROVE  /\ closed \/ reset => fr = "ended"
                    /\ rx /\ ~reset => \A k \in 1 .. MaxFrames : CommandsUpTo(k) => Len(got) >= k
                    /\ \A k \in 1 .. MaxFrames : FirstBad(k, "garbage") => fr = "ended"
  BY DEF RestsWhenDone
<1>1. closed \/ reset => fr = "ended"
  BY AtRest
<1>2. ASSUME rx, ~reset, NEW k \in 1 .. MaxFrames, CommandsUpTo(k) PROVE Len(got) >= k
  <2>1. InStep
    BY <1>2, FramedParts
  <2>2. Taken = got
    <3>1. hand = <<>> /\ inq = <<>> /\ got \in Seq(Frame)
      BY <1>2, AtRest DEF TypeOK
    <3> QED
      BY <3>1 DEF Taken
  <2>3. Len(got) \in 0 .. Len(stream)
    BY <2>1, <2>2, TakenType, FrameNumbers DEF InStep, IsPrefix
  <2>4. Border(Len(got))
    <3>1. \A i \in 1 .. Len(got) : stream[i] = got[i]
      BY <2>1, <2>2 DEF InStep, IsPrefix
    <3>2. \A i \in 1 .. Len(got) : got[i].kind = "command"
      BY <2>1, <2>2, TakenType DEF InStep
    <3> QED
      BY <2>1, <2>2, <2>3, <3>1, <3>2 DEF InStep, Border
  <2>5. k \in Nat
    BY LengthsArePositive
  <2>6. k <= Len(got)
    <3> DEFINE m == Len(got)
    <3>1. m \in 0 .. Len(stream) /\ Border(m)
      BY <2>3, <2>4
    <3> HIDE DEF m
    <3>2. k <= m
      BY <1>2, <2>5, <3>1, RestTakesAll
    <3> QED
      BY <3>2 DEF m
  <2> QED
    BY <2>3, <2>5, <2>6
<1>3. ASSUME NEW k \in 1 .. MaxFrames, FirstBad(k, "garbage"), fr # "ended" PROVE FALSE
  <2>1. ~reset /\ ~closed /\ read = written /\ DecodesNone
    BY <1>3, AtRest DEF Progress, Reasons
  <2>2. PICK m \in 0 .. Len(stream) : Border(m)
    BY DEF Progress
  <2>3. k \in Nat /\ k - 1 \in Nat /\ k \in DOMAIN stream /\ m \in Nat
    BY <1>3, LengthsArePositive, FrameNumbers DEF FirstBad
  <2>4. k - 1 <= m
    <3> DEFINE j == k - 1
    <3>1. j \in Nat /\ CommandsUpTo(j)
      BY <1>3, <2>3 DEF FirstBad
    <3> HIDE DEF j
    <3>2. j <= m
      BY <2>1, <2>2, <3>1, AllTaken
    <3> QED
      BY <3>2 DEF j
  <2>5. ~(k <= m)
    BY <1>3, <2>2, <2>3 DEF FirstBad, Border
  <2>6. k = m + 1
    BY <2>3, <2>4, <2>5
  <2>7. stream[k].from = pos /\ stream[k].to <= read
    BY <2>1, <2>2, <2>3, <2>6 DEF Layout, Border
  <2> QED
    BY <1>3, <2>1, <2>3, <2>7 DEF FirstBad, DecodesNone, DecodesError, Buffered
<1> QED
  BY <1>1, <1>2, <1>3

-----------------------------------------------------------------------------
(* No livelock                                                             *)

\* What FramedRead still has to go through.
Phase ==
    CASE fr = "readable" -> 4 [] fr = "reading" -> 3 [] fr = "eof" -> 2
      [] fr = "errored"  -> 1 [] fr = "ended"   -> 0

\* What is left is a number.
LEMMA RankIsNat ==
    TypeOK => /\ Rank \in Nat /\ Phase \in 0 .. 4
              /\ Rank = 3 * (written - pos) + 2 * (written - read) + 2 * Len(hand) + Len(inq) + Phase
<1> SUFFICES ASSUME TypeOK
             PROVE  /\ Rank \in Nat /\ Phase \in 0 .. 4
                    /\ Rank = 3 * (written - pos) + 2 * (written - read)
                              + 2 * Len(hand) + Len(inq) + Phase
  OBVIOUS
<1>1. Phase \in 0 .. 4
  BY DEF TypeOK, Phase
<1>2. /\ written \in Nat /\ read \in 0 .. written /\ pos \in 0 .. read
      /\ Len(hand) \in Nat /\ Len(inq) \in Nat
  BY DEF TypeOK
<1>3. Rank = 3 * (written - pos) + 2 * (written - read) + 2 * Len(hand) + Len(inq) + Phase
  BY DEF Rank, Phase
<1> HIDE DEF Phase
<1> QED
  BY <1>1, <1>2, <1>3

\* The arithmetic of a step that reads no byte.
LEMMA LessToDo ==
    ASSUME NEW w \in Nat, NEW r \in 0 .. w, NEW p \in 0 .. r, NEW p1 \in 0 .. r,
           NEW h \in Nat, NEW q \in Nat, NEW f \in Nat,
           NEW h1 \in Nat, NEW q1 \in Nat, NEW f1 \in Nat,
           p <= p1, 2 * h1 + q1 + f1 < 2 * h + q + f + 3 * (p1 - p)
    PROVE  3 * (w - p1) + 2 * (w - r) + 2 * h1 + q1 + f1
             < 3 * (w - p) + 2 * (w - r) + 2 * h + q + f
OBVIOUS

\* The distance between two numbers.
LEMMA Gap == ASSUME NEW a \in Nat, NEW b \in Nat, a < b PROVE b - a \in Int /\ b - a >= 1
OBVIOUS

\* A send has one command in hand.
LEMMA OneInHand == TypeOK /\ hand # <<>> => Len(hand) = 1
<1> SUFFICES ASSUME TypeOK, hand # <<>> PROVE Len(hand) = 1
  OBVIOUS
<1> DEFINE h == Len(hand)
<1>1. hand \in Seq(Frame) /\ h <= 1 /\ h \in Nat
  BY DEF TypeOK
<1>2. h # 0
  BY <1>1
<1> HIDE DEF h
<1>3. h = 1
  BY <1>1, <1>2
<1> QED
  BY <1>3 DEF h

\* Every step of the loop and of the handler leaves less to do.
LEMMA RankStep == TypeOK /\ Layout /\ TypeOK' /\ (Loop \/ HandlerRecv) => Rank' < Rank
<1> SUFFICES ASSUME TypeOK, Layout, TypeOK', Loop \/ HandlerRecv PROVE Rank' < Rank
  OBVIOUS
<1> DEFINE h  == Len(hand)
           q  == Len(inq)
           f  == Phase
           h1 == Len(hand')
           q1 == Len(inq')
           f1 == Phase'
<1>1. /\ written \in Nat /\ read \in 0 .. written /\ pos \in 0 .. read /\ h \in Nat /\ q \in Nat
      /\ written' \in Nat /\ read' \in 0 .. written' /\ pos' \in 0 .. read'
      /\ h1 \in Nat /\ q1 \in Nat
  BY DEF TypeOK
<1>2. f \in Nat /\ f1 \in Nat
  BY DEF TypeOK, Phase
<1>3. /\ Rank  = 3 * (written - pos) + 2 * (written - read) + 2 * h + q + f
      /\ Rank' = 3 * (written' - pos') + 2 * (written' - read') + 2 * h1 + q1 + f1
  BY DEF Rank, Phase
<1>4. written' = written
  BY DEF Loop, HandlerRecv, socket, Fill, FillEof, FillFails, DecodeOk, DecodeErr, DecodeNone,
         DecodeRest, NextIsNone, Becomes, Send, SendFails
<1>5. ASSUME read' = read, pos <= pos', 2 * h1 + q1 + f1 < 2 * h + q + f + 3 * (pos' - pos)
      PROVE  Rank' < Rank
  <2> HIDE DEF h, q, f, h1, q1, f1
  <2>1. pos' \in 0 .. read
    BY <1>1, <1>5
  <2>2. 3 * (written - pos') + 2 * (written - read) + 2 * h1 + q1 + f1
          < 3 * (written - pos) + 2 * (written - read) + 2 * h + q + f
    BY <1>1, <1>2, <1>5, <2>1, LessToDo
  <2> QED
    BY <1>3, <1>4, <1>5, <2>2
<1> USE DEF socket, loop, channel
<1>6. CASE FillEof \/ FillFails \/ DecodeErr \/ DecodeNone \/ DecodeRest \/ NextIsNone
  <2>1. pos' = pos /\ read' = read /\ h1 = h /\ q1 = q
    BY <1>6 DEF FillEof, FillFails, DecodeErr, DecodeNone, DecodeRest, NextIsNone, Becomes
  <2>2. f1 < f
    BY <1>6 DEF FillEof, FillFails, DecodeErr, DecodeNone, DecodeRest, NextIsNone, Becomes,
                InNext, Phase
  <2> HIDE DEF h, q, f, h1, q1, f1
  <2>3. 2 * h1 + q1 + f1 < 2 * h + q + f + 3 * (pos' - pos) /\ pos <= pos'
    BY <1>1, <1>2, <2>1, <2>2
  <2> QED
    BY <1>5, <2>1, <2>3
<1>7. ASSUME NEW n \in 1 .. written - read, Fill(n) PROVE Rank' < Rank
  <2>1. pos' = pos /\ read' = read + n /\ h1 = h /\ q1 = q
    BY <1>7 DEF Fill
  <2>2. f = 3 /\ f1 = 4
    BY <1>7 DEF Fill, InNext, Phase
  <2> HIDE DEF h, q, f, h1, q1, f1
  <2> QED
    BY <1>1, <1>3, <1>4, <2>1, <2>2
<1>8. ASSUME NEW i \in DOMAIN stream, DecodeOk(i) PROVE Rank' < Rank
  <2>1. read' = read /\ h = 0 /\ h1 = 1 /\ q1 = q /\ f1 = f
    BY <1>8 DEF DecodeOk, InNext, Phase
  <2>2. pos < pos'
    <3>1. stream[i].from = pos /\ pos' = stream[i].to
      BY <1>8 DEF DecodeOk, DecodesCommand, Buffered
    <3>2. stream[i].from < stream[i].to
      BY DEF Layout
    <3> QED
      BY <1>1, <3>1, <3>2, FrameNumbers
  <2> HIDE DEF h, q, f, h1, q1, f1
  <2>3. 2 * h1 + q1 + f1 < 2 * h + q + f + 3 * (pos' - pos) /\ pos <= pos'
    <3>1. pos \in Nat /\ pos' \in Nat
      BY <1>1
    <3>2. pos <= pos'
      BY <2>2, <3>1
    <3> DEFINE d == pos' - pos
    <3>3. d \in Int /\ d >= 1
      BY <2>2, <3>1, Gap
    <3> HIDE DEF d
    <3>4. 2 * h1 + q1 + f1 < 2 * h + q + f + 3 * d
      BY <1>1, <1>2, <2>1, <3>3
    <3> QED
      BY <3>2, <3>4 DEF d
  <2> QED
    BY <1>5, <2>1, <2>3
<1>9. CASE Send \/ SendFails \/ HandlerRecv
  <2>1. pos' = pos /\ read' = read /\ f1 = f
    BY <1>9 DEF Send, SendFails, HandlerRecv, Phase
  <2>2. \/ h = 1 /\ h1 = 0 /\ q1 = q + 1
        \/ h = 1 /\ h1 = 0 /\ q1 = q
        \/ h1 = h /\ q1 = q - 1
    <3>1. CASE Send
      <4>1. h = 1
        BY <3>1, OneInHand DEF Send
      <4>2. h1 = 0 /\ q1 = q + h
        BY <3>1 DEF Send, TypeOK
      <4> QED
        BY <4>1, <4>2
    <3>2. CASE SendFails
      <4>1. h = 1
        BY <3>2, OneInHand DEF SendFails
      <4>2. h1 = 0 /\ q1 = q
        BY <3>2 DEF SendFails
      <4> QED
        BY <4>1, <4>2
    <3>3. CASE HandlerRecv
      BY <3>3 DEF HandlerRecv, TypeOK
    <3> QED
      BY <1>9, <3>1, <3>2, <3>3
  <2> HIDE DEF h, q, f, h1, q1, f1
  <2>3. 2 * h1 + q1 + f1 < 2 * h + q + f + 3 * (pos' - pos) /\ pos <= pos'
    BY <1>1, <1>2, <2>1, <2>2
  <2> QED
    BY <1>5, <2>1, <2>3
<1> QED
  BY <1>6, <1>7, <1>8, <1>9 DEF Loop

-----------------------------------------------------------------------------
(* The theorems                                                            *)

\* The invariant holds throughout.
LEMMA Invariance == Spec => []Inv
<1>1. Init => Inv
  BY TypeInit, LayoutInit, FramedInit DEF Inv
<1>2. Inv /\ [Next]_vars => Inv'
  BY TypeStep, LayoutStep, FramedStep DEF Inv
<1> QED
  BY <1>1, <1>2, PTL DEF Spec

\* The codec is never ahead of the buffer nor the buffer of the socket, and the
\* channel to the handler is never overfilled.
THEOREM TypesHold == Spec => []TypeOK
BY Invariance, PTL DEF Inv

\* For frames of any length and any cut of the bytes into pieces, the codec
\* stays on the border between two frames, and the handler gets the commands
\* once each and in order, up to the first frame that is none.
THEOREM FramedHolds == Spec => []Framed
BY Invariance, PTL DEF Inv

\* For frames of any length and channels of any capacity: the loop and the
\* handler come to rest only when every command has arrived, and the loop has
\* ended if the client is gone or has sent bytes that are no command.
THEOREM RestHolds == Spec => []RestsWhenDone
<1>1. Init => Inv /\ Progress
  BY TypeInit, LayoutInit, FramedInit, ProgressInit DEF Inv
<1>2. Inv /\ Progress /\ [Next]_vars => (Inv /\ Progress)'
  BY TypeStep, LayoutStep, FramedStep, ProgressStep DEF Inv
<1>3. Inv /\ Progress => RestsWhenDone
  BY RestIsDone DEF Inv
<1> QED
  BY <1>1, <1>2, <1>3, PTL DEF Spec

\* Every step of the loop and of the handler takes something off a natural
\* number: with a silent client they come to rest.
THEOREM NoLivelock == Spec => [](Rank \in Nat) /\ LoopWearsOff
<1>1. Inv => Rank \in Nat
  BY RankIsNat DEF Inv
<1>2. Inv /\ Inv' /\ [Next]_vars => [Loop \/ HandlerRecv => Rank' < Rank]_vars
  BY RankStep DEF Inv
<1> QED
  BY <1>1, <1>2, Invariance, PTL DEF Spec, LoopWearsOff

=============================================================================
