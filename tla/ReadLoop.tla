------------------------------ MODULE ReadLoop ------------------------------
(***************************************************************************)
(* The read loop of one connection: TcpAdapter::spawn_read_loop in         *)
(* lbroker/src/server.rs, with the Decoder of lbroker/src/interface.rs.    *)
(*                                                                         *)
(* The client writes one msgpack value after the other; the network hands  *)
(* the bytes over in pieces of any size.  FramedRead (tokio-util) collects *)
(* them in a buffer and asks the codec for a value.  Bytes are counted and *)
(* not spelled out: a frame is the stretch of the byte stream that a value *)
(* takes, and the codec sees the bytes from `pos` up to `read`.            *)
(***************************************************************************)
EXTENDS Integers, Sequences, SequencesExt

CONSTANTS
    Lengths,      \* lengths of frames, in bytes
    MaxFrames,    \* bound of the model: frames the client writes
    InCap         \* commands the channel to the handler holds

ASSUME LengthsArePositive ==
    /\ Lengths \subseteq Nat \ {0}
    /\ MaxFrames \in Nat /\ InCap \in Nat \ {0}

\* "command": a Command; "garbage": bytes that are none; "misfit": well-formed
\* msgpack with an array or a map of the wrong length.
Kinds == {"command", "garbage", "misfit"}

VARIABLES
    stream,     \* the frames written so far, each [kind, from, to]
    written,    \* bytes the client has written
    closed,     \* the client has closed its end
    reset,      \* the connection is broken
    read,       \* bytes FramedRead has read
    pos,        \* bytes the codec has consumed
    fr,         \* FramedRead: "reading", "readable", "eof", "errored"; "ended": the task is
    hand,       \* the command in in_tx.send(), as a sequence of at most one
    inq,        \* the channel to the handler
    rx,         \* the handler holds the receiving end
    got         \* history: commands the handler has received

socket  == <<stream, written, closed, reset>>
loop    == <<read, pos, fr, hand>>
channel == <<inq, rx, got>>

vars == <<socket, loop, channel>>

Init ==
    /\ stream = <<>> /\ written = 0 /\ closed = FALSE /\ reset = FALSE
    /\ read = 0 /\ pos = 0 /\ fr = "reading" /\ hand = <<>>
    /\ inq = <<>> /\ rx = TRUE /\ got = <<>>

-----------------------------------------------------------------------------
(* The client's end of the socket                                          *)

\* A frame, or the first `part` bytes of one and the end of the stream.
ClientWrites(kind, len, part) ==
    /\ ~closed /\ Len(stream) < MaxFrames
    /\ stream' = Append(stream, [kind |-> kind, from |-> written, to |-> written + len])
    /\ written' = written + part
    /\ closed' = (part < len)
    /\ UNCHANGED <<reset, loop, channel>>

ClientCloses ==
    /\ ~closed
    /\ closed' = TRUE
    /\ UNCHANGED <<stream, written, reset, loop, channel>>

\* The bytes that were not read yet are lost.
ConnectionResets ==
    /\ ~reset
    /\ reset' = TRUE
    /\ UNCHANGED <<stream, written, closed, loop, channel>>

-----------------------------------------------------------------------------
(* MsgPackCodec::decode                                                    *)

\* The frame is next and of kind k, and the buffer has it in full.
Buffered(i, k) ==
    stream[i].kind = k /\ stream[i].from = pos /\ stream[i].to <= read

\* Ok(Some(command))
DecodesCommand(i) == Buffered(i, "command")

\* Err(e): an error that is not one of the three below
DecodesError == \E i \in DOMAIN stream : Buffered(i, "garbage")

\* Ok(None): InvalidMarkerRead and InvalidDataRead mean that bytes are
\* missing, LengthMismatch that the value does not fit.
DecodesNone ==
    /\ ~DecodesError
    /\ \A i \in DOMAIN stream : ~DecodesCommand(i)

-----------------------------------------------------------------------------
(* framed_reader.next()                                                    *)

\* The loop is in next(), and FramedRead in one of the given states.
InNext(states) == hand = <<>> /\ fr \in states

Becomes(state) ==
    /\ fr' = state
    /\ UNCHANGED <<socket, read, pos, hand, channel>>

\* Ok(n) from the socket
Fill(n) ==
    /\ InNext({"reading"}) /\ ~reset /\ read + n <= written
    /\ read' = read + n
    /\ fr' = "readable"
    /\ UNCHANGED <<socket, pos, hand, channel>>

\* Ok(0) from the socket
FillEof ==
    /\ InNext({"reading"}) /\ ~reset /\ closed /\ read = written
    /\ Becomes("eof")

\* Err(e) from the socket; next() returns it
FillFails == InNext({"reading"}) /\ reset /\ Becomes("errored")

\* Fault: src.clear() in place of src.advance(bytes_read)
DecodeOkClears(i) ==
    /\ InNext({"readable", "eof"}) /\ DecodesCommand(i)
    /\ pos' = read /\ hand' = <<stream[i]>>
    /\ UNCHANGED <<socket, read, fr, channel>>

\* Fault: the rest of the buffer is left for the next read.
DecodeOkWaits(i) ==
    /\ InNext({"readable", "eof"}) /\ DecodesCommand(i)
    /\ pos' = stream[i].to /\ hand' = <<stream[i]>> /\ fr' = "reading"
    /\ UNCHANGED <<socket, read, channel>>

\* src.advance(bytes_read); FramedRead will try the rest of the buffer before
\* it reads again.
DecodeOk(i) ==
    /\ InNext({"readable", "eof"}) /\ DecodesCommand(i)
    /\ pos' = stream[i].to
    /\ hand' = <<stream[i]>>
    /\ UNCHANGED <<socket, read, fr, channel>>

\* Fault: the error does not end the stream.
DecodeErrGoesOn ==
    InNext({"readable", "eof"}) /\ DecodesError /\ Becomes("reading")

\* next() returns the error of the codec; the loop only logs it.
DecodeErr ==
    InNext({"readable", "eof"}) /\ DecodesError /\ Becomes("errored")

DecodeNone == InNext({"readable"}) /\ DecodesNone /\ Becomes("reading")

\* decode_eof: "bytes remaining on stream" is an error, too.
DecodeRest ==
    InNext({"eof"}) /\ DecodesNone /\ pos < read /\ Becomes("errored")

\* next() returns None, at the end of the stream or after an error: the task
\* ends and drops in_tx and its half of the socket.
NextIsNone ==
    /\ InNext({"errored"}) \/ (InNext({"eof"}) /\ pos = read)
    /\ Becomes("ended")

-----------------------------------------------------------------------------
(* in_tx.send(command).await, and the handler's end of the channel         *)

\* Fault: the channel is not bounded.
SendUnbounded ==
    /\ hand # <<>> /\ rx
    /\ inq' = inq \o hand /\ hand' = <<>>
    /\ UNCHANGED <<socket, read, pos, fr, rx, got>>

Send ==
    /\ hand # <<>> /\ rx /\ Len(inq) < InCap
    /\ inq' = inq \o hand
    /\ hand' = <<>>
    /\ UNCHANGED <<socket, read, pos, fr, rx, got>>

\* Fault: the send waits for room in a channel that nobody will empty.
SendWaits == hand # <<>> /\ ~rx /\ UNCHANGED vars

\* The handler has ended: the error is logged, the command is gone.
SendFails ==
    /\ hand # <<>> /\ ~rx
    /\ hand' = <<>>
    /\ UNCHANGED <<socket, read, pos, fr, channel>>

HandlerRecv ==
    /\ rx /\ inq # <<>>
    /\ got' = Append(got, Head(inq))
    /\ inq' = Tail(inq)
    /\ UNCHANGED <<socket, loop, rx>>

HandlerEnds ==
    /\ rx
    /\ rx' = FALSE
    /\ inq' = <<>>
    /\ UNCHANGED <<socket, loop, got>>

-----------------------------------------------------------------------------
(* Specification                                                           *)

Client ==
    \/ \E len \in Lengths :
          \/ \E kind \in Kinds : ClientWrites(kind, len, len)
          \/ \E part \in 1 .. len - 1 : ClientWrites("command", len, part)
    \/ ClientCloses \/ ConnectionResets

Loop ==
    \/ \E n \in 1 .. written - read : Fill(n)
    \/ FillEof \/ FillFails
    \/ \E i \in DOMAIN stream : DecodeOk(i)
    \/ DecodeErr \/ DecodeNone \/ DecodeRest \/ NextIsNone
    \/ Send \/ SendFails

Next == Client \/ Loop \/ HandlerRecv \/ HandlerEnds

Spec == Init /\ [][Next]_vars

\* The task is run.  The handler owes nothing: see HandlerReceives.
FairSpec == Spec /\ WF_vars(Loop)

-----------------------------------------------------------------------------
(* Properties                                                              *)

Frame == [kind : Kinds, from : Nat, to : Nat]

\* Types; the codec is never ahead of the buffer, the buffer of the socket,
\* and a loop that has ended holds no command.
TypeOK ==
    /\ stream \in Seq(Frame) /\ got \in Seq(Frame)
    /\ inq \in Seq(Frame) /\ Len(inq) <= InCap
    /\ hand \in Seq(Frame) /\ Len(hand) <= 1
    /\ written \in Nat /\ read \in 0 .. written /\ pos \in 0 .. read
    /\ closed \in BOOLEAN /\ reset \in BOOLEAN /\ rx \in BOOLEAN
    /\ fr \in {"reading", "readable", "eof", "errored", "ended"}
    /\ fr = "ended" => hand = <<>>

\* The first byte behind frame n.
EndOf(n) == IF n = 0 THEN 0 ELSE stream[n].to

\* However the bytes are cut into pieces, the codec is at the border between
\* two frames, and the handler gets the commands once each, in the order in
\* which they were written, up to the first frame that is none.
Framed ==
    /\ IsPrefix(got, stream)
    /\ rx => LET taken == got \o inq \o hand IN
              /\ IsPrefix(taken, stream)
              /\ pos = EndOf(Len(taken))
              /\ \A i \in DOMAIN taken : taken[i].kind = "command"

\* The frames up to number k are whole commands.
CommandsUpTo(k) ==
    /\ Len(stream) >= k /\ EndOf(k) <= written
    /\ \A i \in 1 .. k : stream[i].kind = "command"

\* A handler that has not ended takes the commands that wait for it, as its
\* select! does again and again.  The client has a part in it: a handler in
\* forward_message_to_client waits for room in the outgoing channel and takes no
\* command before the client has read or its connection has broken.
HandlerReceives == WF_vars(HandlerRecv)

\* As long as the client reads, so that the handler receives, every command
\* written in full gets to the handler, also if its bytes came together with the
\* ones of another or just before the end of the stream.
Arrives ==
    HandlerReceives =>
        \A k \in 1 .. MaxFrames : CommandsUpTo(k) ~> (Len(got) >= k \/ ~rx \/ reset)

\* Frame k is the first that is no command, and it is of kind d.
FirstBad(k, d) ==
    CommandsUpTo(k - 1) /\ Len(stream) >= k /\ stream[k].kind = d

\* The loop ends after the client, wherever it stands: with half a frame in the
\* buffer, with a frame that never decodes, with a handler that has ended
\* before it.  It also ends at bytes that are no command, as in the test
\* receives_bad_data.  The commands before the end must get into the channel, so
\* the handler receives or ends.  If the client reads, it receives; if the client
\* is gone, the failing write loop ends it (Connection!Teardown).
LoopEnds ==
    HandlerReceives =>
        (closed \/ reset \/ (\E k \in 1 .. MaxFrames : FirstBad(k, "garbage"))
            ~> fr = "ended")

\* Some step of the loop can be taken, or the handler can receive: the guards
\* of Loop and of HandlerRecv.
Ready ==
    \/ InNext({"reading"}) /\ (reset \/ closed \/ read < written)
    \/ InNext({"readable", "eof", "errored"})
    \/ hand # <<>> /\ (~rx \/ Len(inq) < InCap)
    \/ rx /\ inq # <<>>

\* The loop and the handler come to rest only when all is done: the handler has
\* every command that was written in full, and if the client is gone, or the
\* bytes are none of a command, the loop has ended.  No frame is overlooked in
\* the buffer while the loop waits for more bytes.
RestsWhenDone ==
    Ready \/ /\ closed \/ reset => fr = "ended"
             /\ rx /\ ~reset => \A k \in 1 .. MaxFrames : CommandsUpTo(k) => Len(got) >= k
             /\ \A k \in 1 .. MaxFrames : FirstBad(k, "garbage") => fr = "ended"

\* How much is left to do without the client: the bytes to decode and to read,
\* the commands on their way, and the way of FramedRead to its end.
Rank ==
    3 * (written - pos) + 2 * (written - read) + 2 * Len(hand) + Len(inq)
    + CASE fr = "readable" -> 4 [] fr = "reading" -> 3 [] fr = "eof" -> 2
        [] fr = "errored"  -> 1 [] fr = "ended"   -> 0

\* The loop does not turn in circles, as it would if it went on reading after an
\* error: with a silent client it takes finitely many steps.
LoopWearsOff == [][Loop \/ HandlerRecv => Rank' < Rank]_vars

-----------------------------------------------------------------------------
(* What the tests say and the code does not do                             *)

\* "Assert an error is produced" (receives_bad_data), for a value of the wrong
\* shape and a handler that receives.
MisfitEnds ==
    HandlerReceives =>
        \A k \in 1 .. MaxFrames : FirstBad(k, "misfit") ~> fr = "ended"

=============================================================================
