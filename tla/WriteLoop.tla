------------------------------ MODULE WriteLoop -----------------------------
(***************************************************************************)
(* The write loop of one connection: TcpAdapter::spawn_write_loop in       *)
(* lbroker/src/server.rs, under every buffer configuration the command     *)
(* line can ask for (lbroker/src/main.rs, lbroker/src/buffer_config.rs).   *)
(*                                                                         *)
(* The loop takes messages from the channel the ConnectionHandler fills    *)
(* and writes them to the socket through a tokio BufWriter.  The channel,  *)
(* the BufWriter and the select! are tokio's: what the loop can observe of *)
(* them is modelled.  Sizes are in KB.                                     *)
(***************************************************************************)
EXTENDS Integers, Sequences, SequencesExt

CONSTANTS
    NoFlag,          \* a flag that is not given
    ModeFlags,       \* values of --mode
    SizeFlags,       \* values of --buffer-size
    FlushFlags,      \* values of --flush-strategy
    IntervalFlags,   \* values of --flush-interval, in ms
    MessageSizes,    \* sizes of the messages the handler sends
    MaxSent,         \* bound of the model: messages the handler sends
    OutCap           \* messages the channel holds

ASSUME SizesAreNaturals ==
    /\ SizeFlags \ {NoFlag} \subseteq Nat
    /\ IntervalFlags \subseteq Nat
    /\ MessageSizes \subseteq Nat \ {0}
    /\ MaxSent \in Nat /\ OutCap \in Nat \ {0}

VARIABLES
    cli,       \* the flags of the server command
    pc,        \* where the loop stands
    queue,     \* out_tx, out_rx: messages waiting for the loop
    open,      \* the handler holds out_tx
    hand,      \* the message the loop is writing, as a sequence of at most one
    buf,       \* messages in buf_writer's buffer, the first perhaps in part
    used,      \* the bytes they take
    wire,      \* messages handed to the socket in full
    sent,      \* history: messages the handler has sent
    failed     \* history: the loop was ended by an error

vars == <<cli, pc, queue, open, hand, buf, used, wire, sent, failed>>

-----------------------------------------------------------------------------
(* Buffer configurations                                                   *)

LowLatency     == [size |-> 4, strategy |-> "immediate", interval |-> 0]
Balanced       == [size |-> 32, strategy |-> "periodic", interval |-> 10]
HighThroughput == [size |-> 128, strategy |-> "auto", interval |-> 0]

\* The configuration main() passes to Server::new.
BufferConfig(flags) ==
    CASE flags.mode = "low-latency" -> LowLatency
      [] flags.mode = "high-throughput" -> HighThroughput
      [] flags.mode \notin {NoFlag, "low-latency", "high-throughput"} -> Balanced
      [] flags.mode = NoFlag /\ flags.size = NoFlag /\ flags.flush = NoFlag -> Balanced
      [] OTHER -> [size     |-> IF flags.size = NoFlag THEN 32 ELSE flags.size,
                   strategy |-> IF flags.flush \in {"immediate", "periodic"}
                                THEN flags.flush ELSE "auto",
                   interval |-> flags.interval]

Strategy == BufferConfig(cli).strategy
Capacity == BufferConfig(cli).size

-----------------------------------------------------------------------------
(* The handler's end of the channel                                        *)

Init ==
    /\ cli \in [mode : ModeFlags, size : SizeFlags, flush : FlushFlags,
                interval : IntervalFlags]
    /\ pc = "start"
    /\ queue = <<>> /\ open = TRUE
    /\ hand = <<>> /\ buf = <<>> /\ used = 0 /\ wire = <<>>
    /\ sent = <<>> /\ failed = FALSE

\* adapter_sender.send() or try_send() with room in the channel.
HandlerSends(size) ==
    /\ open /\ pc # "end"
    /\ Len(queue) < OutCap /\ Len(sent) < MaxSent
    /\ LET m == [n |-> Len(sent) + 1, size |-> size]
       IN  queue' = Append(queue, m) /\ sent' = Append(sent, m)
    /\ UNCHANGED <<cli, pc, open, hand, buf, used, wire, failed>>

\* The handler ends and drops out_tx.
HandlerEnds ==
    /\ open
    /\ open' = FALSE
    /\ UNCHANGED <<cli, pc, queue, hand, buf, used, wire, sent, failed>>

-----------------------------------------------------------------------------
(* BufWriter                                                               *)

\* A message as large as the buffer goes straight to the socket, ...
GoesDirectly == Head(hand).size >= Capacity

\* Fault: a message that goes straight to the socket overtakes the buffer.
MustMakeRoomSmallOnly ==
    buf # <<>> /\ used + Head(hand).size > Capacity /\ ~GoesDirectly

\* Fault: off by one message, the buffer is emptied when it is already full.
MustMakeRoomLate == buf # <<>> /\ used >= Capacity

\* ... and one that does not fit makes write_all() empty the buffer first.
MustMakeRoom == buf # <<>> /\ used + Head(hand).size > Capacity

-----------------------------------------------------------------------------
(* The loop                                                                *)

\* The end of the task: out_rx and buf_writer are dropped, and with them the
\* messages in the channel, in the task's hand and in the buffer.
End(error) ==
    /\ pc' = "end"
    /\ failed' = error
    /\ queue' = <<>> /\ hand' = <<>> /\ buf' = <<>> /\ used' = 0

\* tokio::time::interval() panics when the period is zero.
Start ==
    /\ pc = "start"
    /\ IF Strategy = "periodic" /\ BufferConfig(cli).interval = 0
       THEN End(TRUE)
       ELSE pc' = "select" /\ UNCHANGED <<queue, hand, buf, used, failed>>
    /\ UNCHANGED <<cli, open, wire, sent>>

\* select!: Some(bytes) = out_rx.recv()
Recv ==
    /\ pc = "select" /\ queue # <<>>
    /\ hand' = <<Head(queue)>>
    /\ queue' = Tail(queue)
    /\ pc' = "write"
    /\ UNCHANGED <<cli, open, buf, used, wire, sent, failed>>

MakeRoom ==
    /\ pc = "write" /\ MustMakeRoom
    /\ wire' = wire \o buf
    /\ buf' = <<>> /\ used' = 0
    /\ UNCHANGED <<cli, pc, queue, open, hand, sent, failed>>

\* What the buffer gets of a message.  The socket may take only a part of one
\* that goes straight to it; write_all() goes on, and a rest that fits is
\* buffered.
Remainders == IF GoesDirectly THEN 1 .. Capacity - 1 ELSE {Head(hand).size}

WriteAll ==
    /\ pc = "write" /\ ~MustMakeRoom
    /\ \/ /\ GoesDirectly
          /\ wire' = wire \o hand
          /\ UNCHANGED <<buf, used>>
       \/ \E rest \in Remainders :
          /\ buf' = buf \o hand
          /\ used' = used + rest
          /\ UNCHANGED wire
    /\ hand' = <<>>
    /\ pc' = "written"
    /\ UNCHANGED <<cli, queue, open, sent, failed>>

\* Fault: Auto leaves the flushing to the buffer.
DecideWithoutAuto ==
    /\ pc = "written"
    /\ pc' = IF Strategy = "immediate" THEN "flush" ELSE "select"
    /\ UNCHANGED <<cli, queue, open, hand, buf, used, wire, sent, failed>>

\* Whether to flush now; Auto asks whether more messages are waiting.
Decide ==
    /\ pc = "written"
    /\ pc' = IF \/ Strategy = "immediate"
                \/ Strategy = "auto" /\ queue = <<>>
             THEN "flush" ELSE "select"
    /\ UNCHANGED <<cli, queue, open, hand, buf, used, wire, sent, failed>>

\* select!: the interval ticks
Tick ==
    /\ pc = "select" /\ Strategy = "periodic"
    /\ pc' = "flush"
    /\ UNCHANGED <<cli, queue, open, hand, buf, used, wire, sent, failed>>

Flush ==
    /\ pc = "flush"
    /\ wire' = wire \o buf
    /\ buf' = <<>> /\ used' = 0
    /\ pc' = "select"
    /\ UNCHANGED <<cli, queue, open, hand, sent, failed>>

\* An error of the socket in write_all() or flush(), after a part of what was
\* to be written: the loop breaks.
SocketFails ==
    /\ \/ pc = "write" /\ (MustMakeRoom \/ GoesDirectly)
       \/ pc = "flush" /\ buf # <<>>
    /\ \E k \in 0 .. Len(buf) : wire' = wire \o SubSeq(buf, 1, k)
    /\ End(TRUE)
    /\ UNCHANGED <<cli, open, sent>>

\* Fault: the loop is left as soon as the handler is gone.
ElseBreakEarly ==
    /\ pc = "select" /\ ~open /\ Strategy # "periodic"
    /\ End(FALSE)
    /\ UNCHANGED <<cli, open, wire, sent>>

\* Fault: else => continue.
ElseContinues ==
    /\ pc = "select" /\ queue = <<>> /\ ~open
    /\ Strategy # "periodic"
    /\ UNCHANGED vars

\* select!: else => break.  recv() returns None once the handler has dropped
\* out_tx and the channel is empty; the other branch must be disabled as well,
\* and an interval never is.
ElseBreak ==
    /\ pc = "select" /\ queue = <<>> /\ ~open
    /\ Strategy # "periodic"
    /\ End(FALSE)
    /\ UNCHANGED <<cli, open, wire, sent>>

-----------------------------------------------------------------------------
(* Specification                                                           *)

Handler == HandlerEnds \/ \E size \in MessageSizes : HandlerSends(size)

\* Between two waits of the loop.
Run == Start \/ Recv \/ MakeRoom \/ WriteAll \/ Decide \/ Flush \/ SocketFails \/ ElseBreak

Next == Handler \/ Run \/ Tick

Spec == Init /\ [][Next]_vars

\* The task is run and the client reads or breaks; the interval keeps ticking
\* and select! takes a branch that is ready again and again.
Fairness == WF_vars(Run) /\ SF_vars(Tick) /\ SF_vars(Recv)

FairSpec == Spec /\ Fairness

-----------------------------------------------------------------------------
(* Properties                                                              *)

Message == [n : Nat, size : MessageSizes]

ControlTypes ==
    /\ cli \in [mode : ModeFlags, size : SizeFlags, flush : FlushFlags,
                interval : IntervalFlags]
    /\ pc \in {"start", "select", "write", "written", "flush", "end"}
    /\ open \in BOOLEAN /\ failed \in BOOLEAN

PlaceTypes ==
    /\ queue \in Seq(Message) /\ buf \in Seq(Message) /\ hand \in Seq(Message)
    /\ wire \in Seq(Message) /\ sent \in Seq(Message)

\* Types; the channel and the buffer stay within their capacities.
TypeOK ==
    /\ ControlTypes /\ PlaceTypes
    /\ Len(hand) = (IF pc = "write" THEN 1 ELSE 0)
    /\ Len(queue) <= OutCap
    /\ used \in 0 .. Capacity /\ (used = 0 <=> buf = <<>>)

\* Between the handler and the socket nothing is lost, doubled or reordered,
\* whatever the sizes of the messages and of the buffer; when the loop has
\* ended the client has got a beginning of what it was sent.
Conserved ==
    IF pc = "end" THEN IsPrefix(wire, sent)
                  ELSE wire \o buf \o hand \o queue = sent

\* "Flush if no more messages are waiting (prevents small messages from
\* getting stuck)": the loop does not wait for the handler with a message in
\* the buffer, even if one arrives between is_empty() and the next recv().
NothingStuck ==
    pc = "select" /\ buf # <<>> =>
        Strategy = "periodic" \/ (Strategy = "auto" /\ queue # <<>>)

\* BufWriter does not flush when it is dropped: a loop that ends because the
\* handler has ended has nevertheless written all it was sent.
NothingLostAtTheEnd == pc = "end" /\ ~failed => wire = sent

\* With every strategy each message gets onto the wire, unless the socket or
\* the loop fails.
Delivered ==
    \A k \in 1 .. MaxSent : Len(sent) >= k ~> (Len(wire) >= k \/ failed)

\* The loop ends, and so closes the socket, after its handler has; with an
\* interval it does not (ConnectionCloses).
LoopEnds == ~open /\ Strategy # "periodic" ~> pc = "end"

-----------------------------------------------------------------------------
(* What the documentation says and the code does not do                    *)

\* "Returns an interface::Message, or None when the connection has closed"
\* (Client::recv): the loop drops its half of the socket once the handler of
\* the connection has ended.
ConnectionCloses == ~open ~> pc = "end"

=============================================================================
