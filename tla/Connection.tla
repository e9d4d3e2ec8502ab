----------------------------- MODULE Connection -----------------------------
(***************************************************************************)
(* One connection from end to end: an application with a Client of         *)
(* lbroker/src/client.rs and a clone of it, the Client's two tasks, the    *)
(* socket, and the three tasks of the server (lbroker/src/server.rs).      *)
(*                                                                         *)
(*   call -> cmdq -> writer -> c2s -> rloop -> inq -> handler              *)
(*   recv <- msgq <- reader <- s2c <- wloop <- outq <- handler             *)
(*                                                                         *)
(* writer, reader, rloop and wloop do nothing but pass items on, one at a  *)
(* time: an item that one of them holds is counted as being still in the   *)
(* channel it came from.  Every channel and each direction of the socket   *)
(* holds Cap items.  ReadLoop, WriteLoop and Broker look inside rloop,     *)
(* wloop and handler.  The write loop is one without an interval; one with *)
(* an interval does not end, see ConnectionCloses in WriteLoop.            *)
(***************************************************************************)
EXTENDS Naturals, Sequences, FiniteSets

CONSTANTS
    Program,     \* the commands the application gives, "sub", "unsub" or "pub"
    Cap,         \* capacity of a channel and of a direction of the socket
    TopicCap,    \* capacity of the topic's broadcast channel
    MaxMessages  \* bound of the model: others publish until that many are queued

ASSUME CapsArePositive ==
    /\ Program \in Seq({"sub", "unsub", "pub"})
    /\ Cap \in Nat \ {0} /\ TopicCap \in Nat \ {0} /\ MaxMessages \in Nat

Handles     == {"client", "clone"}
ClientTasks == {"writer", "reader"}
ServerTasks == {"rloop", "handler", "wloop"}
SocketTasks == {"rloop", "wloop"}     \* the ones that hold the server's end
Channels    == {"cmdq", "c2s", "inq", "outq", "s2c", "msgq"}

VARIABLES
    issued,     \* number of commands the application has given
    call,       \* the call in tx.send(), [by, cmd], as a sequence of at most one
    handles,    \* the handles the application holds
    alive,      \* the tasks that have not ended
    chan,       \* by channel: what is in it
    broken,     \* the TCP connection is reset
    subs,       \* how often the handler's tree holds the pattern
    backlog,    \* messages of the topic the handler has not taken, up to TopicCap + 1
    hand,       \* the message it forwards, as a sequence of at most one
    accepted, handled,     \* history: commands sent, commands handled
    queued, received       \* history: messages queued for the client, and received

app     == <<issued, call, handles>>
handler == <<subs, backlog, hand>>
history == <<accepted, handled, queued, received>>

vars == <<app, alive, chan, broken, handler, history>>

\* The topic exists and has a last message.
Init ==
    /\ issued = 0 /\ call = <<>> /\ handles = Handles
    /\ alive = ClientTasks \cup ServerTasks
    /\ chan = [c \in Channels |-> <<>>]
    /\ broken = FALSE
    /\ subs = 0 /\ backlog = 0 /\ hand = <<>>
    /\ accepted = <<>> /\ handled = <<>> /\ queued = <<>> /\ received = <<>>

-----------------------------------------------------------------------------
(* Tasks and channels                                                      *)

HasRoom(c) == Len(chan[c]) < Cap

\* The loop of a task, once around: recv() or next() on c, send() on d.
Move(t, c, d) ==
    /\ t \in alive
    /\ chan[c] # <<>> /\ HasRoom(d)
    /\ chan' = [chan EXCEPT ![c] = Tail(@), ![d] = Append(@, Head(chan[c]))]
    /\ UNCHANGED <<app, alive, broken, handler, history>>

\* The send fails and the task goes on.
Discard(t, c) ==
    /\ t \in alive
    /\ chan[c] # <<>>
    /\ chan' = [chan EXCEPT ![c] = Tail(@)]
    /\ UNCHANGED <<app, alive, broken, handler, history>>

\* Tasks end, and what is in the channels they receive from is lost.
End(tasks, from) ==
    /\ alive' = alive \ tasks
    /\ chan' = [c \in Channels |-> IF c \in from THEN <<>> ELSE chan[c]]
    /\ IF "handler" \in tasks
       THEN subs' = 0 /\ backlog' = 0 /\ hand' = <<>>
       ELSE UNCHANGED handler

\* One task ends by itself.
Ends(t, from) ==
    /\ t \in alive
    /\ End({t}, from)
    /\ UNCHANGED <<app, broken, history>>

\* A write to a peer that has closed its end is answered by a reset.
WriteIsReset(t, c, peers) ==
    /\ t \in alive /\ chan[c] # <<>>
    /\ ~broken /\ peers \cap alive = {}
    /\ broken' = TRUE
    /\ chan' = [chan EXCEPT ![c] = Tail(@)]
    /\ UNCHANGED <<app, alive, handler, history>>

-----------------------------------------------------------------------------
(* The application: Client::subscribe, unsubscribe, publish, recv          *)

Calling(h) == call # <<>> /\ call[1].by = h

Call(h) ==
    /\ h \in handles /\ call = <<>>
    /\ issued < Len(Program)
    /\ issued' = issued + 1
    /\ call' = <<[by |-> h, cmd |-> issued']>>
    /\ UNCHANGED <<handles, alive, chan, broken, handler, history>>

\* send_command() returns.
CallReturns ==
    /\ call # <<>>
    /\ "writer" \in alive /\ HasRoom("cmdq")
    /\ chan' = [chan EXCEPT !.cmdq = Append(@, call[1].cmd)]
    /\ accepted' = Append(accepted, call[1].cmd)
    /\ call' = <<>>
    /\ UNCHANGED <<issued, handles, alive, broken, handler, handled, queued, received>>

\* Dropping the handle; "client" takes the receiver of the messages with it.
Drop(h) ==
    /\ h \in handles
    /\ handles' = handles \ {h}
    /\ chan' = IF h = "client" THEN [chan EXCEPT !.msgq = <<>>] ELSE chan
    /\ UNCHANGED <<issued, alive, broken, handler, history>>

\* The application is done with the handle, perhaps after recv() was None.
DropHandle(h) ==
    /\ ~Calling(h)
    /\ Drop(h)
    /\ UNCHANGED call

\* send() finds the writer task gone: expect() panics, and the task of the
\* application that called goes down with its handle.
CallPanics ==
    /\ call # <<>> /\ "writer" \notin alive
    /\ Drop(call[1].by)
    /\ call' = <<>>

Recv ==
    /\ "client" \in handles /\ ~Calling("client")
    /\ chan.msgq # <<>>
    /\ received' = Append(received, Head(chan.msgq))
    /\ chan' = [chan EXCEPT !.msgq = Tail(@)]
    /\ UNCHANGED <<app, alive, broken, handler, accepted, handled, queued>>

-----------------------------------------------------------------------------
(* The tasks of Client::new                                                *)

WriterSend ==
    /\ ~broken /\ SocketTasks \cap alive # {}
    /\ Move("writer", "cmdq", "c2s")

WriterSendIsReset == WriteIsReset("writer", "cmdq", SocketTasks)

\* Fault: the write is tried again.
WriterPanicsNever == broken /\ chan.cmdq # <<>> /\ UNCHANGED vars

\* expect("Command was sent to server")
WriterPanics == broken /\ chan.cmdq # <<>> /\ Ends("writer", {"cmdq"})

\* recv() is None once every handle is dropped and the channel is empty; the
\* write half of the socket is closed.
WriterNone == handles = {} /\ chan.cmdq = <<>> /\ Ends("writer", {})

\* Fault: try_send() in place of send().await
ReaderSendTries ==
    /\ "client" \in handles
    /\ IF HasRoom("msgq") THEN Move("reader", "s2c", "msgq") ELSE Discard("reader", "s2c")

ReaderSend == "client" \in handles /\ Move("reader", "s2c", "msgq")

\* Fault: the task waits for somebody to receive.
ReaderDiscardsNever == FALSE /\ UNCHANGED vars

\* Fault: the loop is left when nobody will receive.
ReaderGivesUp == "client" \notin handles /\ chan.s2c # <<>> /\ Ends("reader", {"s2c"})

\* Nobody will receive: the error is logged, the loop goes on.
ReaderDiscards == "client" \notin handles /\ Discard("reader", "s2c")

\* Fault: the end of the stream is taken for a pause.
ReaderNoneNever == FALSE /\ UNCHANGED vars

\* next() is None: the server has closed its write half.
ReaderNone ==
    /\ ~broken /\ "wloop" \notin alive /\ chan.s2c = <<>>
    /\ Ends("reader", {})

\* expect("Message was received")
ReaderPanics == broken /\ Ends("reader", {"s2c"})

-----------------------------------------------------------------------------
(* The server: read loop, handler, write loop                              *)

\* Fault: try_send() in place of send().await
RLoopSendTries ==
    /\ "handler" \in alive
    /\ IF HasRoom("inq") THEN Move("rloop", "c2s", "inq") ELSE Discard("rloop", "c2s")

RLoopSend == "handler" \in alive /\ Move("rloop", "c2s", "inq")

RLoopDiscards == "handler" \notin alive /\ Discard("rloop", "c2s")

RLoopNone ==
    /\ ~broken /\ "writer" \notin alive /\ chan.c2s = <<>>
    /\ Ends("rloop", {})

\* The error is logged; next() is None after it.
RLoopFails == broken /\ Ends("rloop", {"c2s"})

InSelect == "handler" \in alive /\ hand = <<>>

\* handle_subscribe: a stream from the newest message on, and that one right
\* away if there is room for it.
Subscribe ==
    LET sent == IF subs = 0 /\ "wloop" \in alive /\ HasRoom("outq")
                THEN <<Len(queued) + 1>> ELSE <<>>
    IN  /\ subs' = subs + 1
        /\ chan' = [chan EXCEPT !.inq = Tail(@), !.outq = @ \o sent]
        /\ queued' = queued \o sent
        /\ UNCHANGED backlog

\* handle_unsubscribe: with the last hold of the pattern the stream goes.  So it
\* is in GlobTree for a pattern of two characters or more that has the tree for
\* itself; one of a single character stays (PatternStore!ContainsWhatIsHeld).
Unsubscribe ==
    /\ subs' = IF subs > 0 THEN subs - 1 ELSE 0
    /\ backlog' = IF subs' = 0 THEN 0 ELSE backlog
    /\ chan' = [chan EXCEPT !.inq = Tail(@)]
    /\ UNCHANGED queued

\* The topic's channel has one more message for a handler that follows it.
Broadcast ==
    backlog' = IF subs > 0 /\ backlog <= TopicCap THEN backlog + 1 ELSE backlog

\* handle_publish
Publish ==
    /\ Broadcast
    /\ chan' = [chan EXCEPT !.inq = Tail(@)]
    /\ UNCHANGED <<subs, queued>>

HandleCommand ==
    /\ InSelect /\ chan.inq # <<>>
    /\ LET command == Program[Head(chan.inq)]
       IN  \/ command = "sub"   /\ Subscribe
           \/ command = "unsub" /\ Unsubscribe
           \/ command = "pub"   /\ Publish
    /\ handled' = Append(handled, Head(chan.inq))
    /\ UNCHANGED <<app, alive, broken, hand, accepted, received>>

\* The read loop is gone: recv() is None, the loop is left.
HandlerNone ==
    /\ InSelect /\ chan.inq = <<>> /\ "rloop" \notin alive
    /\ Ends("handler", {})

OthersPublish ==
    /\ subs > 0 /\ Len(queued) + Len(hand) + backlog < MaxMessages
    /\ Broadcast
    /\ UNCHANGED <<app, alive, chan, broken, subs, hand, history>>

StreamOk ==
    /\ InSelect /\ backlog \in 1 .. TopicCap
    /\ backlog' = backlog - 1
    /\ hand' = <<Len(queued) + 1>>
    /\ UNCHANGED <<app, alive, chan, broken, subs, history>>

\* What was skipped is logged; the TopicCap newest messages are left.
StreamLagged ==
    /\ InSelect /\ backlog > TopicCap
    /\ backlog' = TopicCap
    /\ UNCHANGED <<app, alive, chan, broken, subs, hand, history>>

\* Fault: the channel is not bounded.
ForwardUnbounded ==
    /\ "handler" \in alive /\ hand # <<>> /\ "wloop" \in alive
    /\ chan' = [chan EXCEPT !.outq = @ \o hand]
    /\ queued' = queued \o hand /\ hand' = <<>>
    /\ UNCHANGED <<app, alive, broken, subs, backlog, accepted, handled, received>>

\* Fault: without room the message goes back, to be taken again.
ForwardTries ==
    \/ HasRoom("outq") /\ ForwardUnbounded
    \/ /\ "handler" \in alive /\ hand # <<>> /\ ~HasRoom("outq")
       /\ backlog' = backlog + 1 /\ hand' = <<>>
       /\ UNCHANGED <<app, alive, chan, broken, subs, history>>

\* forward_message_to_client; until there is room the handler takes no command.
Forward ==
    /\ "handler" \in alive /\ hand # <<>>
    /\ "wloop" \in alive /\ HasRoom("outq")
    /\ chan' = [chan EXCEPT !.outq = @ \o hand]
    /\ queued' = queued \o hand
    /\ hand' = <<>>
    /\ UNCHANGED <<app, alive, broken, subs, backlog, accepted, handled, received>>

ForwardFails ==
    /\ hand # <<>> /\ "wloop" \notin alive
    /\ Ends("handler", {"inq"})

WLoopWrite ==
    /\ ~broken /\ ClientTasks \cap alive # {}
    /\ Move("wloop", "outq", "s2c")

WLoopWriteIsReset == WriteIsReset("wloop", "outq", ClientTasks)

WLoopFails == broken /\ chan.outq # <<>> /\ Ends("wloop", {"outq"})

\* else => break
WLoopElse ==
    /\ "handler" \notin alive /\ chan.outq = <<>>
    /\ Ends("wloop", {})

-----------------------------------------------------------------------------
(* Failures                                                                *)

ConnectionBreaks ==
    /\ ~broken /\ broken' = TRUE
    /\ UNCHANGED <<app, alive, chan, handler, history>>

\* The process of the application ends.
ClientDies ==
    /\ ClientTasks \cap alive # {} \/ handles # {}
    /\ handles' = {} /\ call' = <<>>
    /\ End(ClientTasks, {"cmdq", "s2c", "msgq"})
    /\ UNCHANGED <<issued, broken, history>>

\* accept() fails: Server::run returns, and the process ends with main().
ServerDies ==
    /\ ServerTasks \cap alive # {}
    /\ End(ServerTasks, {"c2s", "inq", "outq"})
    /\ UNCHANGED <<app, broken, history>>

-----------------------------------------------------------------------------
(* Specification                                                           *)

Application == Recv \/ \E h \in Handles : Call(h) \/ DropHandle(h)

Writer == WriterSend \/ WriterSendIsReset \/ WriterPanics \/ WriterNone
Reader == ReaderSend \/ ReaderDiscards \/ ReaderNone \/ ReaderPanics
RLoop  == RLoopSend \/ RLoopDiscards \/ RLoopNone \/ RLoopFails
WLoop  == WLoopWrite \/ WLoopWriteIsReset \/ WLoopFails \/ WLoopElse

CommandBranch == HandleCommand \/ HandlerNone
StreamBranch  == StreamOk \/ StreamLagged
Forwarding    == Forward \/ ForwardFails

CallGoesOn    == CallReturns \/ CallPanics

Tasks ==
    \/ Writer \/ Reader \/ RLoop \/ WLoop
    \/ CommandBranch \/ StreamBranch \/ Forwarding
    \/ CallGoesOn

Next ==
    \/ Application \/ Tasks
    \/ OthersPublish \/ ConnectionBreaks \/ ClientDies \/ ServerDies

Spec == Init /\ [][Next]_vars

\* The runtimes run tasks that are ready, and select! takes the command branch
\* again and again.  The application need not do anything, nor others publish.
Fairness ==
    /\ WF_vars(Writer) /\ WF_vars(Reader) /\ WF_vars(RLoop) /\ WF_vars(WLoop)
    /\ SF_vars(CommandBranch) /\ WF_vars(Forwarding) /\ WF_vars(CallGoesOn)

FairSpec == Spec /\ Fairness

-----------------------------------------------------------------------------
(* Properties                                                              *)

\* Types; no channel holds more than its capacity, the handler no more than one
\* message, and it has a backlog only of a topic it follows.
TypeOK ==
    /\ issued \in 0 .. Len(Program)
    /\ handles \subseteq Handles
    /\ call \in Seq([by : Handles, cmd : DOMAIN Program]) /\ Len(call) <= 1
    /\ call # <<>> => call[1].by \in handles
    /\ alive \subseteq ClientTasks \cup ServerTasks
    /\ chan \in [Channels -> Seq(Nat)] /\ \A c \in Channels : Len(chan[c]) <= Cap
    /\ broken \in BOOLEAN
    /\ subs \in Nat
    /\ backlog \in 0 .. (IF subs = 0 THEN 0 ELSE TopicCap + 1)
    /\ hand \in Seq(Nat) /\ Len(hand) <= 1
    /\ accepted \in Seq(Nat) /\ handled \in Seq(Nat)
    /\ queued \in Seq(Nat) /\ received \in Seq(Nat)

Commands == INSTANCE Pipe
    WITH Items <- DOMAIN Program, put <- accepted, got <- handled

\* The handler sees the commands for which subscribe(), unsubscribe() or
\* publish() returned, once each and in the order of the calls, until the
\* connection ends; none is skipped, however full the channels on the way are.
CommandPipe == Commands!Spec

Messages == INSTANCE Pipe
    WITH Items <- 1 .. MaxMessages + Len(Program), put <- queued, got <- received

\* recv() returns what the handler has queued for the client, once each and in
\* that order.
MessagePipe == Messages!Spec

\* The application leaves messages unreceived, and the channel is full of them.
Unread == "client" \in handles /\ ~HasRoom("msgq")

\* The guards of the tasks' actions, without the ones of the stream branch.
Ready ==
    \/ call # <<>> /\ ("writer" \in alive => HasRoom("cmdq"))
    \/ /\ "writer" \in alive
       /\ IF chan.cmdq # <<>>
          THEN broken \/ SocketTasks \cap alive = {} \/ HasRoom("c2s")
          ELSE handles = {}
    \/ /\ "reader" \in alive
       /\ \/ broken
          \/ chan.s2c # <<>> /\ ("client" \in handles => HasRoom("msgq"))
          \/ chan.s2c = <<>> /\ "wloop" \notin alive
    \/ /\ "rloop" \in alive
       /\ \/ broken
          \/ chan.c2s # <<>> /\ ("handler" \in alive => HasRoom("inq"))
          \/ chan.c2s = <<>> /\ "writer" \notin alive
    \/ /\ InSelect
       /\ IF chan.inq # <<>>
          THEN Program[Head(chan.inq)] \in {"sub", "unsub", "pub"}
          ELSE "rloop" \notin alive
    \/ "handler" \in alive /\ hand # <<>> /\ ("wloop" \in alive => HasRoom("outq"))
    \/ /\ "wloop" \in alive
       /\ IF chan.outq # <<>>
          THEN broken \/ ClientTasks \cap alive = {} \/ HasRoom("s2c")
          ELSE "handler" \notin alive

\* What has to come to an end by itself: a call, the connection once all the
\* handles are dropped, and recv() once the server is gone.
Pending ==
    \/ call # <<>>
    \/ handles = {} /\ alive # {}
    \/ ServerTasks \cap alive = {} /\ "reader" \in alive

\* Whichever tasks have ended, in whatever order, and whichever channels are
\* full: the tasks that are left do not wait for each other in a circle, nor
\* for one that has ended.  The only wait without end is the application's own
\* doing: it leaves messages unreceived that fill every channel back to the
\* handler.
NoCircularWait == Pending => Ready \/ Unread

\* The steps that the tasks can take by themselves are at most these: an item
\* weighs as much as it has stages before it.
Rank ==
    8 * Len(call) + 7 * Len(chan.cmdq) + 6 * Len(chan.c2s) + 5 * Len(chan.inq)
    + 4 * backlog + 3 * Len(hand) + 2 * Len(chan.outq) + Len(chan.s2c)
    + Cardinality(alive) + (IF broken THEN 0 ELSE 1)

\* No livelock: every step of a task brings some item further, ends a task or
\* finds out that the connection is broken, and none makes more work than it
\* does.
TasksWearOff == [][Tasks => Rank' < Rank]_vars

\* As long as the application keeps receiving, or has dropped the receiver,
\* each of its calls returns or panics, also if others publish faster than it
\* receives and if the server goes away.
CallsReturn ==
    []<>(chan.msgq = <<>>) => (call # <<>> ~> call = <<>>)

\* When the server is gone, recv() is None after the messages that are left:
\* the reader ends, or waits for the application to receive one of them.
RecvEnds ==
    ServerTasks \cap alive = {} ~>
        "reader" \notin alive \/ ("client" \in handles /\ ~HasRoom("msgq"))

\* Once all handles are dropped every task of both sides ends, also if all the
\* channels were full and everybody was waiting.
Teardown == handles = {} ~> alive = {}

=============================================================================
