--------------------------- MODULE ConnectionProofs -------------------------
(***************************************************************************)
(* Proofs about Connection, for every program of the application and every *)
(* capacity of the channels.                                               *)
(***************************************************************************)
EXTENDS Connection, Lemmas, TLAPS

\* One direction: what was taken out, what is in the last, the middle and the
\* first channel, what was put in.  What is past the first channel is a
\* beginning of what was put in; as long as the direction is intact, nothing is
\* missing at all.
InLine(out, last, mid, first, in, intact) ==
    /\ IsPrefix((out \o last) \o mid, in)
    /\ intact => ((out \o last) \o mid) \o first = in

\* Commands, for as long as there is a handler to take them; afterwards the
\* ones it handled stay a beginning of the ones that were accepted.
CommandsInLine ==
    /\ IsPrefix(handled, accepted)
    /\ "handler" \in alive =>
          InLine(handled, chan["inq"], chan["c2s"], chan["cmdq"], accepted,
                 ~broken /\ "writer" \in alive)

\* Messages, for as long as there is an application to receive them.
MessagesInLine ==
    "client" \in handles =>
        InLine(received, chan["msgq"], chan["s2c"], chan["outq"], queued,
               ~broken /\ "wloop" \in alive)

\* Every command adds at most one message to those others publish.
MessagesCounted ==
    /\ hand # <<>> => hand = <<Len(queued) + 1>>
    /\ Len(queued) + Len(hand) + backlog <= MaxMessages + Len(handled)
    /\ Len(accepted) + Len(call) <= issued

\* The inductive invariant.
Inv == TypeOK /\ CommandsInLine /\ MessagesInLine /\ MessagesCounted

-----------------------------------------------------------------------------
(* One direction of a connection                                           *)

\* Put in at one end.
LEMMA LinePut ==
    ASSUME NEW S, NEW out \in Seq(S), NEW last \in Seq(S), NEW mid \in Seq(S),
           NEW first \in Seq(S), NEW in \in Seq(S), NEW intact \in BOOLEAN,
           InLine(out, last, mid, first, in, intact), NEW x \in S
    PROVE  InLine(out, last, mid, Append(first, x), Append(in, x), intact)
<1> DEFINE past == (out \o last) \o mid
<1>1. past \in Seq(S)
  OBVIOUS
<1>2. IsPrefix(past, in) /\ (intact => past \o first = in)
  BY DEF InLine
<1> HIDE DEF past
<1>3. past \o Append(first, x) = Append(past \o first, x)
  BY <1>1
<1>4. IsPrefix(past, Append(in, x))
  BY <1>1, <1>2, PrefixOfAppend
<1> QED
  BY <1>2, <1>3, <1>4 DEF InLine, past

\* Handed on from the first channel to the one in the middle.
LEMMA LineFirst ==
    ASSUME NEW S, NEW out \in Seq(S), NEW last \in Seq(S), NEW mid \in Seq(S),
           NEW first \in Seq(S), NEW in \in Seq(S),
           InLine(out, last, mid, first, in, TRUE), first # <<>>, NEW intact \in BOOLEAN
    PROVE  InLine(out, last, Append(mid, Head(first)), Tail(first), in, intact)
<1> DEFINE line == out \o last
           past == line \o mid
           x == Head(first)
           past2 == line \o Append(mid, x)
<1>1. past \in Seq(S) /\ x \in S /\ Tail(first) \in Seq(S) /\ line \in Seq(S)
  OBVIOUS
<1>2. past2 = Append(past, x)
  <2>1. line \in Seq(S) /\ x \in S
    BY <1>1
  <2> HIDE DEF line, x, past, past2
  <2>2. line \o Append(mid, x) = Append(line \o mid, x)
    BY <2>1, AppendToLast
  <2> QED
    BY <2>2 DEF past, past2
<1>3. past \o first = in
  BY DEF InLine
<1> HIDE DEF past, past2
<1>4. past2 \in Seq(S) /\ past2 \o Tail(first) = past \o first
  BY <1>1, <1>2, HandOn, SMTT(30) DEF x
<1>5. IsPrefix(past2, past2 \o Tail(first))
  BY <1>1, <1>4, PrefixOfConcatenation
<1> QED
  BY <1>3, <1>4, <1>5 DEF InLine, past2

\* Handed on from the channel in the middle to the last one.
LEMMA LineMid ==
    ASSUME NEW S, NEW out \in Seq(S), NEW last \in Seq(S), NEW mid \in Seq(S),
           NEW first \in Seq(S), NEW in \in Seq(S), NEW intact \in BOOLEAN,
           InLine(out, last, mid, first, in, intact), mid # <<>>
    PROVE  InLine(out, Append(last, Head(mid)), Tail(mid), first, in, intact)
<1> DEFINE past == out \o last
<1>1. past \in Seq(S) /\ Head(mid) \in S
  OBVIOUS
<1>2. out \o Append(last, Head(mid)) = Append(past, Head(mid))
  <2> DEFINE x == Head(mid)
  <2>1. x \in S
    OBVIOUS
  <2> HIDE DEF x
  <2>2. out \o Append(last, x) = Append(past, x)
    BY <2>1, AppendToLast
  <2> QED
    BY <2>2 DEF x
<1> HIDE DEF past
<1>3. Append(past, Head(mid)) \o Tail(mid) = past \o mid
  BY <1>1, HandOn
<1> QED
  BY <1>2, <1>3 DEF InLine, past

\* Taken out at the other end: it is what was put in next.
LEMMA LineTake ==
    ASSUME NEW out \in Seq(Nat), NEW last \in Seq(Nat), NEW mid \in Seq(Nat),
           NEW first \in Seq(Nat), NEW in \in Seq(Nat), NEW intact \in BOOLEAN,
           InLine(out, last, mid, first, in, intact), last # <<>>
    PROVE  /\ InLine(Append(out, Head(last)), Tail(last), mid, first, in, intact)
           /\ Len(out) < Len(in)
           /\ Head(last) = in[Len(out) + 1]
<1> DEFINE past == (out \o last) \o mid
<1>1. Append(out, Head(last)) \o Tail(last) = out \o last
  BY HandOn
<1>2. past \in Seq(Nat) /\ Len(past) >= Len(out) + 1 /\ past[Len(out) + 1] = Head(last)
  OBVIOUS
<1>3. IsPrefix(past, in)
  BY DEF InLine
<1> HIDE DEF past
<1>4. Len(past) <= Len(in) /\ \A i \in 1 .. Len(past) : past[i] = in[i]
  BY <1>2, <1>3, PrefixElements
<1>5. Len(out) < Len(in) /\ Head(last) = in[Len(out) + 1]
  BY <1>2, <1>4, SMTT(30)
<1> QED
  BY <1>1, <1>5 DEF InLine

\* Cut off: what is left is still the beginning.
LEMMA LineCut ==
    ASSUME NEW S, NEW out \in Seq(S), NEW last \in Seq(S), NEW mid \in Seq(S),
           NEW first \in Seq(S), NEW in \in Seq(S), NEW intact \in BOOLEAN,
           InLine(out, last, mid, first, in, intact), NEW other
    PROVE  /\ InLine(out, last, mid, other, in, FALSE)
           /\ InLine(out, last, <<>>, other, in, FALSE)
<1>1. out \o last \in Seq(S) /\ (out \o last) \o <<>> = out \o last
  OBVIOUS
<1>2. IsPrefix((out \o last) \o mid, in)
  BY DEF InLine
<1>3. IsPrefix(out \o last, in)
  BY <1>1, <1>2, PrefixOfPrefix
<1> QED
  BY <1>1, <1>2, <1>3 DEF InLine

-----------------------------------------------------------------------------
(* Channels                                                                *)

\* No channel holds more than it may.
ChannelsOK ==
    chan \in [Channels -> Seq(Nat)] /\ \A c \in Channels : Len(chan[c]) <= Cap

\* The head of channel c goes, to nowhere or into somebody's hand.
LEMMA ChannelTail ==
    ASSUME ChannelsOK, NEW c \in Channels, chan[c] # <<>>,
           chan' = [chan EXCEPT ![c] = Tail(@)]
    PROVE  /\ ChannelsOK'
           /\ chan'[c] = Tail(chan[c])
           /\ \A k \in Channels \ {c} : chan'[k] = chan[k]
<1>1. chan[c] \in Seq(Nat) /\ Len(chan[c]) <= Cap /\ Cap \in Nat
  BY CapsArePositive DEF ChannelsOK
<1>2. Tail(chan[c]) \in Seq(Nat) /\ Len(Tail(chan[c])) <= Cap
  BY <1>1
<1> QED
  BY <1>2 DEF ChannelsOK

\* Something is put into channel d.
LEMMA ChannelAppend ==
    ASSUME ChannelsOK, NEW d \in Channels, HasRoom(d), NEW x \in Nat,
           chan' = [chan EXCEPT ![d] = Append(@, x)]
    PROVE  /\ ChannelsOK'
           /\ chan'[d] = Append(chan[d], x)
           /\ \A k \in Channels \ {d} : chan'[k] = chan[k]
<1>1. chan[d] \in Seq(Nat) /\ Len(chan[d]) < Cap /\ Cap \in Nat
  BY CapsArePositive DEF ChannelsOK, HasRoom
<1>2. Append(chan[d], x) \in Seq(Nat) /\ Len(Append(chan[d], x)) <= Cap
  BY <1>1
<1> QED
  BY <1>2 DEF ChannelsOK

\* A task hands on the head of channel c to channel d.
Moved(c, d) ==
    /\ chan[c] # <<>>
    /\ chan'[c] = Tail(chan[c])
    /\ chan'[d] = Append(chan[d], Head(chan[c]))
    /\ \A k \in Channels \ {c, d} : chan'[k] = chan[k]

\* One round of a passing task does just that, and overfills nothing.
LEMMA ChannelMove ==
    ASSUME ChannelsOK, NEW t, NEW c \in Channels, NEW d \in Channels, c # d, Move(t, c, d)
    PROVE  ChannelsOK' /\ Moved(c, d)
<1>1. chan[c] \in Seq(Nat) /\ chan[d] \in Seq(Nat) /\ Len(chan[c]) <= Cap /\ Len(chan[d]) < Cap
  BY DEF ChannelsOK, HasRoom, Move
<1>2. chan[c] # <<>> /\ Cap \in Nat
  BY CapsArePositive DEF Move
<1>3. Head(chan[c]) \in Nat /\ Tail(chan[c]) \in Seq(Nat) /\ Len(Tail(chan[c])) <= Cap
  BY <1>1, <1>2
<1>4. Append(chan[d], Head(chan[c])) \in Seq(Nat) /\ Len(Append(chan[d], Head(chan[c]))) <= Cap
  <2> DEFINE x == Head(chan[c])
  <2>1. x \in Nat
    BY <1>3
  <2> HIDE DEF x
  <2>2. Append(chan[d], x) \in Seq(Nat) /\ Len(Append(chan[d], x)) <= Cap
    BY <1>1, <1>2, <2>1
  <2> QED
    BY <2>2 DEF x
<1>5. chan' = [chan EXCEPT ![c] = Tail(chan[c]), ![d] = Append(chan[d], Head(chan[c]))]
  BY DEF Move
<1>6. /\ chan'[c] = Tail(chan[c]) /\ chan'[d] = Append(chan[d], Head(chan[c]))
      /\ \A k \in Channels \ {c, d} : chan'[k] = chan[k]
      /\ DOMAIN chan' = Channels
  BY <1>5 DEF ChannelsOK
<1>7. \A k \in Channels : chan'[k] \in Seq(Nat) /\ Len(chan'[k]) <= Cap
  BY <1>3, <1>4, <1>6 DEF ChannelsOK
<1>8. chan' \in [Channels -> Seq(Nat)]
  BY <1>5, <1>6, <1>7 DEF ChannelsOK
<1> QED
  BY <1>2, <1>6, <1>7, <1>8 DEF ChannelsOK, Moved

\* Channels lose what is in them with the task that receives from them.
LEMMA ChannelEnd ==
    ASSUME ChannelsOK, NEW tasks, NEW from, End(tasks, from)
    PROVE  /\ ChannelsOK'
           /\ \A k \in Channels : chan'[k] = IF k \in from THEN <<>> ELSE chan[k]
<1>1. <<>> \in Seq(Nat) /\ Len(<<>>) <= Cap
  BY CapsArePositive
<1> QED
  BY <1>1 DEF ChannelsOK, End

-----------------------------------------------------------------------------
(* Types                                                                   *)

\* TypeOK covers the channels, before and after a step.
LEMMA ChannelTypes == (TypeOK => ChannelsOK) /\ (TypeOK' => ChannelsOK')
BY DEF TypeOK, ChannelsOK

\* Types of the initial state.
LEMMA TypeInit == Init => TypeOK
<1> SUFFICES ASSUME Init PROVE TypeOK
  OBVIOUS
<1>1. issued \in 0 .. Len(Program) /\ subs \in Nat
  BY CapsArePositive DEF Init
<1>2. backlog \in 0 .. (IF subs = 0 THEN 0 ELSE TopicCap + 1)
  BY DEF Init
<1>3. call \in Seq([by : Handles, cmd : DOMAIN Program]) /\ Len(call) <= 1
  BY DEF Init
<1>4. hand \in Seq(Nat) /\ Len(hand) <= 1
  BY DEF Init
<1>5. /\ accepted \in Seq(Nat) /\ handled \in Seq(Nat)
      /\ queued \in Seq(Nat) /\ received \in Seq(Nat)
  BY DEF Init
<1>6. chan \in [Channels -> Seq(Nat)] /\ \A c \in Channels : Len(chan[c]) <= Cap
  BY CapsArePositive DEF Init
<1>7. broken \in BOOLEAN
  BY DEF Init
<1> QED
  BY <1>1, <1>2, <1>3, <1>4, <1>5, <1>6, <1>7 DEF Init, TypeOK

\* A step that changes only channels.
LEMMA ChannelStepTypes ==
    ASSUME TypeOK, ChannelsOK', broken' \in BOOLEAN, UNCHANGED <<app, alive, handler, history>>
    PROVE  TypeOK'
BY DEF TypeOK, ChannelsOK, app, handler, history

\* Tasks end.
LEMMA EndTypes ==
    ASSUME TypeOK, NEW tasks, NEW from, End(tasks, from), UNCHANGED <<issued, broken, history>>,
           \/ UNCHANGED <<call, handles>>
           \/ call' = <<>> /\ handles' = {}
    PROVE  TypeOK'
<1>1. ChannelsOK'
  BY ChannelEnd, ChannelTypes
<1>2. subs' \in Nat /\ backlog' \in 0 .. (IF subs' = 0 THEN 0 ELSE TopicCap + 1)
  BY DEF End, TypeOK, handler
<1>3. hand' \in Seq(Nat) /\ Len(hand') <= 1
  <2>1. hand' = <<>> \/ hand' = hand
    BY DEF End, handler
  <2>2. hand \in Seq(Nat) /\ Len(hand) <= 1
    BY DEF TypeOK
  <2>3. CASE hand' = <<>>
    BY <2>3
  <2>4. CASE hand' = hand
    BY <2>2, <2>4
  <2> QED
    BY <2>1, <2>3, <2>4
<1>4. call' \in Seq([by : Handles, cmd : DOMAIN Program]) /\ Len(call') <= 1
  <2>1. call \in Seq([by : Handles, cmd : DOMAIN Program]) /\ Len(call) <= 1
    BY DEF TypeOK
  <2>2. CASE call' = <<>>
    BY <2>2
  <2>3. CASE call' = call
    BY <2>1, <2>3
  <2> QED
    BY <2>2, <2>3
<1>5. alive' \subseteq ClientTasks \cup ServerTasks
  BY DEF End, TypeOK
<1> QED
  BY <1>1, <1>2, <1>3, <1>4, <1>5 DEF TypeOK, ChannelsOK, history

\* A call that is under way.
LEMMA CallType ==
    ASSUME TypeOK, call # <<>>
    PROVE  call[1].by \in Handles /\ call[1].cmd \in DOMAIN Program /\ call[1].cmd \in Nat
<1> DEFINE Calls == [by : Handles, cmd : DOMAIN Program]
<1>1. call \in Seq(Calls)
  BY DEF TypeOK
<1>2. call[1] \in Calls
  <2> HIDE DEF Calls
  <2> QED
    BY <1>1
<1>3. DOMAIN Program \subseteq Nat
  BY CapsArePositive
<1> QED
  BY <1>2, <1>3

\* The application gives a command, or gives up.
LEMMA ApplicationTypes ==
    ASSUME TypeOK,
           \/ Recv \/ CallGoesOn
           \/ \E h \in Handles : Call(h) \/ DropHandle(h)
    PROVE  TypeOK'
<1> DEFINE Calls == [by : Handles, cmd : DOMAIN Program]
<1>c. call \in Seq(Calls) /\ Len(call) <= 1 /\ (call # <<>> => call[1].by \in handles)
  BY DEF TypeOK
<1>o. ChannelsOK
  BY ChannelTypes
<1>1. ASSUME NEW h \in Handles, Call(h) PROVE TypeOK'
  <2>1. issued' \in 0 .. Len(Program) /\ issued' \in DOMAIN Program
    <3>1. Program \in Seq({"sub", "unsub", "pub"})
      BY CapsArePositive
    <3>2. issued \in Nat /\ issued < Len(Program) /\ issued' = issued + 1
      BY <1>1 DEF Call, TypeOK
    <3> QED
      BY <3>1, <3>2
  <2>2. call' = <<[by |-> h, cmd |-> issued']>>
    BY <1>1 DEF Call
  <2>3. call' \in Seq(Calls) /\ Len(call') = 1 /\ call'[1].by = h
    BY <2>1, <2>2
  <2> QED
    BY <1>1, <2>1, <2>3 DEF Call, TypeOK, handler, history
<1>2. ASSUME NEW h \in Handles, Drop(h), call' = <<>> \/ (call' = call /\ ~Calling(h))
      PROVE  TypeOK'
  <2>1. ChannelsOK'
    <3>1. <<>> \in Seq(Nat) /\ Len(<<>>) <= Cap /\ "msgq" \in Channels
      BY CapsArePositive DEF Channels
    <3> QED
      BY <1>2, <1>o, <3>1 DEF Drop, ChannelsOK
  <2>2. call' \in Seq(Calls) /\ Len(call') <= 1
    <3>1. CASE call' = <<>>
      BY <3>1
    <3>2. CASE call' = call
      BY <1>c, <3>2
    <3> QED
      BY <1>2, <3>1, <3>2
  <2>3. call' # <<>> => call'[1].by \in handles'
    BY <1>2, <1>c DEF Drop, Calling
  <2>4. handles' \subseteq Handles
    BY <1>2 DEF Drop, TypeOK
  <2> QED
    BY <1>2, <2>1, <2>2, <2>3, <2>4 DEF Drop, TypeOK, ChannelsOK, handler, history
<1>3. ASSUME NEW h \in Handles, DropHandle(h) PROVE TypeOK'
  BY <1>2, <1>3 DEF DropHandle
<1>4. CASE CallPanics
  <2>1. call[1].by \in Handles
    BY <1>4, <1>c DEF CallPanics, TypeOK
  <2> QED
    BY <1>2, <1>4, <2>1 DEF CallPanics
<1>5. CASE CallReturns
  <2>1. call[1].cmd \in Nat
    BY <1>5, CallType DEF CallReturns
  <2>2. "cmdq" \in Channels /\ HasRoom("cmdq")
    BY <1>5 DEF CallReturns, Channels
  <2>3. chan' = [chan EXCEPT !["cmdq"] = Append(@, call[1].cmd)]
    BY <1>5 DEF CallReturns
  <2>4. ChannelsOK'
    BY <1>o, <2>1, <2>2, <2>3, ChannelAppend
  <2>5. accepted' \in Seq(Nat)
    BY <1>5, <2>1 DEF CallReturns, TypeOK
  <2>6. call' = <<>> /\ call' \in Seq(Calls) /\ Len(call') <= 1
    BY <1>5 DEF CallReturns
  <2> QED
    BY <1>5, <2>4, <2>5, <2>6 DEF CallReturns, TypeOK, ChannelsOK, handler
<1>6. CASE Recv
  <2>1. "msgq" \in Channels /\ chan["msgq"] # <<>> /\ chan["msgq"] \in Seq(Nat)
    BY <1>6, <1>o DEF Recv, Channels, ChannelsOK
  <2>2. chan' = [chan EXCEPT !["msgq"] = Tail(@)]
    BY <1>6 DEF Recv
  <2>3. ChannelsOK'
    BY <1>o, <2>1, <2>2, ChannelTail
  <2>4. received' \in Seq(Nat)
    <3>1. Head(chan["msgq"]) \in Nat
      BY <2>1
    <3>2. received' = Append(received, Head(chan["msgq"])) /\ received \in Seq(Nat)
      BY <1>6 DEF Recv, TypeOK
    <3> QED
      BY <3>1, <3>2
  <2> QED
    BY <1>6, <2>3, <2>4 DEF Recv, TypeOK, ChannelsOK, app, handler
<1> QED
  BY <1>1, <1>3, <1>4, <1>5, <1>6 DEF CallGoesOn

\* Items are passed on or lost on the way.
LEMMA PassingTypes ==
    ASSUME TypeOK,
           \/ WriterSend \/ ReaderSend \/ RLoopSend \/ WLoopWrite
           \/ ReaderDiscards \/ RLoopDiscards
           \/ WriterSendIsReset \/ WLoopWriteIsReset
    PROVE  TypeOK'
<1>o. ChannelsOK /\ broken \in BOOLEAN
  BY ChannelTypes DEF TypeOK
<1>1. ASSUME NEW t, NEW c \in Channels, NEW d \in Channels \ {c}, Move(t, c, d) PROVE TypeOK'
  <2>1. ChannelsOK'
    BY <1>1, <1>o, ChannelMove
  <2> QED
    BY <1>1, <1>o, <2>1, ChannelStepTypes DEF Move
<1>2. ASSUME NEW t, NEW c \in Channels, Discard(t, c) PROVE TypeOK'
  <2>1. ChannelsOK'
    BY <1>2, <1>o, ChannelTail DEF Discard
  <2> QED
    BY <1>2, <1>o, <2>1, ChannelStepTypes DEF Discard
<1>3. ASSUME NEW t, NEW c \in Channels, NEW peers, WriteIsReset(t, c, peers) PROVE TypeOK'
  <2>1. ChannelsOK'
    BY <1>3, <1>o, ChannelTail DEF WriteIsReset
  <2> QED
    BY <1>3, <2>1, ChannelStepTypes DEF WriteIsReset
<1> QED
  BY <1>1, <1>2, <1>3 DEF WriterSend, ReaderSend, RLoopSend, WLoopWrite, ReaderDiscards,
       RLoopDiscards, WriterSendIsReset, WLoopWriteIsReset, Channels

\* Tasks end, or one of the processes does.
LEMMA EndingTypes ==
    ASSUME TypeOK,
           \/ WriterPanics \/ WriterNone \/ ReaderNone \/ ReaderPanics \/ RLoopNone \/ RLoopFails
           \/ HandlerNone \/ ForwardFails \/ WLoopFails \/ WLoopElse
           \/ ClientDies \/ ServerDies
    PROVE  TypeOK'
<1>1. ASSUME NEW t, NEW from, Ends(t, from) PROVE TypeOK'
  BY <1>1, EndTypes DEF Ends, app
<1>2. CASE ClientDies
  BY <1>2, EndTypes DEF ClientDies
<1>3. CASE ServerDies
  BY <1>3, EndTypes DEF ServerDies, app
<1> QED
  BY <1>1, <1>2, <1>3 DEF WriterPanics, WriterNone, ReaderNone, ReaderPanics, RLoopNone,
       RLoopFails, HandlerNone, ForwardFails, WLoopFails, WLoopElse

\* The handler deals with a command or a message.
LEMMA HandlerTypes ==
    ASSUME TypeOK, HandleCommand \/ OthersPublish \/ StreamBranch \/ Forward
    PROVE  TypeOK'
<1>o. ChannelsOK /\ "inq" \in Channels /\ "outq" \in Channels /\ TopicCap \in Nat
  BY ChannelTypes, CapsArePositive DEF Channels
<1>q. queued \in Seq(Nat) /\ handled \in Seq(Nat) /\ hand \in Seq(Nat) /\ Len(hand) <= 1
  BY DEF TypeOK
<1>b. subs \in Nat /\ backlog \in 0 .. (IF subs = 0 THEN 0 ELSE TopicCap + 1)
  BY DEF TypeOK
<1>1. CASE HandleCommand
  <2>1. chan["inq"] # <<>> /\ chan["inq"] \in Seq(Nat)
    BY <1>1, <1>o DEF HandleCommand, ChannelsOK
  <2>2. handled' \in Seq(Nat)
    <3>1. Head(chan["inq"]) \in Nat
      BY <2>1
    <3>2. handled' = Append(handled, Head(chan["inq"]))
      BY <1>1 DEF HandleCommand
    <3> QED
      BY <1>q, <3>1, <3>2
  <2>3. CASE Subscribe
    <3> DEFINE sent == IF subs = 0 /\ "wloop" \in alive /\ HasRoom("outq")
                       THEN <<Len(queued) + 1>> ELSE <<>>
    <3>1. /\ subs' = subs + 1 /\ backlog' = backlog /\ queued' = queued \o sent
          /\ chan' = [chan EXCEPT !["inq"] = Tail(@), !["outq"] = @ \o sent]
      BY <2>3 DEF Subscribe
    <3>2. sent \in Seq(Nat) /\ (sent = <<>> \/ (Len(sent) = 1 /\ HasRoom("outq")))
      BY <1>q
    <3> HIDE DEF sent
    <3>3. queued' \in Seq(Nat)
      BY <1>q, <3>1, <3>2
    <3>4. subs' \in Nat /\ backlog' \in 0 .. (IF subs' = 0 THEN 0 ELSE TopicCap + 1)
      BY <1>b, <1>o, <3>1
    <3>5. ChannelsOK'
      <4>1. chan["outq"] \in Seq(Nat) /\ Len(chan["outq"]) <= Cap /\ Len(chan["inq"]) <= Cap /\ Cap \in Nat
        BY <1>o, CapsArePositive DEF ChannelsOK
      <4>2. Tail(chan["inq"]) \in Seq(Nat) /\ Len(Tail(chan["inq"])) <= Cap
        BY <2>1, <4>1
      <4>3. chan["outq"] \o sent \in Seq(Nat) /\ Len(chan["outq"] \o sent) <= Cap
        <5>1. CASE sent = <<>>
          BY <4>1, <5>1
        <5>2. CASE Len(sent) = 1 /\ Len(chan["outq"]) < Cap
          <6>1. /\ chan["outq"] \o sent \in Seq(Nat)
                /\ Len(chan["outq"] \o sent) = Len(chan["outq"]) + Len(sent)
            BY <3>2, <4>1
          <6>2. Len(chan["outq"]) \in Nat
            BY <4>1
          <6> QED
            BY <4>1, <5>2, <6>1, <6>2
        <5> QED
          BY <3>2, <5>1, <5>2 DEF HasRoom
      <4> QED
        BY <1>o, <3>1, <4>2, <4>3 DEF ChannelsOK
    <3> QED
      BY <1>1, <2>2, <3>3, <3>4, <3>5 DEF HandleCommand, TypeOK, ChannelsOK, app
  <2>4. CASE Unsubscribe
    <3>1. ChannelsOK'
      BY <1>o, <2>1, <2>4, ChannelTail DEF Unsubscribe
    <3>2. subs' \in Nat /\ backlog' \in 0 .. (IF subs' = 0 THEN 0 ELSE TopicCap + 1)
      BY <1>b, <1>o, <2>4 DEF Unsubscribe
    <3> QED
      BY <1>1, <2>2, <2>4, <3>1, <3>2 DEF Unsubscribe, HandleCommand, TypeOK, ChannelsOK, app
  <2>5. CASE Publish
    <3>1. ChannelsOK'
      BY <1>o, <2>1, <2>5, ChannelTail DEF Publish
    <3>2. subs' = subs /\ backlog' \in 0 .. (IF subs = 0 THEN 0 ELSE TopicCap + 1)
      BY <1>b, <1>o, <2>5 DEF Publish, Broadcast
    <3> QED
      BY <1>1, <2>2, <2>5, <3>1, <3>2 DEF Publish, HandleCommand, TypeOK, ChannelsOK, app
  <2> QED
    BY <1>1, <2>3, <2>4, <2>5 DEF HandleCommand
<1>2. CASE OthersPublish
  <2>1. subs' = subs /\ backlog' \in 0 .. (IF subs = 0 THEN 0 ELSE TopicCap + 1)
    BY <1>2, <1>b, <1>o DEF OthersPublish, Broadcast
  <2> QED
    BY <1>2, <2>1 DEF OthersPublish, TypeOK, app, history
<1>3. CASE StreamOk
  <2>1. subs' = subs /\ backlog' \in 0 .. (IF subs = 0 THEN 0 ELSE TopicCap + 1)
    BY <1>3, <1>b, <1>o DEF StreamOk
  <2>2. hand' \in Seq(Nat) /\ Len(hand') <= 1
    <3>1. Len(queued) + 1 \in Nat /\ hand' = <<Len(queued) + 1>>
      BY <1>3, <1>q DEF StreamOk
    <3> QED
      BY <3>1
  <2> QED
    BY <1>3, <2>1, <2>2 DEF StreamOk, TypeOK, app, history
<1>4. CASE StreamLagged
  <2>1. subs' = subs /\ backlog' \in 0 .. (IF subs = 0 THEN 0 ELSE TopicCap + 1)
    BY <1>4, <1>b, <1>o DEF StreamLagged
  <2> QED
    BY <1>4, <2>1 DEF StreamLagged, TypeOK, app, history
<1>5. CASE Forward
  <2>1. hand # <<>> /\ hand' = <<>> /\ HasRoom("outq") /\ queued' = queued \o hand
    BY <1>5 DEF Forward
  <2>2. queued' \in Seq(Nat) /\ hand' \in Seq(Nat) /\ Len(hand') <= 1
    BY <1>q, <2>1
  <2>3. ChannelsOK'
    <3>1. chan["outq"] \in Seq(Nat) /\ Len(chan["outq"]) < Cap /\ Cap \in Nat
      BY <1>o, <2>1, CapsArePositive DEF ChannelsOK, HasRoom
    <3>2. chan["outq"] \o hand \in Seq(Nat) /\ Len(chan["outq"] \o hand) <= Cap
      BY <1>q, <3>1
    <3>3. chan' = [chan EXCEPT !["outq"] = @ \o hand]
      BY <1>5 DEF Forward
    <3> QED
      BY <1>o, <3>2, <3>3 DEF ChannelsOK
  <2> QED
    BY <1>5, <2>2, <2>3 DEF Forward, TypeOK, ChannelsOK, app
<1> QED
  BY <1>1, <1>2, <1>3, <1>4, <1>5 DEF StreamBranch

\* Every step of every task keeps the types.
LEMMA TypeStep == TypeOK /\ [Next]_vars => TypeOK'
<1> SUFFICES ASSUME TypeOK, [Next]_vars PROVE TypeOK'
  OBVIOUS
<1>1. CASE ConnectionBreaks
  <2>1. ChannelsOK'
    BY <1>1, ChannelTypes DEF ConnectionBreaks, ChannelsOK
  <2> QED
    BY <1>1, <2>1, ChannelStepTypes DEF ConnectionBreaks
<1>2. CASE UNCHANGED vars
  BY <1>2 DEF vars, app, handler, history, TypeOK
<1> QED
  BY <1>1, <1>2, ApplicationTypes, PassingTypes, EndingTypes, HandlerTypes
     DEF Next, Application, Tasks, Writer, Reader, RLoop, WLoop, CommandBranch, Forwarding

-----------------------------------------------------------------------------
(* Commands on their way to the handler                                    *)

\* Before the first call there is no command anywhere.
LEMMA CommandsInit == Init => CommandsInLine
<1> SUFFICES ASSUME Init PROVE CommandsInLine
  OBVIOUS
<1>1. /\ handled = <<>> /\ accepted = <<>>
      /\ chan["inq"] = <<>> /\ chan["c2s"] = <<>> /\ chan["cmdq"] = <<>>
  BY DEF Init, Channels
<1>2. (<<>> \o <<>>) \o <<>> = <<>> /\ <<>> \o <<>> = <<>> /\ IsPrefix(<<>>, <<>>)
  BY DEF IsPrefix
<1> QED
  BY <1>1, <1>2 DEF CommandsInLine, InLine

\* Nobody touches the commands; the direction may stop being intact.
LEMMA CommandsUntouched ==
    ASSUME TypeOK, CommandsInLine, UNCHANGED <<accepted, handled>>, alive' \subseteq alive,
           broken => broken',
           \A k \in {"inq", "c2s", "cmdq"} : chan'[k] = chan[k]
    PROVE  CommandsInLine'
BY DEF CommandsInLine, InLine

\* The handler ends: what it has handled is all there will be.
LEMMA CommandsOver ==
    ASSUME CommandsInLine, UNCHANGED <<accepted, handled>>, "handler" \notin alive'
    PROVE  CommandsInLine'
BY DEF CommandsInLine

\* The line of the commands, for the lemmas about one direction.
LEMMA CommandsLine ==
    ASSUME TypeOK, CommandsInLine, "handler" \in alive
    PROVE  /\ handled \in Seq(Nat) /\ accepted \in Seq(Nat)
           /\ chan["inq"] \in Seq(Nat) /\ chan["c2s"] \in Seq(Nat) /\ chan["cmdq"] \in Seq(Nat)
           /\ (~broken /\ "writer" \in alive) \in BOOLEAN
           /\ InLine(handled, chan["inq"], chan["c2s"], chan["cmdq"], accepted,
                     ~broken /\ "writer" \in alive)
BY DEF TypeOK, CommandsInLine, Channels

\* A call returns.
LEMMA CommandsCall ==
    ASSUME TypeOK, CommandsInLine, CallReturns
    PROVE  CommandsInLine'
<1>1. call[1].cmd \in Nat
  BY CallType DEF CallReturns
<1>2. /\ accepted' = Append(accepted, call[1].cmd) /\ handled' = handled
      /\ chan'["cmdq"] = Append(chan["cmdq"], call[1].cmd)
      /\ chan'["inq"] = chan["inq"] /\ chan'["c2s"] = chan["c2s"]
      /\ alive' = alive /\ broken' = broken
  BY DEF CallReturns, TypeOK, Channels
<1>3. IsPrefix(handled', accepted')
  <2>1. handled \in Seq(Nat) /\ accepted \in Seq(Nat) /\ IsPrefix(handled, accepted)
    BY DEF TypeOK, CommandsInLine
  <2> QED
    BY <1>1, <1>2, <2>1, PrefixOfAppend
<1>4. ASSUME "handler" \in alive
      PROVE  InLine(handled, chan["inq"], chan["c2s"], Append(chan["cmdq"], call[1].cmd),
                    Append(accepted, call[1].cmd), ~broken /\ "writer" \in alive)
  BY <1>1, <1>4, CommandsLine, LinePut
<1> QED
  BY <1>2, <1>3, <1>4 DEF CommandsInLine

\* The client's writer task hands a command to the socket.
LEMMA CommandsWriter ==
    ASSUME TypeOK, CommandsInLine, WriterSend
    PROVE  CommandsInLine'
<1>1. /\ UNCHANGED <<accepted, handled, alive, broken>> /\ ~broken /\ "writer" \in alive
      /\ Move("writer", "cmdq", "c2s")
  BY DEF WriterSend, Move, history
<1>2. /\ chan["cmdq"] # <<>> /\ chan'["cmdq"] = Tail(chan["cmdq"])
      /\ chan'["c2s"] = Append(chan["c2s"], Head(chan["cmdq"])) /\ chan'["inq"] = chan["inq"]
  <2>1. "cmdq" \in Channels /\ "c2s" \in Channels \ {"cmdq"} /\ "inq" \in Channels \ {"cmdq", "c2s"}
    BY DEF Channels
  <2>2. ChannelsOK
    BY ChannelTypes
  <2>3. Moved("cmdq", "c2s")
    BY <1>1, <2>1, <2>2, ChannelMove
  <2> QED
    BY <2>1, <2>3 DEF Moved
<1>3. ASSUME "handler" \in alive
      PROVE  InLine(handled, chan["inq"], Append(chan["c2s"], Head(chan["cmdq"])),
                    Tail(chan["cmdq"]), accepted, TRUE)
  <2>1. InLine(handled, chan["inq"], chan["c2s"], chan["cmdq"], accepted, TRUE)
    BY <1>1, <1>3, CommandsLine DEF InLine
  <2> QED
    BY <1>2, <1>3, <2>1, CommandsLine, LineFirst
<1> QED
  BY <1>1, <1>2, <1>3 DEF CommandsInLine, InLine

\* The read loop hands a command to the handler.
LEMMA CommandsReadLoop ==
    ASSUME TypeOK, CommandsInLine, RLoopSend
    PROVE  CommandsInLine'
<1>1. /\ UNCHANGED <<accepted, handled, alive, broken>>
      /\ "handler" \in alive /\ Move("rloop", "c2s", "inq")
  BY DEF RLoopSend, Move, history
<1>2. /\ chan["c2s"] # <<>> /\ chan'["c2s"] = Tail(chan["c2s"])
      /\ chan'["inq"] = Append(chan["inq"], Head(chan["c2s"])) /\ chan'["cmdq"] = chan["cmdq"]
  <2>1. "c2s" \in Channels /\ "inq" \in Channels \ {"c2s"} /\ "cmdq" \in Channels \ {"c2s", "inq"}
    BY DEF Channels
  <2>2. ChannelsOK
    BY ChannelTypes
  <2>3. Moved("c2s", "inq")
    BY <1>1, <2>1, <2>2, ChannelMove
  <2> QED
    BY <2>1, <2>3 DEF Moved
<1>3. InLine(handled, Append(chan["inq"], Head(chan["c2s"])), Tail(chan["c2s"]),
             chan["cmdq"], accepted, ~broken /\ "writer" \in alive)
  BY <1>1, <1>2, CommandsLine, LineMid
<1> QED
  BY <1>1, <1>2, <1>3 DEF CommandsInLine

\* The handler takes a command: it is the next one that was accepted.
LEMMA CommandsHandled ==
    ASSUME TypeOK, CommandsInLine, HandleCommand
    PROVE  /\ CommandsInLine'
           /\ Len(handled) < Len(accepted)
           /\ handled' = Append(handled, accepted[Len(handled) + 1])
           /\ accepted' = accepted
<1>1. /\ UNCHANGED <<accepted, alive, broken>> /\ "handler" \in alive /\ chan["inq"] # <<>>
      /\ handled' = Append(handled, Head(chan["inq"]))
  BY DEF HandleCommand, InSelect, app
<1>2. /\ chan'["inq"] = Tail(chan["inq"]) /\ chan'["c2s"] = chan["c2s"]
      /\ chan'["cmdq"] = chan["cmdq"]
  BY DEF HandleCommand, Subscribe, Unsubscribe, Publish, TypeOK, Channels
<1>3. /\ InLine(Append(handled, Head(chan["inq"])), Tail(chan["inq"]), chan["c2s"],
                chan["cmdq"], accepted, ~broken /\ "writer" \in alive)
      /\ Len(handled) < Len(accepted)
      /\ Head(chan["inq"]) = accepted[Len(handled) + 1]
  BY <1>1, CommandsLine, LineTake
<1>4. IsPrefix(handled', accepted')
  <2>1. handled \in Seq(Nat) /\ accepted \in Seq(Nat) /\ IsPrefix(handled, accepted)
    BY DEF TypeOK, CommandsInLine
  <2>2. Len(handled) + 1 <= Len(accepted)
    BY <1>3, <2>1
  <2> QED
    BY <1>1, <1>3, <2>1, <2>2, PrefixGrows
<1> QED
  BY <1>1, <1>2, <1>3, <1>4 DEF CommandsInLine

\* The connection is cut between the client's writer task and the read loop.
LEMMA CommandsCut ==
    ASSUME TypeOK, CommandsInLine, UNCHANGED <<accepted, handled>>, alive' \subseteq alive,
           broken' \/ "writer" \notin alive',
           chan'["inq"] = chan["inq"], chan'["c2s"] = chan["c2s"] \/ chan'["c2s"] = <<>>
    PROVE  CommandsInLine'
<1>1. ASSUME "handler" \in alive
      PROVE  /\ InLine(handled, chan["inq"], chan["c2s"], chan'["cmdq"], accepted, FALSE)
             /\ InLine(handled, chan["inq"], <<>>, chan'["cmdq"], accepted, FALSE)
  BY <1>1, CommandsLine, LineCut
<1> QED
  BY <1>1 DEF CommandsInLine, InLine

\* Every step keeps the commands in line, those that lose some included.
LEMMA CommandsStep == TypeOK /\ CommandsInLine /\ [Next]_vars => CommandsInLine'
<1> SUFFICES ASSUME TypeOK, CommandsInLine, [Next]_vars PROVE CommandsInLine'
  OBVIOUS
<1>c. chan \in [Channels -> Seq(Nat)] /\ {"inq", "c2s", "cmdq"} \subseteq Channels
  BY DEF TypeOK, Channels
<1>1. CASE CallReturns
  BY <1>1, CommandsCall
<1>2. CASE WriterSend
  BY <1>2, CommandsWriter
<1>3. CASE RLoopSend
  BY <1>3, CommandsReadLoop
<1>4. CASE HandleCommand
  BY <1>4, CommandsHandled
<1>5. CASE WriterSendIsReset
  <2>1. /\ UNCHANGED <<accepted, handled>> /\ alive' = alive /\ broken'
        /\ chan'["inq"] = chan["inq"] /\ chan'["c2s"] = chan["c2s"]
    BY <1>5, <1>c DEF WriterSendIsReset, WriteIsReset, history
  <2> QED
    BY <2>1, CommandsCut
<1>6. CASE WriterPanics
  <2>1. /\ UNCHANGED <<accepted, handled>> /\ alive' \subseteq alive /\ "writer" \notin alive'
        /\ chan'["inq"] = chan["inq"] /\ chan'["c2s"] = chan["c2s"]
    BY <1>6, <1>c DEF WriterPanics, Ends, End, history
  <2> QED
    BY <2>1, CommandsCut
<1>7. CASE RLoopFails
  <2>1. /\ UNCHANGED <<accepted, handled>> /\ alive' \subseteq alive /\ broken'
        /\ chan'["inq"] = chan["inq"] /\ chan'["c2s"] = <<>>
    BY <1>7, <1>c DEF RLoopFails, Ends, End, history
  <2> QED
    BY <2>1, CommandsCut
<1>8. CASE ClientDies
  <2>1. /\ UNCHANGED <<accepted, handled>> /\ alive' \subseteq alive /\ "writer" \notin alive'
        /\ chan'["inq"] = chan["inq"] /\ chan'["c2s"] = chan["c2s"]
    BY <1>8, <1>c DEF ClientDies, ClientTasks, End, history
  <2> QED
    BY <2>1, CommandsCut
<1>9. CASE RLoopDiscards \/ ForwardFails \/ ServerDies
  <2>1. UNCHANGED <<accepted, handled>> /\ "handler" \notin alive'
    BY <1>9 DEF RLoopDiscards, Discard, ForwardFails, Ends, End, ServerDies, ServerTasks, history
  <2> QED
    BY <2>1, CommandsOver
<1>10. CASE \/ \E h \in Handles : Call(h) \/ DropHandle(h)
            \/ CallPanics \/ Recv
  <2>1. /\ UNCHANGED <<accepted, handled, alive, broken>>
        /\ \A k \in {"inq", "c2s", "cmdq"} : chan'[k] = chan[k]
    BY <1>10, <1>c DEF Call, DropHandle, CallPanics, Drop, Recv, history
  <2> QED
    BY <2>1, CommandsUntouched
<1>11. CASE ReaderSend \/ ReaderDiscards \/ WLoopWrite \/ WLoopWriteIsReset
  <2>1. /\ UNCHANGED <<accepted, handled>> /\ alive' = alive /\ (broken => broken')
        /\ \A k \in {"inq", "c2s", "cmdq"} : chan'[k] = chan[k]
    <3>1. CASE ReaderSend
      BY <3>1, <1>c DEF ReaderSend, Move, history
    <3>3. CASE ReaderDiscards
      BY <3>3, <1>c DEF ReaderDiscards, Discard, history
    <3>2. CASE WLoopWrite \/ WLoopWriteIsReset
      BY <3>2, <1>c DEF WLoopWrite, WLoopWriteIsReset, Move, WriteIsReset, history
    <3> QED
      BY <1>11, <3>1, <3>2, <3>3
  <2> QED
    BY <2>1, CommandsUntouched
<1>12. CASE WriterNone \/ ReaderNone \/ ReaderPanics \/ RLoopNone \/ HandlerNone \/ WLoopFails
              \/ WLoopElse
  <2>1. /\ UNCHANGED <<accepted, handled, broken>> /\ alive' \subseteq alive
        /\ \A k \in {"inq", "c2s", "cmdq"} : chan'[k] = chan[k]
    BY <1>12, <1>c DEF WriterNone, ReaderNone, ReaderPanics, RLoopNone, HandlerNone, WLoopFails,
                       WLoopElse, Ends, End, history
  <2> QED
    BY <2>1, CommandsUntouched
<1>13. CASE OthersPublish \/ StreamOk \/ StreamLagged \/ Forward \/ ConnectionBreaks
              \/ UNCHANGED vars
  <2>1. /\ UNCHANGED <<accepted, handled, alive>> /\ (broken => broken')
        /\ \A k \in {"inq", "c2s", "cmdq"} : chan'[k] = chan[k]
    BY <1>13, <1>c DEF OthersPublish, StreamOk, StreamLagged, Forward, ConnectionBreaks, vars,
                       history
  <2> QED
    BY <2>1, CommandsUntouched
<1> QED
  BY <1>1, <1>2, <1>3, <1>4, <1>5, <1>6, <1>7, <1>8, <1>9, <1>10, <1>11, <1>12, <1>13
     DEF Next, Application, Tasks, Writer, Reader, RLoop, WLoop, CommandBranch, StreamBranch,
         Forwarding, CallGoesOn

-----------------------------------------------------------------------------
(* Messages on their way to the application                                *)

\* At first no message is on its way.
LEMMA MessagesInit == Init => MessagesInLine
<1> SUFFICES ASSUME Init PROVE MessagesInLine
  OBVIOUS
<1>1. /\ received = <<>> /\ queued = <<>>
      /\ chan["msgq"] = <<>> /\ chan["s2c"] = <<>> /\ chan["outq"] = <<>>
  BY DEF Init, Channels
<1>2. (<<>> \o <<>>) \o <<>> = <<>> /\ <<>> \o <<>> = <<>> /\ IsPrefix(<<>>, <<>>)
  BY DEF IsPrefix
<1> QED
  BY <1>1, <1>2 DEF MessagesInLine, InLine

\* Nobody touches the messages; the direction may stop being intact.
LEMMA MessagesUntouched ==
    ASSUME TypeOK, MessagesInLine, UNCHANGED <<queued, received>>, alive' \subseteq alive,
           handles' \subseteq handles, broken => broken',
           \A k \in {"msgq", "s2c", "outq"} : chan'[k] = chan[k]
    PROVE  MessagesInLine'
BY DEF MessagesInLine, InLine

\* The line of the messages, for the lemmas about one direction.
LEMMA MessagesLine ==
    ASSUME TypeOK, MessagesInLine, "client" \in handles
    PROVE  /\ received \in Seq(Nat) /\ queued \in Seq(Nat)
           /\ chan["msgq"] \in Seq(Nat) /\ chan["s2c"] \in Seq(Nat) /\ chan["outq"] \in Seq(Nat)
           /\ (~broken /\ "wloop" \in alive) \in BOOLEAN
           /\ InLine(received, chan["msgq"], chan["s2c"], chan["outq"], queued,
                     ~broken /\ "wloop" \in alive)
BY DEF TypeOK, MessagesInLine, Channels

\* The handler queues a message for the client.
LEMMA MessagesQueue ==
    ASSUME TypeOK, MessagesInLine, UNCHANGED <<received, alive, broken, handles>>, NEW x \in Nat,
           queued' = Append(queued, x), chan'["outq"] = Append(chan["outq"], x),
           chan'["msgq"] = chan["msgq"], chan'["s2c"] = chan["s2c"]
    PROVE  MessagesInLine'
<1>1. ASSUME "client" \in handles
      PROVE  InLine(received, chan["msgq"], chan["s2c"], Append(chan["outq"], x),
                    Append(queued, x), ~broken /\ "wloop" \in alive)
  BY <1>1, MessagesLine, LinePut
<1> QED
  BY <1>1 DEF MessagesInLine

\* The write loop hands a message to the socket.
LEMMA MessagesWriteLoop ==
    ASSUME TypeOK, MessagesInLine, WLoopWrite
    PROVE  MessagesInLine'
<1>1. /\ UNCHANGED <<queued, received, alive, broken, handles>> /\ ~broken /\ "wloop" \in alive
      /\ Move("wloop", "outq", "s2c")
  BY DEF WLoopWrite, Move, app, history
<1>2. /\ chan["outq"] # <<>> /\ chan'["outq"] = Tail(chan["outq"])
      /\ chan'["s2c"] = Append(chan["s2c"], Head(chan["outq"])) /\ chan'["msgq"] = chan["msgq"]
  <2>1. "outq" \in Channels /\ "s2c" \in Channels \ {"outq"} /\ "msgq" \in Channels \ {"outq", "s2c"}
    BY DEF Channels
  <2>2. ChannelsOK
    BY ChannelTypes
  <2>3. Moved("outq", "s2c")
    BY <1>1, <2>1, <2>2, ChannelMove
  <2> QED
    BY <2>1, <2>3 DEF Moved
<1>3. ASSUME "client" \in handles
      PROVE  InLine(received, chan["msgq"], Append(chan["s2c"], Head(chan["outq"])),
                    Tail(chan["outq"]), queued, TRUE)
  <2>1. InLine(received, chan["msgq"], chan["s2c"], chan["outq"], queued, TRUE)
    BY <1>1, <1>3, MessagesLine DEF InLine
  <2> QED
    BY <1>2, <1>3, <2>1, MessagesLine, LineFirst
<1> QED
  BY <1>1, <1>2, <1>3 DEF MessagesInLine, InLine

\* The client's reader task hands a message to the application.
LEMMA MessagesReader ==
    ASSUME TypeOK, MessagesInLine, ReaderSend
    PROVE  MessagesInLine'
<1>1. /\ UNCHANGED <<queued, received, alive, broken, handles>>
      /\ "client" \in handles /\ Move("reader", "s2c", "msgq")
  BY DEF ReaderSend, Move, app, history
<1>2. /\ chan["s2c"] # <<>> /\ chan'["s2c"] = Tail(chan["s2c"])
      /\ chan'["msgq"] = Append(chan["msgq"], Head(chan["s2c"])) /\ chan'["outq"] = chan["outq"]
  <2>1. "s2c" \in Channels /\ "msgq" \in Channels \ {"s2c"} /\ "outq" \in Channels \ {"s2c", "msgq"}
    BY DEF Channels
  <2>2. ChannelsOK
    BY ChannelTypes
  <2>3. Moved("s2c", "msgq")
    BY <1>1, <2>1, <2>2, ChannelMove
  <2> QED
    BY <2>1, <2>3 DEF Moved
<1>3. InLine(received, Append(chan["msgq"], Head(chan["s2c"])), Tail(chan["s2c"]),
             chan["outq"], queued, ~broken /\ "wloop" \in alive)
  BY <1>1, <1>2, MessagesLine, LineMid
<1> QED
  BY <1>1, <1>2, <1>3 DEF MessagesInLine

\* recv() returns a message: it is the next one that was queued.
LEMMA MessagesReceived ==
    ASSUME TypeOK, MessagesInLine, Recv
    PROVE  /\ MessagesInLine'
           /\ Len(received) < Len(queued)
           /\ received' = Append(received, queued[Len(received) + 1])
           /\ queued' = queued
<1>1. /\ UNCHANGED <<queued, alive, broken, handles>> /\ "client" \in handles
      /\ chan["msgq"] # <<>> /\ received' = Append(received, Head(chan["msgq"]))
  BY DEF Recv, app
<1>2. /\ chan'["msgq"] = Tail(chan["msgq"]) /\ chan'["s2c"] = chan["s2c"]
      /\ chan'["outq"] = chan["outq"]
  BY DEF Recv, TypeOK, Channels
<1>3. /\ InLine(Append(received, Head(chan["msgq"])), Tail(chan["msgq"]), chan["s2c"],
                chan["outq"], queued, ~broken /\ "wloop" \in alive)
      /\ Len(received) < Len(queued)
      /\ Head(chan["msgq"]) = queued[Len(received) + 1]
  BY <1>1, MessagesLine, LineTake
<1> QED
  BY <1>1, <1>2, <1>3 DEF MessagesInLine

\* The connection is cut between the write loop and the client's reader task.
LEMMA MessagesCut ==
    ASSUME TypeOK, MessagesInLine, UNCHANGED <<queued, received, handles>>, alive' \subseteq alive,
           broken' \/ "wloop" \notin alive',
           chan'["msgq"] = chan["msgq"], chan'["s2c"] = chan["s2c"] \/ chan'["s2c"] = <<>>
    PROVE  MessagesInLine'
<1>1. ASSUME "client" \in handles
      PROVE  /\ InLine(received, chan["msgq"], chan["s2c"], chan'["outq"], queued, FALSE)
             /\ InLine(received, chan["msgq"], <<>>, chan'["outq"], queued, FALSE)
  BY <1>1, MessagesLine, LineCut
<1> QED
  BY <1>1 DEF MessagesInLine, InLine

\* The last message of a topic goes out with the first subscription, if there
\* is room.
LastMessage ==
    IF subs = 0 /\ "wloop" \in alive /\ HasRoom("outq") THEN <<Len(queued) + 1>> ELSE <<>>

\* handle_subscribe queues the last message of the topic or nothing, and
\* touches no other channel on the way to the client.
LEMMA SubscribeEffect ==
    ASSUME TypeOK, Subscribe
    PROVE  /\ queued' = queued \o LastMessage /\ chan'["outq"] = chan["outq"] \o LastMessage
           /\ chan'["msgq"] = chan["msgq"] /\ chan'["s2c"] = chan["s2c"]
           /\ backlog' = backlog
BY DEF Subscribe, LastMessage, TypeOK, Channels

\* What the handler queues goes to the end of the line.
LEMMA MessagesHandler ==
    ASSUME TypeOK, MessagesInLine, MessagesCounted, HandleCommand \/ Forward
    PROVE  MessagesInLine'
<1>t. queued \in Seq(Nat) /\ chan["outq"] \in Seq(Nat) /\ hand \in Seq(Nat)
  BY DEF TypeOK, Channels
<1>u. UNCHANGED <<received, alive, broken, handles>>
  BY DEF HandleCommand, Forward, app
<1>1. ASSUME NEW x \in Nat, queued' = queued \o <<x>>, chan'["outq"] = chan["outq"] \o <<x>>,
             chan'["msgq"] = chan["msgq"], chan'["s2c"] = chan["s2c"]
      PROVE  MessagesInLine'
  <2>1. queued' = Append(queued, x) /\ chan'["outq"] = Append(chan["outq"], x)
    BY <1>1, <1>t
  <2> QED
    BY <1>1, <1>u, <2>1, MessagesQueue
<1>2. ASSUME queued' = queued, \A k \in {"msgq", "s2c", "outq"} : chan'[k] = chan[k]
      PROVE  MessagesInLine'
  BY <1>2, <1>u, MessagesUntouched
<1>3. CASE HandleCommand /\ Subscribe
  <2>1. CASE LastMessage = <<>>
    <3>1. queued' = queued /\ chan'["outq"] = chan["outq"]
      BY <1>3, <1>t, <2>1, SubscribeEffect
    <3> QED
      BY <1>2, <1>3, <3>1, SubscribeEffect
  <2>2. CASE LastMessage = <<Len(queued) + 1>>
    <3>1. Len(queued) + 1 \in Nat
      BY <1>t
    <3> QED
      BY <1>1, <1>3, <2>2, <3>1, SubscribeEffect
  <2> QED
    BY <2>1, <2>2 DEF LastMessage
<1>4. CASE HandleCommand /\ (Unsubscribe \/ Publish)
  <2>1. queued' = queued /\ \A k \in {"msgq", "s2c", "outq"} : chan'[k] = chan[k]
    BY <1>4 DEF Unsubscribe, Publish, TypeOK, Channels
  <2> QED
    BY <1>2, <2>1
<1>5. CASE Forward
  <2>1. Len(queued) + 1 \in Nat /\ hand = <<Len(queued) + 1>>
    BY <1>5, <1>t DEF Forward, MessagesCounted
  <2>2. /\ queued' = queued \o hand /\ chan'["outq"] = chan["outq"] \o hand
        /\ chan'["msgq"] = chan["msgq"] /\ chan'["s2c"] = chan["s2c"]
    BY <1>5 DEF Forward, TypeOK, Channels
  <2> QED
    BY <1>1, <2>1, <2>2
<1> QED
  BY <1>3, <1>4, <1>5 DEF HandleCommand

\* Every step keeps the messages in line.
LEMMA MessagesStep ==
    TypeOK /\ MessagesInLine /\ MessagesCounted /\ [Next]_vars => MessagesInLine'
<1> SUFFICES ASSUME TypeOK, MessagesInLine, MessagesCounted, [Next]_vars PROVE MessagesInLine'
  OBVIOUS
<1>c. chan \in [Channels -> Seq(Nat)] /\ {"msgq", "s2c", "outq"} \subseteq Channels
  BY DEF TypeOK, Channels
<1>1. CASE HandleCommand \/ Forward
  BY <1>1, MessagesHandler
<1>2. CASE WLoopWrite
  BY <1>2, MessagesWriteLoop
<1>3. CASE ReaderSend
  BY <1>3, MessagesReader
<1>4. CASE Recv
  BY <1>4, MessagesReceived
<1>5. CASE WLoopWriteIsReset
  <2>1. /\ UNCHANGED <<queued, received, handles>> /\ alive' = alive /\ broken'
        /\ chan'["msgq"] = chan["msgq"] /\ chan'["s2c"] = chan["s2c"]
    BY <1>5, <1>c DEF WLoopWriteIsReset, WriteIsReset, app, history
  <2> QED
    BY <2>1, MessagesCut
<1>6. CASE WLoopFails
  <2>1. /\ UNCHANGED <<queued, received, handles>> /\ alive' \subseteq alive /\ broken'
        /\ chan'["msgq"] = chan["msgq"] /\ chan'["s2c"] = chan["s2c"]
    BY <1>6, <1>c DEF WLoopFails, Ends, End, app, history
  <2> QED
    BY <2>1, MessagesCut
<1>7. CASE ReaderPanics
  <2>1. /\ UNCHANGED <<queued, received, handles>> /\ alive' \subseteq alive /\ broken'
        /\ chan'["msgq"] = chan["msgq"] /\ chan'["s2c"] = <<>>
    BY <1>7, <1>c DEF ReaderPanics, Ends, End, app, history
  <2> QED
    BY <2>1, MessagesCut
<1>8. CASE ServerDies
  <2>1. /\ UNCHANGED <<queued, received, handles>> /\ alive' \subseteq alive
        /\ "wloop" \notin alive'
        /\ chan'["msgq"] = chan["msgq"] /\ chan'["s2c"] = chan["s2c"]
    BY <1>8, <1>c DEF ServerDies, ServerTasks, End, app, history
  <2> QED
    BY <2>1, MessagesCut
<1>9. ASSUME "client" \notin handles' PROVE MessagesInLine'
  BY <1>9 DEF MessagesInLine
<1>10. CASE ClientDies \/ ReaderDiscards
  <2>1. "client" \notin handles'
    BY <1>10 DEF ClientDies, ReaderDiscards, Discard, app
  <2> QED
    BY <1>9, <2>1
<1>11. ASSUME NEW h, Drop(h) PROVE MessagesInLine'
  <2>1. CASE h = "client"
    BY <1>9, <1>11, <2>1 DEF Drop
  <2>2. CASE h # "client"
    <3>1. /\ UNCHANGED <<queued, received, alive, broken>> /\ handles' \subseteq handles
          /\ \A k \in {"msgq", "s2c", "outq"} : chan'[k] = chan[k]
      BY <1>11, <2>2 DEF Drop, history
    <3> QED
      BY <3>1, MessagesUntouched
  <2> QED
    BY <2>1, <2>2
<1>12. CASE \/ \E h \in Handles : DropHandle(h)
            \/ CallPanics
  BY <1>11, <1>12 DEF DropHandle, CallPanics
<1>13. CASE \/ \E h \in Handles : Call(h)
            \/ CallReturns \/ WriterSendIsReset \/ RLoopDiscards \/ ConnectionBreaks
  <2>1. /\ UNCHANGED <<queued, received, alive, handles>> /\ (broken => broken')
        /\ \A k \in {"msgq", "s2c", "outq"} : chan'[k] = chan[k]
    BY <1>13, <1>c DEF Call, CallReturns, WriterSendIsReset, WriteIsReset, RLoopDiscards, Discard,
                       ConnectionBreaks, app, history
  <2> QED
    BY <2>1, MessagesUntouched
<1>14. CASE WriterSend \/ RLoopSend
  <2>1. UNCHANGED <<queued, received, alive, handles, broken>>
    BY <1>14 DEF WriterSend, RLoopSend, Move, app, history
  <2>2. \A k \in {"msgq", "s2c", "outq"} : chan'[k] = chan[k]
    <3>1. CASE WriterSend
      BY <3>1, <1>c DEF WriterSend, Move
    <3>2. CASE RLoopSend
      BY <3>2, <1>c DEF RLoopSend, Move
    <3> QED
      BY <1>14, <3>1, <3>2
  <2> QED
    BY <2>1, <2>2, MessagesUntouched
<1>15. CASE WriterPanics \/ WriterNone \/ ReaderNone \/ RLoopNone \/ RLoopFails \/ HandlerNone
              \/ ForwardFails \/ WLoopElse
  <2>1. /\ UNCHANGED <<queued, received, broken, handles>> /\ alive' \subseteq alive
        /\ \A k \in {"msgq", "s2c", "outq"} : chan'[k] = chan[k]
    BY <1>15, <1>c DEF WriterPanics, WriterNone, ReaderNone, RLoopNone, RLoopFails, HandlerNone,
                       ForwardFails, WLoopElse, Ends, End, app, history
  <2> QED
    BY <2>1, MessagesUntouched
<1>16. CASE OthersPublish \/ StreamOk \/ StreamLagged \/ UNCHANGED vars
  <2>1. /\ UNCHANGED <<queued, received, alive, handles, broken>>
        /\ \A k \in {"msgq", "s2c", "outq"} : chan'[k] = chan[k]
    BY <1>16, <1>c DEF OthersPublish, StreamOk, StreamLagged, vars, app, history
  <2> QED
    BY <2>1, MessagesUntouched
<1> QED
  BY <1>1, <1>2, <1>3, <1>4, <1>5, <1>6, <1>7, <1>8, <1>10, <1>12, <1>13, <1>14, <1>15, <1>16
     DEF Next, Application, Tasks, Writer, Reader, RLoop, WLoop, CommandBranch, StreamBranch,
         Forwarding, CallGoesOn

-----------------------------------------------------------------------------
(* How many messages there are                                             *)

\* At first nothing is queued, held or waiting.
LEMMA CountInit == Init => MessagesCounted
BY CapsArePositive DEF Init, MessagesCounted

\* The numbers that are counted.
LEMMA CountTypes ==
    ASSUME TypeOK
    PROVE  /\ Len(queued) \in Nat /\ Len(hand) \in Nat /\ backlog \in Nat /\ Len(handled) \in Nat
           /\ Len(accepted) \in Nat /\ Len(call) \in Nat /\ issued \in Nat /\ subs \in Nat
           /\ MaxMessages \in Nat /\ TopicCap \in Nat
<1>1. backlog \in Nat
  <2>1. backlog \in 0 .. (IF subs = 0 THEN 0 ELSE TopicCap + 1) /\ TopicCap \in Nat
    BY CapsArePositive DEF TypeOK
  <2> QED
    BY <2>1
<1>2. issued \in Nat
  BY CapsArePositive DEF TypeOK
<1>3. Len(call) \in Nat
  BY DEF TypeOK
<1> QED
  BY <1>1, <1>2, <1>3, CapsArePositive DEF TypeOK

\* Every step keeps the count of the messages.
LEMMA CountStep == TypeOK /\ MessagesCounted /\ [Next]_vars => MessagesCounted'
<1> SUFFICES ASSUME TypeOK, MessagesCounted, [Next]_vars PROVE MessagesCounted'
  OBVIOUS
<1>n. /\ Len(queued) \in Nat /\ Len(hand) \in Nat /\ backlog \in Nat /\ Len(handled) \in Nat
      /\ Len(accepted) \in Nat /\ Len(call) \in Nat /\ issued \in Nat /\ subs \in Nat
      /\ MaxMessages \in Nat /\ TopicCap \in Nat
  BY CountTypes
<1>s. /\ queued \in Seq(Nat) /\ handled \in Seq(Nat) /\ accepted \in Seq(Nat) /\ hand \in Seq(Nat)
  BY DEF TypeOK
<1>m. /\ hand # <<>> => hand = <<Len(queued) + 1>>
      /\ Len(queued) + Len(hand) + backlog <= MaxMessages + Len(handled)
      /\ Len(accepted) + Len(call) <= issued
  BY DEF MessagesCounted
<1>1. CASE HandleCommand
  <2>1. hand = <<>> /\ hand' = <<>> /\ UNCHANGED <<accepted, call, issued>>
    BY <1>1 DEF HandleCommand, InSelect, app
  <2>2. Len(handled') = Len(handled) + 1
    BY <1>1, <1>s DEF HandleCommand
  <2>3. Len(queued') \in Nat /\ backlog' \in Nat
        /\ Len(queued') + backlog' <= Len(queued) + backlog + 1
    <3>1. CASE Subscribe
      <4>1. queued' = queued \o LastMessage /\ backlog' = backlog
        BY <3>1, SubscribeEffect
      <4>2. LastMessage = <<>> \/ LastMessage = <<Len(queued) + 1>>
        BY DEF LastMessage
      <4>3. Len(queued') = Len(queued) \/ Len(queued') = Len(queued) + 1
        <5>1. CASE LastMessage = <<>>
          BY <1>s, <4>1, <5>1
        <5>2. CASE LastMessage = <<Len(queued) + 1>>
          BY <1>s, <4>1, <5>2
        <5> QED
          BY <4>2, <5>1, <5>2
      <4> QED
        BY <1>n, <4>1, <4>3
    <3>2. CASE Unsubscribe
      BY <3>2, <1>n DEF Unsubscribe
    <3>3. CASE Publish
      BY <3>3, <1>n DEF Publish, Broadcast
    <3> QED
      BY <1>1, <3>1, <3>2, <3>3 DEF HandleCommand
  <2>4. Len(hand') = 0 /\ Len(hand) = 0
    BY <2>1
  <2>5. Len(queued') + Len(hand') + backlog' <= MaxMessages + Len(handled')
    BY <1>m, <1>n, <2>2, <2>3, <2>4, SMTT(30)
  <2> QED
    BY <1>m, <2>1, <2>5 DEF MessagesCounted
<1>2. CASE OthersPublish
  <2>1. UNCHANGED <<queued, hand, handled, accepted, call, issued>>
    BY <1>2 DEF OthersPublish, app, history
  <2>2. backlog' \in Nat /\ Len(queued) + Len(hand) + backlog' <= MaxMessages
    BY <1>2, <1>n DEF OthersPublish, Broadcast
  <2> QED
    BY <1>m, <1>n, <2>1, <2>2 DEF MessagesCounted
<1>3. CASE StreamOk
  <2>1. /\ UNCHANGED <<queued, handled, accepted, call, issued>> /\ hand = <<>>
        /\ hand' = <<Len(queued) + 1>> /\ backlog' = backlog - 1
    BY <1>3 DEF StreamOk, InSelect, app, history
  <2>2. Len(hand') = 1 /\ Len(hand) = 0
    BY <2>1
  <2> QED
    BY <1>m, <1>n, <2>1, <2>2 DEF MessagesCounted
<1>4. CASE StreamLagged
  <2>1. /\ UNCHANGED <<queued, hand, handled, accepted, call, issued>>
        /\ backlog > TopicCap /\ backlog' = TopicCap
    BY <1>4 DEF StreamLagged, app, history
  <2> QED
    BY <1>m, <1>n, <2>1 DEF MessagesCounted
<1>5. CASE Forward
  <2>1. /\ UNCHANGED <<handled, backlog, accepted, call, issued>> /\ hand' = <<>>
        /\ queued' = queued \o hand
    BY <1>5 DEF Forward, app
  <2>2. Len(queued') = Len(queued) + Len(hand) /\ Len(hand') = 0
    BY <1>s, <2>1
  <2> QED
    BY <1>m, <1>n, <2>1, <2>2 DEF MessagesCounted
<1>6. CASE CallReturns
  <2>1. /\ UNCHANGED <<queued, hand, backlog, handled, issued>> /\ call # <<>> /\ call' = <<>>
        /\ accepted' = Append(accepted, call[1].cmd)
    BY <1>6 DEF CallReturns, handler
  <2>2. Len(accepted') = Len(accepted) + 1 /\ Len(call') = 0
    BY <1>s, <2>1
  <2>3. Len(call) >= 1
    <3>1. call \in Seq([by : Handles, cmd : DOMAIN Program])
      BY DEF TypeOK
    <3> QED
      BY <2>1, <3>1
  <2> QED
    BY <1>m, <1>n, <2>1, <2>2, <2>3 DEF MessagesCounted
<1>7. ASSUME NEW h \in Handles, Call(h) PROVE MessagesCounted'
  <2>1. /\ UNCHANGED <<queued, hand, backlog, handled, accepted>> /\ call = <<>>
        /\ issued' = issued + 1 /\ Len(call') = 1
    BY <1>7 DEF Call, handler, history
  <2>2. Len(call) = 0
    BY <2>1
  <2> QED
    BY <1>m, <1>n, <2>1, <2>2 DEF MessagesCounted
<1>8. ASSUME UNCHANGED <<queued, handled, accepted, issued>>, call' = call \/ call' = <<>>,
             \/ UNCHANGED <<hand, backlog>>
             \/ hand' = <<>> /\ backlog' = 0
      PROVE  MessagesCounted'
  <2>1. Len(call') \in Nat /\ Len(call') <= Len(call)
    BY <1>8, <1>n
  <2>2. Len(hand') + backlog' <= Len(hand) + backlog /\ Len(hand') \in Nat /\ backlog' \in Nat
    BY <1>8, <1>n
  <2>3. hand' # <<>> => hand' = <<Len(queued') + 1>>
    BY <1>m, <1>8
  <2>4. Len(queued') + Len(hand') + backlog' <= MaxMessages + Len(handled')
    BY <1>m, <1>n, <1>8, <2>2, SMTT(30)
  <2>5. Len(accepted') + Len(call') <= issued'
    BY <1>m, <1>n, <1>8, <2>1
  <2> QED
    BY <2>3, <2>4, <2>5 DEF MessagesCounted
<1>9. CASE \/ Writer \/ Reader \/ RLoop \/ WLoop \/ HandlerNone \/ ForwardFails
           \/ ClientDies \/ ServerDies
  <2>1. ASSUME NEW t, NEW from, Ends(t, from) PROVE MessagesCounted'
    BY <1>8, <2>1 DEF Ends, End, app, handler, history
  <2>2. CASE ClientDies
    BY <1>8, <2>2 DEF ClientDies, End, handler, history
  <2>3. CASE ServerDies
    BY <1>8, <2>3 DEF ServerDies, End, app, handler, history
  <2>4. ASSUME NEW t, NEW c, NEW d, Move(t, c, d) \/ Discard(t, c) \/ WriteIsReset(t, c, d)
        PROVE  MessagesCounted'
    BY <1>8, <2>4 DEF Move, Discard, WriteIsReset, app, handler, history
  <2> QED
    BY <1>9, <2>1, <2>2, <2>3, <2>4
       DEF Writer, Reader, RLoop, WLoop, WriterSend, WriterSendIsReset, WriterPanics, WriterNone,
           ReaderSend, ReaderDiscards, ReaderNone, ReaderPanics, RLoopSend, RLoopDiscards,
           RLoopNone, RLoopFails, WLoopWrite, WLoopWriteIsReset, WLoopFails, WLoopElse,
           HandlerNone, ForwardFails
<1>10. CASE \/ \E h \in Handles : DropHandle(h)
            \/ CallPanics \/ Recv \/ ConnectionBreaks \/ UNCHANGED vars
  BY <1>8, <1>10 DEF DropHandle, CallPanics, Drop, Recv, ConnectionBreaks, vars, app, handler, history
<1> QED
  BY <1>1, <1>2, <1>3, <1>4, <1>5, <1>6, <1>7, <1>9, <1>10
     DEF Next, Application, Tasks, CommandBranch, StreamBranch, Forwarding, CallGoesOn

-----------------------------------------------------------------------------
(* The theorems                                                            *)

\* The invariant holds throughout.
LEMMA Invariance == Spec => []Inv
<1>1. Init => Inv
  BY TypeInit, CommandsInit, MessagesInit, CountInit DEF Inv
<1>2. Inv /\ [Next]_vars => Inv'
  BY TypeStep, CommandsStep, MessagesStep, CountStep DEF Inv
<1> QED
  BY <1>1, <1>2, PTL DEF Spec

\* Every channel and the socket stay within their capacity, the handler never
\* holds more than one message, and has a backlog only of a topic it follows.
THEOREM TypesHold == Spec => []TypeOK
BY Invariance, PTL DEF Inv

\* Only a call that returns adds to the accepted commands, only the handler to
\* the handled ones.
LEMMA CommandPipeStep ==
    ASSUME Inv, [Next]_vars
    PROVE  [Commands!Next]_<<accepted, handled>>
<1>1. CASE CallReturns
  <2>1. call[1].cmd \in DOMAIN Program
    BY <1>1, CallType DEF Inv, CallReturns
  <2>2. accepted' = Append(accepted, call[1].cmd) /\ handled' = handled
    BY <1>1 DEF CallReturns
  <2>3. Commands!Put(call[1].cmd)
    BY <2>2 DEF Commands!Put
  <2> QED
    BY <2>1, <2>3 DEF Commands!Next
<1>2. CASE HandleCommand
  <2>1. Commands!Get
    BY <1>2, CommandsHandled DEF Inv, Commands!Get
  <2> QED
    BY <2>1 DEF Commands!Next
<1>3. CASE \/ \E h \in Handles : Call(h) \/ DropHandle(h)
           \/ CallPanics \/ Recv \/ OthersPublish \/ StreamBranch \/ Forward \/ ConnectionBreaks
           \/ UNCHANGED vars
  BY <1>3 DEF Call, DropHandle, CallPanics, Drop, Recv, OthersPublish, StreamBranch, StreamOk,
              StreamLagged, Forward, ConnectionBreaks, vars, history
<1>4. CASE \/ Writer \/ Reader \/ RLoop \/ WLoop \/ HandlerNone \/ ForwardFails
           \/ ClientDies \/ ServerDies
  BY <1>4 DEF Writer, Reader, RLoop, WLoop, WriterSend, WriterSendIsReset, WriterPanics, WriterNone,
           ReaderSend, ReaderDiscards, ReaderNone, ReaderPanics, RLoopSend, RLoopDiscards,
           RLoopNone, RLoopFails, WLoopWrite, WLoopWriteIsReset, WLoopFails, WLoopElse,
           HandlerNone, ForwardFails, ClientDies, ServerDies, Move, Discard, WriteIsReset, Ends,
           history
<1> QED
  BY <1>1, <1>2, <1>3, <1>4
     DEF Next, Application, Tasks, CommandBranch, Forwarding, CallGoesOn

\* The handler sees the commands for which subscribe(), unsubscribe() or
\* publish() returned, once each and in the order of the calls, until the
\* connection ends, for channels of every capacity.
THEOREM ImplementsCommandPipe == Spec => CommandPipe
<1>1. Init => Commands!Init
  BY DEF Init, Commands!Init
<1>2. Inv /\ [Next]_vars => [Commands!Next]_<<accepted, handled>>
  BY CommandPipeStep
<1> QED
  BY <1>1, <1>2, Invariance, PTL DEF Spec, CommandPipe, Commands!Spec

\* Only the handler adds to the queued messages, only recv() to the received
\* ones.
LEMMA MessagePipeStep ==
    ASSUME Inv, [Next]_vars
    PROVE  [Messages!Next]_<<queued, received>>
<1> DEFINE Items == 1 .. MaxMessages + Len(Program)
<1>n. /\ Len(queued) \in Nat /\ Len(hand) \in Nat /\ backlog \in Nat /\ Len(handled) \in Nat
      /\ Len(accepted) \in Nat /\ Len(call) \in Nat /\ issued \in Nat /\ MaxMessages \in Nat
  BY CountTypes DEF Inv
<1>m. /\ hand # <<>> => hand = <<Len(queued) + 1>>
      /\ Len(queued) + Len(hand) + backlog <= MaxMessages + Len(handled)
      /\ Len(accepted) + Len(call) <= issued
  BY DEF Inv, MessagesCounted
<1>l. Len(accepted) <= Len(Program) /\ Len(Program) \in Nat
  <2>1. issued <= Len(Program) /\ Len(Program) \in Nat
    BY CapsArePositive DEF Inv, TypeOK
  <2> QED
    BY <1>m, <1>n, <2>1
<1>q. queued \in Seq(Nat)
  BY DEF Inv, TypeOK
<1>1. ASSUME Len(queued) + 1 \in Items, queued' = queued \o <<Len(queued) + 1>>,
             received' = received
      PROVE  Messages!Next
  <2>1. queued' = Append(queued, Len(queued) + 1)
    BY <1>1, <1>q
  <2>2. Messages!Put(Len(queued) + 1)
    BY <1>1, <2>1 DEF Messages!Put
  <2> QED
    BY <1>1, <2>2 DEF Messages!Next
<1>2. CASE Recv
  <2>1. Messages!Get
    BY <1>2, MessagesReceived DEF Inv, Messages!Get
  <2> QED
    BY <2>1 DEF Messages!Next
<1>3. CASE Forward
  <2>1. hand = <<Len(queued) + 1>> /\ queued' = queued \o hand /\ received' = received
    BY <1>3, <1>m DEF Forward
  <2>2. Len(hand) = 1
    BY <2>1
  <2>3. Len(handled) <= Len(accepted)
    BY DEF Inv, CommandsInLine, IsPrefix
  <2>4. Len(queued) + 1 \in Items
    BY <1>m, <1>n, <1>l, <2>2, <2>3
  <2> QED
    BY <1>1, <2>1, <2>4
<1>4. CASE HandleCommand /\ Subscribe
  <2>1. received' = received /\ queued' = queued \o LastMessage
    BY <1>4, SubscribeEffect DEF HandleCommand, Inv
  <2>2. CASE LastMessage = <<>>
    BY <1>q, <2>1, <2>2
  <2>3. CASE LastMessage = <<Len(queued) + 1>>
    <3>1. Len(handled) < Len(accepted)
      BY <1>4, CommandsHandled DEF Inv
    <3>2. Len(queued) + 1 \in Items
      BY <1>m, <1>n, <1>l, <3>1
    <3> QED
      BY <1>1, <2>1, <2>3, <3>2
  <2> QED
    BY <2>2, <2>3 DEF LastMessage
<1>5. CASE \/ HandleCommand /\ (Unsubscribe \/ Publish)
           \/ \E h \in Handles : Call(h) \/ DropHandle(h)
           \/ CallReturns \/ CallPanics \/ OthersPublish \/ StreamBranch \/ ConnectionBreaks
           \/ UNCHANGED vars
  BY <1>5 DEF HandleCommand, Unsubscribe, Publish, Call, DropHandle, CallReturns, CallPanics, Drop,
              OthersPublish, StreamBranch, StreamOk, StreamLagged, ConnectionBreaks, vars, history
<1>6. CASE \/ Writer \/ Reader \/ RLoop \/ WLoop \/ HandlerNone \/ ForwardFails
           \/ ClientDies \/ ServerDies
  BY <1>6 DEF Writer, Reader, RLoop, WLoop, WriterSend, WriterSendIsReset, WriterPanics, WriterNone,
           ReaderSend, ReaderDiscards, ReaderNone, ReaderPanics, RLoopSend, RLoopDiscards,
           RLoopNone, RLoopFails, WLoopWrite, WLoopWriteIsReset, WLoopFails, WLoopElse,
           HandlerNone, ForwardFails, ClientDies, ServerDies, Move, Discard, WriteIsReset, Ends,
           history
<1> QED
  BY <1>2, <1>3, <1>4, <1>5, <1>6
     DEF Next, Application, Tasks, CommandBranch, Forwarding, CallGoesOn, HandleCommand

\* recv() returns what the handler has queued for the client, once each and in
\* that order, until one of the sides ends, for channels of every capacity.
THEOREM ImplementsMessagePipe == Spec => MessagePipe
<1>1. Init => Messages!Init
  BY DEF Init, Messages!Init
<1>2. Inv /\ [Next]_vars => [Messages!Next]_<<queued, received>>
  BY MessagePipeStep
<1> QED
  BY <1>1, <1>2, Invariance, PTL DEF Spec, MessagePipe, Messages!Spec

-----------------------------------------------------------------------------
(* The only wait without end                                               *)

\* A task that reads from the socket ends only when nobody will write to it or
\* everybody can see that the connection is broken; commands are those of the
\* program.
EndsInOrder ==
    /\ "rloop" \notin alive => broken \/ "writer" \notin alive \/ "wloop" \notin alive
    /\ "reader" \notin alive => broken \/ "wloop" \notin alive \/ "writer" \notin alive
    /\ hand # <<>> => "handler" \in alive
    /\ \A i \in DOMAIN accepted : accepted[i] \in DOMAIN Program

\* At first all the tasks are there.
LEMMA EndsInit == Init => EndsInOrder
BY DEF Init, EndsInOrder, ClientTasks, ServerTasks

\* Only a call that returns adds to the accepted commands; a task of the socket
\* ends after its peer, or on a connection that is broken for good.
LEMMA EndsStep ==
    ASSUME TypeOK, EndsInOrder, [Next]_vars
    PROVE  EndsInOrder'
<1> DEFINE InProgram == \A i \in DOMAIN accepted : accepted[i] \in DOMAIN Program
<1>2. CASE CallReturns
  <2>1. call[1].cmd \in DOMAIN Program /\ accepted \in Seq(Nat)
    BY <1>2, CallType DEF CallReturns, TypeOK
  <2>2. accepted' = Append(accepted, call[1].cmd)
    BY <1>2 DEF CallReturns
  <2>3. InProgram'
    <3> DEFINE x == call[1].cmd
    <3>1. x \in DOMAIN Program /\ accepted' = Append(accepted, x) /\ InProgram
      BY <2>1, <2>2 DEF EndsInOrder
    <3> HIDE DEF x
    <3>2. DOMAIN accepted' = 1 .. Len(accepted) + 1 /\ accepted'[Len(accepted) + 1] = x
      BY <2>1, <3>1
    <3>3. \A i \in 1 .. Len(accepted) : accepted'[i] = accepted[i]
      BY <2>1, <3>1
    <3>4. Len(accepted) \in Nat /\ DOMAIN accepted = 1 .. Len(accepted)
      BY <2>1
    <3>5. ASSUME NEW i \in DOMAIN accepted' PROVE accepted'[i] \in DOMAIN Program
      <4>1. CASE i \in 1 .. Len(accepted)
        BY <3>1, <3>3, <3>4, <4>1
      <4>2. CASE i = Len(accepted) + 1
        BY <3>1, <3>2, <4>2
      <4> QED
        BY <3>2, <3>4, <3>5, <4>1, <4>2
    <3> QED
      BY <3>5
  <2>4. UNCHANGED <<alive, broken, hand>>
    BY <1>2 DEF CallReturns, handler
  <2> QED
    BY <2>3, <2>4 DEF EndsInOrder
<1>3. CASE StreamOk \/ Forward
  BY <1>3 DEF StreamOk, Forward, InSelect, EndsInOrder, history
<1>4. CASE WriterPanics \/ WriterNone \/ WLoopFails \/ WLoopElse
  BY <1>4 DEF WriterPanics, WriterNone, WLoopFails, WLoopElse, Ends, End, EndsInOrder,
              handler, history
<1>5. CASE RLoopNone \/ RLoopFails \/ ReaderNone \/ ReaderPanics
  BY <1>5 DEF RLoopNone, RLoopFails, ReaderNone, ReaderPanics, Ends, End, EndsInOrder,
              handler, history
<1>6. CASE HandlerNone \/ ForwardFails
  BY <1>6 DEF HandlerNone, ForwardFails, Ends, End, EndsInOrder, handler, history
<1>7. CASE ClientDies
  BY <1>7 DEF ClientDies, End, EndsInOrder, ClientTasks, handler, history
<1>8. CASE ServerDies
  BY <1>8 DEF ServerDies, End, EndsInOrder, ServerTasks, handler, history
<1>9. CASE \/ WriterSend \/ WriterSendIsReset \/ ReaderSend \/ ReaderDiscards
           \/ RLoopSend \/ RLoopDiscards \/ WLoopWrite \/ WLoopWriteIsReset
  BY <1>9 DEF WriterSend, WriterSendIsReset, ReaderSend, ReaderDiscards, RLoopSend,
              RLoopDiscards, WLoopWrite, WLoopWriteIsReset, Move, Discard, WriteIsReset,
              EndsInOrder, handler, history
<1>10. CASE \/ \E h \in Handles : Call(h) \/ DropHandle(h)
            \/ CallPanics \/ Recv \/ HandleCommand \/ OthersPublish \/ StreamLagged
            \/ ConnectionBreaks \/ UNCHANGED vars
  BY <1>10 DEF Call, DropHandle, CallPanics, Drop, Recv, HandleCommand, OthersPublish,
               StreamLagged, ConnectionBreaks, EndsInOrder, vars, handler, history
<1> QED
  BY <1>2, <1>3, <1>4, <1>5, <1>6, <1>7, <1>8, <1>9, <1>10
     DEF Next, Application, Tasks, Writer, Reader, RLoop, WLoop, CommandBranch, StreamBranch,
         Forwarding, CallGoesOn

\* A channel without room has something in it.
LEMMA FullIsNotEmpty ==
    ASSUME TypeOK, NEW c \in Channels, ~HasRoom(c)
    PROVE  chan[c] # <<>>
<1>1. chan[c] \in Seq(Nat) /\ Cap \in Nat /\ Cap > 0 /\ ~(Len(chan[c]) < Cap)
  BY CapsArePositive DEF TypeOK, HasRoom
<1> QED
  BY <1>1

\* The next command is one of the program's.
LEMMA NextCommand ==
    ASSUME Inv, EndsInOrder, "handler" \in alive, chan["inq"] # <<>>
    PROVE  Program[Head(chan["inq"])] \in {"sub", "unsub", "pub"}
<1> DEFINE inq == chan["inq"]
           c2s == chan["c2s"]
           cmdq == chan["cmdq"]
           intact == ~broken /\ "writer" \in alive
<1>1. /\ inq \in Seq(Nat) /\ c2s \in Seq(Nat) /\ cmdq \in Seq(Nat)
      /\ handled \in Seq(Nat) /\ accepted \in Seq(Nat) /\ intact \in BOOLEAN
  BY DEF Inv, TypeOK, Channels
<1>2. InLine(handled, inq, c2s, cmdq, accepted, intact) /\ inq # <<>>
  BY DEF Inv, CommandsInLine
<1> HIDE DEF inq, c2s, cmdq, intact
<1>3. Len(handled) < Len(accepted) /\ Head(inq) = accepted[Len(handled) + 1]
  BY <1>1, <1>2, LineTake
<1>4. Head(inq) \in DOMAIN Program
  BY <1>1, <1>3 DEF EndsInOrder
<1>5. Program \in Seq({"sub", "unsub", "pub"})
  BY CapsArePositive
<1> QED
  BY <1>4, <1>5 DEF inq

\* The handler waits for room for a message: somebody on the way of the
\* messages can go on, and if not it is the application that does not receive.
LEMMA MessagesDrain ==
    ASSUME TypeOK, EndsInOrder, ~broken, ClientTasks \cap alive # {}, "wloop" \in alive,
           chan["outq"] # <<>>, ~Ready
    PROVE  Unread
<1>f. \A c \in Channels : HasRoom(c) \/ chan[c] # <<>>
  BY FullIsNotEmpty
<1>c. "s2c" \in Channels
  BY DEF Channels
<1>1. ~HasRoom("s2c")
  BY DEF Ready
<1>2. "reader" \in alive
  BY DEF EndsInOrder, ClientTasks
<1> QED
  BY <1>1, <1>2, <1>f, <1>c DEF Ready, Unread

\* The same for the handler itself and what is to come to it.
LEMMA CommandsDrain ==
    ASSUME Inv, EndsInOrder, ~broken, ClientTasks \cap alive # {}, "handler" \in alive,
           chan["inq"] # <<>> \/ hand # <<>>, ~Ready
    PROVE  Unread
<1>t. TypeOK
  BY DEF Inv
<1>f. \A c \in Channels : HasRoom(c) \/ chan[c] # <<>>
  BY <1>t, FullIsNotEmpty
<1>c. "outq" \in Channels
  BY DEF Channels
<1>1. hand # <<>>
  BY NextCommand DEF Ready, InSelect
<1>2. "wloop" \in alive /\ ~HasRoom("outq")
  BY <1>1 DEF Ready
<1> QED
  BY <1>t, <1>2, <1>f, <1>c, MessagesDrain

\* The same for the writer: the read loop takes what it sends, as long as the
\* server has not closed the connection.
LEMMA WriterDrains ==
    ASSUME Inv, EndsInOrder, "writer" \in alive, chan["cmdq"] # <<>>, ~Ready
    PROVE  Unread
<1>t. TypeOK
  BY DEF Inv
<1>f. \A c \in Channels : HasRoom(c) \/ chan[c] # <<>>
  BY <1>t, FullIsNotEmpty
<1>c. {"c2s", "inq"} \subseteq Channels
  BY DEF Channels
<1>1. ~broken /\ SocketTasks \cap alive # {} /\ ~HasRoom("c2s")
  BY DEF Ready
<1>2. "rloop" \in alive /\ chan["c2s"] # <<>>
  BY <1>1, <1>f, <1>c DEF EndsInOrder, SocketTasks
<1>3. "handler" \in alive /\ ~HasRoom("inq")
  BY <1>2 DEF Ready
<1> QED
  BY <1>1, <1>3, <1>f, <1>c, CommandsDrain DEF ClientTasks

\* A call that is blocked waits for the writer, and so on to the application.
LEMMA CallsDrain ==
    ASSUME Inv, EndsInOrder, call # <<>>, ~Ready
    PROVE  Unread
<1>t. TypeOK
  BY DEF Inv
<1>1. "writer" \in alive /\ ~HasRoom("cmdq")
  BY DEF Ready
<1>2. chan["cmdq"] # <<>>
  BY <1>t, <1>1, FullIsNotEmpty DEF Channels
<1> QED
  BY <1>1, <1>2, WriterDrains

\* Without a handle there is nobody to receive, and the tasks end one after
\* the other.
LEMMA HandlesDrain ==
    ASSUME Inv, EndsInOrder, handles = {}, alive # {}
    PROVE  Ready
<1> SUFFICES ASSUME ~Ready PROVE FALSE
  OBVIOUS
<1>t. TypeOK /\ ~Unread
  BY DEF Inv, Unread
<1>f. \A c \in Channels : HasRoom(c) \/ chan[c] # <<>>
  BY <1>t, FullIsNotEmpty
<1>c. {"c2s", "inq", "outq"} \subseteq Channels
  BY DEF Channels
<1>1. "writer" \notin alive
  BY <1>t, WriterDrains DEF Ready
<1>2. "reader" \in alive
  <2> SUFFICES ASSUME "reader" \notin alive PROVE FALSE
    OBVIOUS
  <2>1. ClientTasks \cap alive = {}
    BY <1>1 DEF ClientTasks
  <2>2. "wloop" \in alive => chan["outq"] = <<>> /\ "handler" \in alive
    BY <2>1 DEF Ready
  <2>3. "rloop" \in alive => "handler" \in alive
    BY <1>1 DEF Ready
  <2>4. "handler" \in alive
    BY <1>t, <2>1, <2>2, <2>3 DEF TypeOK, ClientTasks, ServerTasks
  <2>5. hand = <<>>
    BY <2>2, <2>4, <1>f, <1>c DEF Ready
  <2>6. chan["inq"] = <<>> /\ "rloop" \in alive
    BY <2>4, <2>5, NextCommand DEF Ready, InSelect
  <2>7. ~HasRoom("inq")
    BY <1>1, <2>6 DEF Ready
  <2> QED
    BY <2>6, <2>7, <1>f, <1>c
<1>3. ~broken /\ ClientTasks \cap alive # {}
  BY <1>2 DEF Ready, ClientTasks
<1>4. "wloop" \in alive
  BY <1>2 DEF Ready, Unread
<1>5. "handler" \in alive
  BY <1>t, <1>3, <1>4, MessagesDrain DEF Ready
<1>6. chan["inq"] = <<>> /\ hand = <<>>
  BY <1>t, <1>3, <1>5, CommandsDrain
<1>7. "rloop" \in alive
  BY <1>5, <1>6 DEF Ready, InSelect
<1>8. ~HasRoom("inq")
  BY <1>1, <1>5, <1>7 DEF Ready
<1> QED
  BY <1>6, <1>8, <1>f, <1>c

\* Without a server the reader comes to the end of the stream.
LEMMA ReaderDrains ==
    ASSUME ServerTasks \cap alive = {}, "reader" \in alive, ~Ready
    PROVE  Unread
BY DEF ServerTasks, Ready, Unread

\* However many channels on the way are full, whatever has failed and whichever
\* tasks have ended: a call that is blocked in send(), the tasks of a client
\* whose handles are dropped, and a recv() after the end of the server have some
\* task at work for them, unless the application lets the messages pile up.
THEOREM NobodyWaitsInVain == Spec => []NoCircularWait
<1>1. Init => EndsInOrder
  BY EndsInit
<1>2. Inv /\ EndsInOrder /\ [Next]_vars => EndsInOrder'
  BY EndsStep DEF Inv
<1>3. Inv /\ EndsInOrder => NoCircularWait
  BY CallsDrain, HandlesDrain, ReaderDrains DEF NoCircularWait, Pending
<1> QED
  BY <1>1, <1>2, <1>3, Invariance, PTL DEF Spec

-----------------------------------------------------------------------------
(* No livelock                                                             *)

\* The part of the rank that is about items: an item in a call, cmdq, c2s, inq,
\* the backlog, the handler's hand, outq or s2c weighs one less than before.
Weight(k, a, b, c, l, h, d, e) == 8 * k + 7 * a + 6 * b + 5 * c + 4 * l + 3 * h + 2 * d + e

Carried ==
    Weight(Len(call), Len(chan["cmdq"]), Len(chan["c2s"]), Len(chan["inq"]), backlog, Len(hand),
           Len(chan["outq"]), Len(chan["s2c"]))

\* The numbers the rank is made of.
LEMMA RankTypes ==
    ASSUME TypeOK
    PROVE  /\ Len(call) \in Nat /\ backlog \in Nat /\ Len(hand) \in Nat
           /\ \A c \in Channels : Len(chan[c]) \in Nat
           /\ IsFiniteSet(alive) /\ Cardinality(alive) \in Nat
           /\ Carried \in Nat
<1>1. Len(call) \in Nat /\ backlog \in Nat /\ Len(hand) \in Nat
  BY CountTypes
<1>2. \A c \in Channels : Len(chan[c]) \in Nat
  BY DEF TypeOK
<1>3. IsFiniteSet({"writer", "reader", "rloop", "handler", "wloop"})
  <2>1. IsFiniteSet({"writer"} \cup {"reader"})
    BY FS_Singleton, FS_AddElement
  <2>2. IsFiniteSet(({"writer"} \cup {"reader"}) \cup {"rloop"})
    BY <2>1, FS_AddElement
  <2>3. IsFiniteSet((({"writer"} \cup {"reader"}) \cup {"rloop"}) \cup {"handler"})
    BY <2>2, FS_AddElement
  <2>4. IsFiniteSet(((({"writer"} \cup {"reader"}) \cup {"rloop"}) \cup {"handler"}) \cup {"wloop"})
    BY <2>3, FS_AddElement
  <2>5. ((({"writer"} \cup {"reader"}) \cup {"rloop"}) \cup {"handler"}) \cup {"wloop"}
          = {"writer", "reader", "rloop", "handler", "wloop"}
    OBVIOUS
  <2> QED
    BY <2>4, <2>5
<1>4. alive \subseteq {"writer", "reader", "rloop", "handler", "wloop"}
  BY DEF TypeOK, ClientTasks, ServerTasks
<1>5. IsFiniteSet(alive)
  BY <1>3, <1>4, FS_Subset
<1>6. Cardinality(alive) \in Nat
  BY <1>5, FS_CardinalityType
<1>7. Carried \in Nat
  <2>1. /\ Len(chan["cmdq"]) \in Nat /\ Len(chan["c2s"]) \in Nat /\ Len(chan["inq"]) \in Nat
        /\ Len(chan["outq"]) \in Nat /\ Len(chan["s2c"]) \in Nat
    BY <1>2 DEF Channels
  <2> DEFINE a == Len(call)          b == Len(chan["cmdq"])  c == Len(chan["c2s"])
             d == Len(chan["inq"])   f == Len(hand)          g == Len(chan["outq"])
             h == Len(chan["s2c"])
  <2>2. Carried = 8 * a + 7 * b + 6 * c + 5 * d + 4 * backlog + 3 * f + 2 * g + h
    BY DEF Carried, Weight
  <2>3. a \in Nat /\ b \in Nat /\ c \in Nat /\ d \in Nat /\ f \in Nat /\ g \in Nat /\ h \in Nat
    BY <1>1, <2>1
  <2> HIDE DEF a, b, c, d, f, g, h
  <2> QED
    BY <1>1, <2>2, <2>3
<1> QED
  BY <1>1, <1>2, <1>5, <1>6, <1>7

\* The parts of the rank are numbers.
RankParts == Carried \in Nat /\ Cardinality(alive) \in Nat

\* They are, before and after a step.
LEMMA RankNumbers == (TypeOK => RankParts) /\ (TypeOK' => RankParts')
<1>1. TypeOK => RankParts
  BY RankTypes DEF RankParts
<1> QED
  BY <1>1, PTL

\* A step that neither mends the connection nor starts a task lowers the rank
\* if it lowers one of the other parts.
LEMMA RankFalls ==
    ASSUME TypeOK, TypeOK', broken => broken',
           \/ Carried' < Carried /\ alive' = alive
           \/ Carried' <= Carried /\ Cardinality(alive') < Cardinality(alive)
    PROVE  Rank' < Rank
<1> DEFINE x == Carried
           y == Carried'
           m == Cardinality(alive)
           n == Cardinality(alive')
           u == IF broken THEN 0 ELSE 1
           v == IF broken' THEN 0 ELSE 1
<1>1. x \in Nat /\ m \in Nat
  BY RankNumbers DEF RankParts
<1>2. y \in Nat /\ n \in Nat
  BY RankNumbers DEF RankParts
<1>3. u \in {0, 1} /\ v \in {0, 1} /\ v <= u
  OBVIOUS
<1>4. Rank = x + m + u /\ Rank' = y + n + v
  BY DEF Rank, Carried, Weight
<1>5. (y < x /\ n = m) \/ (y <= x /\ n < m)
  OBVIOUS
<1> HIDE DEF x, y, m, n, u, v
<1> QED
  BY <1>1, <1>2, <1>3, <1>4, <1>5

\* The items at each stage are numbered.
Stages ==
    /\ Len(call) \in Nat /\ backlog \in Nat /\ Len(hand) \in Nat
    /\ Len(chan["cmdq"]) \in Nat /\ Len(chan["c2s"]) \in Nat /\ Len(chan["inq"]) \in Nat
    /\ Len(chan["outq"]) \in Nat /\ Len(chan["s2c"]) \in Nat

\* They are, before and after a step.
LEMMA StageNumbers == (TypeOK => Stages) /\ (TypeOK' => Stages')
<1>1. TypeOK => Stages
  BY RankTypes DEF Stages, Channels
<1> QED
  BY <1>1, PTL

\* An item is taken from one stage and at most one is added to the next; what a
\* command adds is a message at one stage or the other.
ItemGoesOn(k, a, b, c, l, h, d, e, k1, a1, b1, c1, l1, h1, d1, e1) ==
    \/ k1 < k /\ a1 <= a + 1 /\ <<b1, c1, l1, h1, d1, e1>> = <<b, c, l, h, d, e>>
    \/ a1 < a /\ b1 <= b + 1 /\ <<k1, c1, l1, h1, d1, e1>> = <<k, c, l, h, d, e>>
    \/ b1 < b /\ c1 <= c + 1 /\ <<k1, a1, l1, h1, d1, e1>> = <<k, a, l, h, d, e>>
    \/ c1 < c /\ l1 <= l + 1 /\ <<k1, a1, b1, h1, d1, e1>> = <<k, a, b, h, d, e>>
    \/ c1 < c /\ d1 <= d + 1 /\ <<k1, a1, b1, l1, h1, e1>> = <<k, a, b, l, h, e>>
    \/ l1 < l /\ h1 <= h + 1 /\ <<k1, a1, b1, c1, d1, e1>> = <<k, a, b, c, d, e>>
    \/ h1 < h /\ d1 <= d + 1 /\ <<k1, a1, b1, c1, l1, e1>> = <<k, a, b, c, l, e>>
    \/ d1 < d /\ e1 <= e + 1 /\ <<k1, a1, b1, c1, l1, h1>> = <<k, a, b, c, l, h>>
    \/ e1 < e /\ <<k1, a1, b1, c1, l1, h1, d1>> = <<k, a, b, c, l, h, d>>

\* The same of the state before and after a step.
SomethingGoesOn ==
    ItemGoesOn(Len(call), Len(chan["cmdq"]), Len(chan["c2s"]), Len(chan["inq"]), backlog,
               Len(hand), Len(chan["outq"]), Len(chan["s2c"]),
               Len(call'), Len(chan'["cmdq"]), Len(chan'["c2s"]), Len(chan'["inq"]), backlog',
               Len(hand'), Len(chan'["outq"]), Len(chan'["s2c"]))

\* An item weighs less at every stage.
LEMMA WeightFalls ==
    ASSUME NEW k \in Nat, NEW a \in Nat, NEW b \in Nat, NEW c \in Nat,
           NEW l \in Nat, NEW h \in Nat, NEW d \in Nat, NEW e \in Nat,
           NEW k1 \in Nat, NEW a1 \in Nat, NEW b1 \in Nat, NEW c1 \in Nat,
           NEW l1 \in Nat, NEW h1 \in Nat, NEW d1 \in Nat, NEW e1 \in Nat
    PROVE  /\ ItemGoesOn(k, a, b, c, l, h, d, e, k1, a1, b1, c1, l1, h1, d1, e1)
                => Weight(k1, a1, b1, c1, l1, h1, d1, e1) < Weight(k, a, b, c, l, h, d, e)
           /\ /\ k1 <= k /\ a1 <= a /\ b1 <= b /\ c1 <= c
              /\ l1 <= l /\ h1 <= h /\ d1 <= d /\ e1 <= e
              => Weight(k1, a1, b1, c1, l1, h1, d1, e1) <= Weight(k, a, b, c, l, h, d, e)
BY DEF ItemGoesOn, Weight

\* What is to be carried becomes less.
LEMMA CarriedFalls ==
    ASSUME TypeOK, TypeOK', SomethingGoesOn
    PROVE  Carried' < Carried
<1>1. /\ Len(call) \in Nat /\ backlog \in Nat /\ Len(hand) \in Nat
      /\ Len(chan["cmdq"]) \in Nat /\ Len(chan["c2s"]) \in Nat /\ Len(chan["inq"]) \in Nat
      /\ Len(chan["outq"]) \in Nat /\ Len(chan["s2c"]) \in Nat
  BY StageNumbers DEF Stages
<1>2. /\ Len(call') \in Nat /\ backlog' \in Nat /\ Len(hand') \in Nat
      /\ Len(chan'["cmdq"]) \in Nat /\ Len(chan'["c2s"]) \in Nat /\ Len(chan'["inq"]) \in Nat
      /\ Len(chan'["outq"]) \in Nat /\ Len(chan'["s2c"]) \in Nat
  BY StageNumbers DEF Stages
<1> QED
  BY <1>1, <1>2, WeightFalls DEF Carried, SomethingGoesOn

\* It does not become more if no stage gets more items.
LEMMA CarriedStays ==
    ASSUME TypeOK, TypeOK', Len(call') <= Len(call), backlog' <= backlog, Len(hand') <= Len(hand),
           \A c \in Channels : Len(chan'[c]) <= Len(chan[c])
    PROVE  Carried' <= Carried
<1>1. Stages /\ Stages'
  BY StageNumbers
<1>2. /\ Len(chan'["cmdq"]) <= Len(chan["cmdq"]) /\ Len(chan'["c2s"]) <= Len(chan["c2s"])
      /\ Len(chan'["inq"]) <= Len(chan["inq"]) /\ Len(chan'["outq"]) <= Len(chan["outq"])
      /\ Len(chan'["s2c"]) <= Len(chan["s2c"])
  BY DEF Channels
<1> QED
  BY <1>1, <1>2, WeightFalls DEF Carried, Stages

\* One item less in the channel a task receives from, one more in the channel
\* it sends to.
LEMMA MoveLoads ==
    ASSUME ChannelsOK, NEW t, NEW c \in Channels, NEW d \in Channels, c # d, Move(t, c, d)
    PROVE  /\ Len(chan'[c]) < Len(chan[c]) /\ Len(chan'[d]) <= Len(chan[d]) + 1
           /\ \A k \in Channels \ {c, d} : Len(chan'[k]) = Len(chan[k])
<1>1. Moved(c, d) /\ chan[c] \in Seq(Nat) /\ chan[d] \in Seq(Nat)
  BY ChannelMove DEF ChannelsOK
<1>2. Len(Tail(chan[c])) < Len(chan[c])
  BY <1>1 DEF Moved
<1>3. Len(Append(chan[d], Head(chan[c]))) <= Len(chan[d]) + 1
  <2> DEFINE x == Head(chan[c])
  <2>1. x \in Nat
    BY <1>1 DEF Moved
  <2> HIDE DEF x
  <2>2. Len(Append(chan[d], x)) <= Len(chan[d]) + 1
    BY <1>1, <2>1
  <2> QED
    BY <2>2 DEF x
<1> QED
  BY <1>1, <1>2, <1>3 DEF Moved

\* One item less in the channel from which a task discards.
LEMMA TailLoads ==
    ASSUME ChannelsOK, NEW c \in Channels, chan[c] # <<>>,
           chan' = [chan EXCEPT ![c] = Tail(@)]
    PROVE  /\ Len(chan'[c]) < Len(chan[c])
           /\ \A k \in Channels \ {c} : Len(chan'[k]) = Len(chan[k])
<1>1. chan[c] \in Seq(Nat) /\ chan'[c] = Tail(chan[c])
  BY ChannelTail DEF ChannelsOK
<1>2. Len(Tail(chan[c])) < Len(chan[c])
  BY <1>1
<1> QED
  BY <1>1, <1>2, ChannelTail

\* A task passes an item on, or loses it.
LEMMA PassingFalls ==
    ASSUME TypeOK, TypeOK',
           \/ WriterSend \/ ReaderSend \/ RLoopSend \/ WLoopWrite
           \/ ReaderDiscards \/ RLoopDiscards
           \/ WriterSendIsReset \/ WLoopWriteIsReset
    PROVE  Rank' < Rank
<1>o. ChannelsOK /\ {"cmdq", "c2s", "inq", "outq", "s2c", "msgq"} = Channels
  BY ChannelTypes DEF Channels
<1>n. Stages /\ Stages'
  BY StageNumbers
<1>u. UNCHANGED <<call, backlog, hand, alive>> /\ (broken => broken')
  BY DEF WriterSend, ReaderSend, RLoopSend, WLoopWrite, ReaderDiscards, RLoopDiscards,
         WriterSendIsReset, WLoopWriteIsReset, Move, Discard, WriteIsReset, app, handler
<1>m. ASSUME NEW t, NEW c \in Channels, NEW d \in Channels \ {c}, Move(t, c, d)
      PROVE  /\ Len(chan'[c]) < Len(chan[c]) /\ Len(chan'[d]) <= Len(chan[d]) + 1
             /\ \A k \in Channels \ {c, d} : Len(chan'[k]) = Len(chan[k])
  BY <1>m, <1>o, MoveLoads
<1>d. ASSUME NEW t, NEW c \in Channels, NEW peers, Discard(t, c) \/ WriteIsReset(t, c, peers)
      PROVE  /\ Len(chan'[c]) < Len(chan[c])
             /\ \A k \in Channels \ {c} : Len(chan'[k]) = Len(chan[k])
  BY <1>d, <1>o, TailLoads DEF Discard, WriteIsReset
<1>s. SomethingGoesOn
  <2>1. CASE WriterSend
    <3>1. /\ Len(chan'["cmdq"]) < Len(chan["cmdq"]) /\ Len(chan'["c2s"]) <= Len(chan["c2s"]) + 1
          /\ \A k \in Channels \ {"cmdq", "c2s"} : Len(chan'[k]) = Len(chan[k])
      BY <2>1, <1>m, <1>o DEF WriterSend
    <3> QED
      BY <3>1, <1>u, <1>n, <1>o DEF SomethingGoesOn, ItemGoesOn, Stages
  <2>2. CASE RLoopSend
    <3>1. /\ Len(chan'["c2s"]) < Len(chan["c2s"]) /\ Len(chan'["inq"]) <= Len(chan["inq"]) + 1
          /\ \A k \in Channels \ {"c2s", "inq"} : Len(chan'[k]) = Len(chan[k])
      BY <2>2, <1>m, <1>o DEF RLoopSend
    <3> QED
      BY <3>1, <1>u, <1>n, <1>o DEF SomethingGoesOn, ItemGoesOn, Stages
  <2>3. CASE WLoopWrite
    <3>1. /\ Len(chan'["outq"]) < Len(chan["outq"]) /\ Len(chan'["s2c"]) <= Len(chan["s2c"]) + 1
          /\ \A k \in Channels \ {"outq", "s2c"} : Len(chan'[k]) = Len(chan[k])
      BY <2>3, <1>m, <1>o DEF WLoopWrite
    <3> QED
      BY <3>1, <1>u, <1>n, <1>o DEF SomethingGoesOn, ItemGoesOn, Stages
  <2>4. CASE ReaderSend \/ ReaderDiscards
    <3>1. /\ Len(chan'["s2c"]) < Len(chan["s2c"])
          /\ \A k \in Channels \ {"s2c", "msgq"} : Len(chan'[k]) = Len(chan[k])
      <4>1. CASE ReaderSend
        BY <4>1, <1>m, <1>o DEF ReaderSend
      <4>2. CASE ReaderDiscards
        BY <4>2, <1>d, <1>o DEF ReaderDiscards
      <4> QED
        BY <2>4, <4>1, <4>2
    <3> QED
      BY <3>1, <1>u, <1>n, <1>o DEF SomethingGoesOn, ItemGoesOn, Stages
  <2>5. CASE RLoopDiscards
    <3>1. /\ Len(chan'["c2s"]) < Len(chan["c2s"])
          /\ \A k \in Channels \ {"c2s"} : Len(chan'[k]) = Len(chan[k])
      BY <2>5, <1>d, <1>o DEF RLoopDiscards
    <3>2. Len(chan'["inq"]) <= Len(chan["inq"]) + 1
      <4>1. Len(chan'["inq"]) = Len(chan["inq"]) /\ Len(chan["inq"]) \in Nat
        BY <3>1, <1>n DEF Stages, Channels
      <4> QED
        BY <4>1
    <3> QED
      BY <3>1, <3>2, <1>u, <1>n, <1>o DEF SomethingGoesOn, ItemGoesOn, Stages
  <2>6. CASE WriterSendIsReset
    <3>1. /\ Len(chan'["cmdq"]) < Len(chan["cmdq"])
          /\ \A k \in Channels \ {"cmdq"} : Len(chan'[k]) = Len(chan[k])
      BY <2>6, <1>d, <1>o DEF WriterSendIsReset
    <3>2. Len(chan'["c2s"]) <= Len(chan["c2s"]) + 1
      <4>1. Len(chan'["c2s"]) = Len(chan["c2s"]) /\ Len(chan["c2s"]) \in Nat
        BY <3>1, <1>n DEF Stages, Channels
      <4> QED
        BY <4>1
    <3> QED
      BY <3>1, <3>2, <1>u, <1>n, <1>o DEF SomethingGoesOn, ItemGoesOn, Stages
  <2>7. CASE WLoopWriteIsReset
    <3>1. /\ Len(chan'["outq"]) < Len(chan["outq"])
          /\ \A k \in Channels \ {"outq"} : Len(chan'[k]) = Len(chan[k])
      BY <2>7, <1>d, <1>o DEF WLoopWriteIsReset
    <3>2. Len(chan'["s2c"]) <= Len(chan["s2c"]) + 1
      <4>1. Len(chan'["s2c"]) = Len(chan["s2c"]) /\ Len(chan["s2c"]) \in Nat
        BY <3>1, <1>n DEF Stages, Channels
      <4> QED
        BY <4>1
    <3> QED
      BY <3>1, <3>2, <1>u, <1>n, <1>o DEF SomethingGoesOn, ItemGoesOn, Stages
  <2> QED
    BY <2>1, <2>2, <2>3, <2>4, <2>5, <2>6, <2>7
<1> QED
  BY <1>u, <1>s, CarriedFalls, RankFalls

\* A task ends: there is one less, and nothing is added anywhere.
LEMMA EndingFalls ==
    ASSUME TypeOK, TypeOK', NEW t, NEW from, Ends(t, from)
    PROVE  Rank' < Rank
<1>n. Stages /\ ChannelsOK
  BY StageNumbers, ChannelTypes
<1>1. Cardinality(alive') < Cardinality(alive)
  <2>1. IsFiniteSet(alive) /\ Cardinality(alive) \in Nat
    BY RankTypes
  <2>2. t \in alive /\ alive' = alive \ {t}
    BY DEF Ends, End
  <2>3. Cardinality(alive \ {t}) = Cardinality(alive) - 1
    BY <2>1, <2>2, FS_RemoveElement
  <2> QED
    BY <2>1, <2>2, <2>3
<1>2. ASSUME NEW c \in Channels PROVE Len(chan'[c]) <= Len(chan[c])
  <2>1. chan'[c] = <<>> \/ chan'[c] = chan[c]
    BY <1>n, ChannelEnd DEF Ends
  <2>2. Len(chan[c]) \in Nat
    BY <1>n DEF ChannelsOK
  <2> QED
    BY <2>1, <2>2
<1>3. call' = call /\ broken' = broken
  BY DEF Ends, app
<1>4. backlog' <= backlog /\ Len(hand') <= Len(hand)
  <2>1. (backlog' = 0 /\ hand' = <<>>) \/ (backlog' = backlog /\ hand' = hand)
    BY DEF Ends, End, handler
  <2> QED
    BY <2>1, <1>n DEF Stages
<1>5. Len(call') <= Len(call)
  BY <1>n, <1>3 DEF Stages
<1>6. Carried' <= Carried
  BY <1>2, <1>4, <1>5, CarriedStays
<1> QED
  BY <1>1, <1>3, <1>6, RankFalls

\* A call returns or panics.
LEMMA CallFalls ==
    ASSUME TypeOK, TypeOK', CallGoesOn
    PROVE  Rank' < Rank
<1>n. Stages /\ Stages' /\ ChannelsOK /\ "cmdq" \in Channels
  BY StageNumbers, ChannelTypes DEF Channels
<1>1. call # <<>> /\ call' = <<>> /\ UNCHANGED <<alive, broken, backlog, hand>>
  BY DEF CallGoesOn, CallReturns, CallPanics, Drop, handler
<1>2. Len(call') < Len(call)
  <2>1. call \in Seq([by : Handles, cmd : DOMAIN Program])
    BY DEF TypeOK
  <2> QED
    BY <1>1, <2>1
<1>3. /\ Len(chan'["cmdq"]) <= Len(chan["cmdq"]) + 1
      /\ \A k \in Channels \ {"cmdq", "msgq"} : chan'[k] = chan[k]
  <2>1. CASE CallReturns
    <3> DEFINE x == call[1].cmd
    <3>1. x \in Nat /\ chan' = [chan EXCEPT !["cmdq"] = Append(@, x)] /\ HasRoom("cmdq")
      BY <2>1, <1>1, CallType, CapsArePositive DEF CallReturns
    <3> HIDE DEF x
    <3>2. /\ chan'["cmdq"] = Append(chan["cmdq"], x)
          /\ \A k \in Channels \ {"cmdq"} : chan'[k] = chan[k]
      BY <3>1, <1>n, ChannelAppend
    <3>3. chan["cmdq"] \in Seq(Nat)
      BY <1>n DEF ChannelsOK
    <3> QED
      BY <3>1, <3>2, <3>3
  <2>2. CASE CallPanics
    <3>1. \A k \in Channels \ {"msgq"} : chan'[k] = chan[k]
      BY <2>2, <1>n DEF CallPanics, Drop, ChannelsOK
    <3>2. chan'["cmdq"] = chan["cmdq"] /\ Len(chan["cmdq"]) \in Nat
      BY <3>1, <1>n DEF Stages
    <3> QED
      BY <3>1, <3>2
  <2> QED
    BY <2>1, <2>2 DEF CallGoesOn
<1>4. /\ chan'["c2s"] = chan["c2s"] /\ chan'["inq"] = chan["inq"]
      /\ chan'["outq"] = chan["outq"] /\ chan'["s2c"] = chan["s2c"]
  BY <1>3 DEF Channels
<1>5. SomethingGoesOn
  BY <1>1, <1>2, <1>3, <1>4 DEF SomethingGoesOn, ItemGoesOn
<1> QED
  BY <1>1, <1>5, CarriedFalls, RankFalls

\* A command is handled; what it leaves is at most one message.
LEMMA CommandFalls ==
    ASSUME TypeOK, TypeOK', HandleCommand
    PROVE  Rank' < Rank
<1>n. Stages /\ Stages' /\ ChannelsOK /\ "inq" \in Channels /\ "outq" \in Channels
  BY StageNumbers, ChannelTypes DEF Channels
<1>1. chan["inq"] # <<>> /\ UNCHANGED <<call, alive, broken, hand>>
  BY DEF HandleCommand, app
<1>2. chan["inq"] \in Seq(Nat) /\ chan["outq"] \in Seq(Nat)
  BY <1>n DEF ChannelsOK
<1>3. Len(Tail(chan["inq"])) < Len(chan["inq"])
  BY <1>1, <1>2
<1>4. CASE Subscribe
  <2>1. /\ chan' = [chan EXCEPT !["inq"] = Tail(chan["inq"]), !["outq"] = chan["outq"] \o LastMessage]
        /\ backlog' = backlog
    BY <1>4 DEF Subscribe, LastMessage
  <2>2. /\ chan'["inq"] = Tail(chan["inq"]) /\ chan'["outq"] = chan["outq"] \o LastMessage
        /\ \A k \in Channels \ {"inq", "outq"} : chan'[k] = chan[k]
    BY <2>1, <1>n DEF ChannelsOK
  <2>3. Len(chan'["outq"]) <= Len(chan["outq"]) + 1
    <3>1. CASE LastMessage = <<>>
      BY <2>2, <3>1, <1>2
    <3>2. CASE LastMessage = <<Len(queued) + 1>>
      BY <2>2, <3>2, <1>2
    <3> QED
      BY <3>1, <3>2 DEF LastMessage
  <2>4. /\ chan'["cmdq"] = chan["cmdq"] /\ chan'["c2s"] = chan["c2s"] /\ chan'["s2c"] = chan["s2c"]
    BY <2>2 DEF Channels
  <2>5. SomethingGoesOn
    BY <1>1, <1>3, <2>1, <2>2, <2>3, <2>4 DEF SomethingGoesOn, ItemGoesOn
  <2> QED
    BY <1>1, <2>5, CarriedFalls, RankFalls
<1>5. CASE Unsubscribe \/ Publish
  <2>1. chan' = [chan EXCEPT !["inq"] = Tail(@)]
    BY <1>5 DEF Unsubscribe, Publish
  <2>2. chan'["inq"] = Tail(chan["inq"]) /\ \A k \in Channels \ {"inq"} : chan'[k] = chan[k]
    BY <2>1, <1>n, <1>1, ChannelTail
  <2>3. backlog' <= backlog + 1
    <3>1. backlog \in Nat
      BY <1>n DEF Stages
    <3>2. backlog' = 0 \/ backlog' = backlog \/ backlog' = backlog + 1
      BY <1>5 DEF Unsubscribe, Publish, Broadcast
    <3> QED
      BY <3>1, <3>2
  <2>4. /\ chan'["cmdq"] = chan["cmdq"] /\ chan'["c2s"] = chan["c2s"]
        /\ chan'["outq"] = chan["outq"] /\ chan'["s2c"] = chan["s2c"]
    BY <2>2 DEF Channels
  <2>5. SomethingGoesOn
    BY <1>1, <1>3, <2>2, <2>3, <2>4 DEF SomethingGoesOn, ItemGoesOn
  <2> QED
    BY <1>1, <2>5, CarriedFalls, RankFalls
<1> QED
  BY <1>4, <1>5 DEF HandleCommand

\* A message of the topic is taken, skipped or queued for the client.
LEMMA StreamFalls ==
    ASSUME TypeOK, TypeOK', StreamBranch \/ Forward
    PROVE  Rank' < Rank
<1>n. Stages /\ Stages' /\ ChannelsOK /\ TopicCap \in Nat /\ "outq" \in Channels
  BY StageNumbers, ChannelTypes, CapsArePositive DEF Channels
<1>1. CASE StreamBranch
  <2>1. UNCHANGED <<call, alive, broken, chan>>
    BY <1>1 DEF StreamBranch, StreamOk, StreamLagged, app
  <2>2. backlog' < backlog /\ Len(hand') <= Len(hand) + 1
    <3>1. CASE StreamOk
      <4>1. hand' = <<Len(queued) + 1>> /\ backlog' = backlog - 1
        BY <3>1 DEF StreamOk
      <4> QED
        BY <4>1, <1>n DEF Stages
    <3>2. CASE StreamLagged
      BY <3>2, <1>n DEF StreamLagged, Stages
    <3> QED
      BY <1>1, <3>1, <3>2 DEF StreamBranch
  <2>3. SomethingGoesOn
    BY <2>1, <2>2 DEF SomethingGoesOn, ItemGoesOn
  <2> QED
    BY <2>1, <2>3, CarriedFalls, RankFalls
<1>2. CASE Forward
  <2>1. UNCHANGED <<call, alive, broken, backlog>> /\ hand # <<>> /\ hand' = <<>>
    BY <1>2 DEF Forward, app
  <2>2. /\ hand \in Seq(Nat) /\ Len(hand) <= 1 /\ chan["outq"] \in Seq(Nat)
    BY <1>n DEF TypeOK, ChannelsOK
  <2>3. /\ chan'["outq"] = chan["outq"] \o hand
        /\ \A k \in Channels \ {"outq"} : chan'[k] = chan[k]
    BY <1>2, <1>n DEF Forward, ChannelsOK
  <2>4. Len(hand') < Len(hand)
    BY <2>1, <2>2
  <2>5. Len(chan'["outq"]) <= Len(chan["outq"]) + 1
    BY <2>2, <2>3
  <2>6. /\ chan'["cmdq"] = chan["cmdq"] /\ chan'["c2s"] = chan["c2s"]
        /\ chan'["inq"] = chan["inq"] /\ chan'["s2c"] = chan["s2c"]
    BY <2>3 DEF Channels
  <2>7. SomethingGoesOn
    BY <2>1, <2>4, <2>5, <2>6 DEF SomethingGoesOn, ItemGoesOn
  <2> QED
    BY <2>1, <2>7, CarriedFalls, RankFalls
<1> QED
  BY <1>1, <1>2

\* Every step of a task lowers the rank.
LEMMA TasksFall ==
    ASSUME TypeOK, TypeOK', Tasks
    PROVE  Rank' < Rank
<1>1. CASE \/ WriterSend \/ ReaderSend \/ RLoopSend \/ WLoopWrite
           \/ ReaderDiscards \/ RLoopDiscards
           \/ WriterSendIsReset \/ WLoopWriteIsReset
  BY <1>1, PassingFalls
<1>2. CASE \/ WriterPanics \/ WriterNone \/ ReaderNone \/ ReaderPanics \/ RLoopNone \/ RLoopFails
           \/ HandlerNone \/ ForwardFails \/ WLoopFails \/ WLoopElse
  BY <1>2, EndingFalls DEF WriterPanics, WriterNone, ReaderNone, ReaderPanics, RLoopNone,
       RLoopFails, HandlerNone, ForwardFails, WLoopFails, WLoopElse
<1>3. CASE CallGoesOn
  BY <1>3, CallFalls
<1>4. CASE HandleCommand
  BY <1>4, CommandFalls
<1>5. CASE StreamBranch \/ Forward
  BY <1>5, StreamFalls
<1> QED
  BY <1>1, <1>2, <1>3, <1>4, <1>5
     DEF Tasks, Writer, Reader, RLoop, WLoop, CommandBranch, Forwarding

\* The rank is a natural number, and bounds the steps that the tasks of the two
\* sides can take without the application, other publishers or a failure: they
\* cannot pass items around or retry for ever, for channels of every capacity.
THEOREM NoLivelock == Spec => [](Rank \in Nat) /\ TasksWearOff
<1>1. TypeOK => Rank \in Nat
  <2>1. ASSUME RankParts PROVE Rank \in Nat
    <3>1. Rank = Carried + Cardinality(alive) + (IF broken THEN 0 ELSE 1)
      BY DEF Rank, Carried, Weight
    <3> QED
      BY <2>1, <3>1 DEF RankParts
  <2> QED
    BY <2>1, RankNumbers
<1>2. TypeOK /\ TypeOK' /\ [Next]_vars => [Tasks => Rank' < Rank]_vars
  BY TasksFall
<1> QED
  BY <1>1, <1>2, TypesHold, PTL DEF TasksWearOff, Spec

=============================================================================
