-------------------------- MODULE WriteLoopProofs ---------------------------
(***************************************************************************)
(* Proofs about WriteLoop, for every buffer configuration, every size of   *)
(* messages and every capacity of the channel.                             *)
(***************************************************************************)
EXTENDS WriteLoop, TLAPS

\* The inductive invariant.
Inv ==
    /\ TypeOK
    /\ Conserved
    /\ NothingStuck
    /\ NothingLostAtTheEnd
    /\ pc = "start" => buf = <<>>

-----------------------------------------------------------------------------
(* Sequences                                                               *)

\* Concatenation is associative: moving messages between the places of the
\* write loop does not reorder them.
LEMMA ConcatAssoc ==
    ASSUME NEW S, NEW a \in Seq(S), NEW b \in Seq(S), NEW c \in Seq(S)
    PROVE  (a \o b) \o c = a \o (b \o c)
OBVIOUS

\* Appending to the last place is appending to everything under way.
LEMMA AppendConcat ==
    ASSUME NEW S, NEW a \in Seq(S), NEW b \in Seq(S), NEW m \in S
    PROVE  a \o Append(b, m) = Append(a \o b, m)
OBVIOUS

\* The empty sequence is neutral: a place without messages does not count.
LEMMA ConcatEmpty ==
    ASSUME NEW S, NEW a \in Seq(S)
    PROVE  a \o <<>> = a /\ <<>> \o a = a
OBVIOUS

\* A part of the buffer written before the socket failed: the wire holds a
\* beginning of all that was sent.
LEMMA PrefixOfConcat ==
    ASSUME NEW S, NEW a \in Seq(S), NEW b \in Seq(S), NEW c \in Seq(S),
           NEW k \in 0 .. Len(b)
    PROVE  IsPrefix(a \o SubSeq(b, 1, k), (a \o b) \o c)
BY DEF IsPrefix

\* Taking the head off the channel and holding it leaves what is under way as
\* it was.
LEMMA HeadTail ==
    ASSUME NEW S, NEW q \in Seq(S), q # <<>>
    PROVE  Head(q) \in S /\ Tail(q) \in Seq(S) /\ <<Head(q)>> \o Tail(q) = q
OBVIOUS

-----------------------------------------------------------------------------
(* The steps                                                               *)

\* A loop that has just been spawned, with nothing sent to it.
LEMMA InvariantInitially == Init => Inv
<1> SUFFICES ASSUME Init PROVE Inv
  OBVIOUS
<1>1. Capacity \in Nat
  <2>1. cli.size = NoFlag \/ cli.size \in Nat
    BY SizesAreNaturals DEF Init
  <2> QED
    BY <2>1 DEF Capacity, BufferConfig, LowLatency, Balanced, HighThroughput
<1>2. ControlTypes
  BY DEF Init, ControlTypes
<1>3. PlaceTypes
  BY DEF Init, PlaceTypes
<1>4. Len(hand) = 0 /\ Len(queue) = 0 /\ pc = "start" /\ used = 0 /\ buf = <<>>
  BY DEF Init
<1>5. TypeOK
  BY <1>1, <1>2, <1>3, <1>4, SizesAreNaturals DEF TypeOK
<1> QED
  BY <1>5 DEF Init, Inv, Conserved, NothingStuck, NothingLostAtTheEnd

\* Every configuration main() can build has a buffer size that is a number.
LEMMA CapacityType == TypeOK => Capacity \in Nat
<1> SUFFICES ASSUME TypeOK PROVE Capacity \in Nat
  OBVIOUS
<1>1. cli.size = NoFlag \/ cli.size \in Nat
  BY SizesAreNaturals DEF TypeOK, ControlTypes
<1> QED
  BY <1>1 DEF Capacity, BufferConfig, LowLatency, Balanced, HighThroughput

\* ... and one of the three strategies, whatever the flags.
LEMMA StrategyType == Strategy \in {"immediate", "periodic", "auto"}
BY DEF Strategy, BufferConfig, LowLatency, Balanced, HighThroughput

\* While the loop writes it holds one message, of positive size.
LEMMA HandType ==
    ASSUME TypeOK, pc = "write"
    PROVE  hand # <<>> /\ Head(hand) \in Message /\ Head(hand).size \in Nat \ {0}
<1>1. hand \in Seq(Message) /\ Len(hand) = 1
  BY DEF TypeOK, PlaceTypes
<1>2. hand # <<>> /\ Head(hand) \in Message
  BY <1>1
<1> QED
  BY <1>2, SizesAreNaturals DEF Message

\* Every step keeps the types, the capacity of the channel and the size of
\* the buffer.
LEMMA TypeInductive == TypeOK /\ [Next]_vars => TypeOK'
<1> SUFFICES ASSUME TypeOK, [Next]_vars PROVE TypeOK'
  OBVIOUS
<1> USE DEF TypeOK, ControlTypes, PlaceTypes
<1>a. Capacity \in Nat
  BY CapacityType
<1>b. cli' = cli => Capacity' = Capacity
  BY DEF Capacity
<1>0. CASE UNCHANGED vars
  BY <1>0, <1>b DEF vars
<1>1. ASSUME NEW size \in MessageSizes, HandlerSends(size) PROVE TypeOK'
  <2> DEFINE m == [n |-> Len(sent) + 1, size |-> size]
  <2>1. m \in Message
    BY DEF Message
  <2>2. queue' = Append(queue, m) /\ sent' = Append(sent, m) /\ Len(queue) < OutCap
    BY <1>1 DEF HandlerSends
  <2>3. queue' \in Seq(Message) /\ sent' \in Seq(Message) /\ Len(queue') <= OutCap
    BY <2>1, <2>2, SizesAreNaturals
  <2> QED
    BY <1>1, <1>b, <2>3 DEF HandlerSends
<1>2. CASE HandlerEnds
  BY <1>2, <1>b DEF HandlerEnds
<1>e. ASSUME End(TRUE) \/ End(FALSE), wire' \in Seq(Message), UNCHANGED <<cli, open, sent>>
      PROVE  TypeOK'
  <2>1. ControlTypes'
    BY <1>e DEF End
  <2>a. queue' = <<>> /\ hand' = <<>> /\ buf' = <<>> /\ sent' = sent
    BY <1>e DEF End
  <2>b. PlaceTypes'
    BY <1>e, <2>a
  <2>2. PlaceTypes' /\ Len(hand') = 0 /\ Len(queue') = 0
    BY <2>a, <2>b
  <2>3. pc' = "end" /\ used' = 0 /\ buf' = <<>> /\ Capacity' \in Nat
    BY <1>e, <1>a, <1>b DEF End
  <2> QED
    BY <2>1, <2>2, <2>3, SizesAreNaturals
<1>3. CASE Start
  <2>1. CASE End(TRUE)
    BY <1>3, <1>e, <2>1 DEF Start
  <2>2. CASE pc' = "select" /\ UNCHANGED <<queue, hand, buf, used, failed>>
    BY <1>3, <1>b, <2>2 DEF Start
  <2> QED
    BY <1>3, <2>1, <2>2 DEF Start
<1>4. CASE Recv
  <2>1. /\ queue # <<>> /\ hand' = <<Head(queue)>> /\ queue' = Tail(queue)
        /\ UNCHANGED <<cli, open, buf, used, wire, sent, failed>> /\ pc' = "write"
    BY <1>4 DEF Recv
  <2>2. Head(queue) \in Message /\ Tail(queue) \in Seq(Message)
    BY <2>1, HeadTail
  <2>3. Len(Tail(queue)) <= OutCap
    BY <2>1, SizesAreNaturals
  <2>4. hand' \in Seq(Message) /\ Len(hand') = 1
    BY <2>1, <2>2
  <2> QED
    BY <1>b, <2>1, <2>2, <2>3, <2>4
<1>5. CASE MakeRoom
  BY <1>5, <1>a, <1>b DEF MakeRoom
<1>6. CASE WriteAll
  <2>1. pc = "write" /\ pc' = "written" /\ hand' = <<>> /\ UNCHANGED <<cli, queue, open, sent, failed>>
    BY <1>6 DEF WriteAll
  <2>2. Head(hand).size \in Nat \ {0}
    BY <2>1, HandType
  <2>a. Len(hand') = 0 /\ hand' \in Seq(Message)
    BY <2>1
  <2>3. CASE wire' = wire \o hand /\ UNCHANGED <<buf, used>>
    <3>1. wire' \in Seq(Message)
      BY <2>3
    <3> QED
      BY <1>b, <2>1, <2>a, <2>3, <3>1
  <2>4. ASSUME NEW rest \in Remainders,
               buf' = buf \o hand, used' = used + rest, wire' = wire
        PROVE  TypeOK'
    <3>1. rest \in Nat \ {0} /\ rest <= Head(hand).size
      BY <1>a, <2>2 DEF Remainders, GoesDirectly
    <3>2. buf = <<>> => used + rest <= Capacity
      BY <1>a, <2>2 DEF Remainders, GoesDirectly
    <3>3. buf # <<>> => used + Head(hand).size <= Capacity
      BY <1>6, <1>a, <2>2 DEF WriteAll, MustMakeRoom
    <3>4. used' \in 0 .. Capacity /\ used' > 0
      BY <1>a, <2>2, <2>4, <3>1, <3>2, <3>3, SMTT(30)
    <3>5. buf' \in Seq(Message) /\ buf' # <<>>
      <4>1. hand # <<>>
        BY <2>1, HandType
      <4> QED
        BY <2>4, <4>1
    <3> QED
      BY <1>b, <2>1, <2>a, <2>4, <3>4, <3>5
  <2> QED
    BY <1>6, <2>3, <2>4 DEF WriteAll
<1>7. CASE Decide
  BY <1>7, <1>b DEF Decide
<1>8. CASE Flush
  BY <1>8, <1>a, <1>b DEF Flush
<1>9. CASE SocketFails
  <2>1. wire' \in Seq(Message)
    BY <1>9 DEF SocketFails
  <2> QED
    BY <1>9, <1>e, <2>1 DEF SocketFails
<1>10. CASE ElseBreak
  BY <1>10, <1>e DEF ElseBreak
<1>11. CASE Tick
  BY <1>11, <1>b DEF Tick
<1> QED
  BY <1>0, <1>1, <1>2, <1>3, <1>4, <1>5, <1>6, <1>7, <1>8, <1>9, <1>10, <1>11
  DEF Next, Handler, Run

\* The end of the task after an error: what is on the wire is a beginning of
\* what was sent, whichever part of the buffer the socket took.
LEMMA EndsWithError ==
    ASSUME Inv, TypeOK', End(TRUE), UNCHANGED sent, pc # "end",
           NEW k \in 0 .. Len(buf), wire' = wire \o SubSeq(buf, 1, k)
    PROVE  Inv'
<1>a. /\ queue \in Seq(Message) /\ hand \in Seq(Message) /\ buf \in Seq(Message)
      /\ wire \in Seq(Message)
  BY DEF Inv, TypeOK, PlaceTypes
<1>1. hand \o queue \in Seq(Message) /\ wire \o buf \in Seq(Message)
  BY <1>a
<1>2. ASSUME NEW w \in Seq(Message) PROVE (w \o hand) \o queue = w \o (hand \o queue)
  BY <1>a
<1>b. sent = (wire \o buf) \o (hand \o queue)
  BY <1>1, <1>2 DEF Inv, Conserved
<1>3. IsPrefix(wire', sent)
  BY <1>a, <1>1, <1>b, PrefixOfConcat
<1> QED
  BY <1>3 DEF Inv, End, Conserved, NothingStuck, NothingLostAtTheEnd

\* Every step of the handler, of the loop and of the socket keeps the
\* invariant.
LEMMA InvariantInductive == Inv /\ [Next]_vars => Inv'
<1> SUFFICES ASSUME Inv, [Next]_vars PROVE Inv'
  OBVIOUS
<1>t. TypeOK'
  BY TypeInductive DEF Inv
<1>a. /\ queue \in Seq(Message) /\ hand \in Seq(Message) /\ buf \in Seq(Message)
      /\ wire \in Seq(Message) /\ (pc # "write" => hand = <<>>)
  BY DEF Inv, TypeOK, PlaceTypes
<1> USE DEF Inv
<1>0. CASE UNCHANGED vars
  BY <1>t, <1>0 DEF vars, Conserved, NothingStuck, NothingLostAtTheEnd, Strategy
<1>1. ASSUME NEW size \in MessageSizes, HandlerSends(size) PROVE Inv'
  <2> DEFINE m == [n |-> Len(sent) + 1, size |-> size]
  <2>1. m \in Message
    BY DEF Message, TypeOK, PlaceTypes
  <2>2. /\ queue' = Append(queue, m) /\ sent' = Append(sent, m) /\ pc # "end"
        /\ UNCHANGED <<cli, pc, hand, buf, wire, failed>>
    BY <1>1 DEF HandlerSends
  <2>3. wire \o buf \o hand \in Seq(Message)
    BY <1>a
  <2>4. (wire \o buf \o hand) \o Append(queue, m) = Append(wire \o buf \o hand \o queue, m)
    BY <1>a, <2>1, <2>3, AppendConcat
  <2>5. Conserved'
    BY <2>2, <2>4 DEF Conserved
  <2>6. NothingStuck'
    BY <1>a, <2>1, <2>2 DEF NothingStuck, Strategy
  <2> QED
    BY <1>t, <2>2, <2>5, <2>6 DEF NothingLostAtTheEnd
<1>2. CASE HandlerEnds
  BY <1>t, <1>2 DEF HandlerEnds, Conserved, NothingStuck, NothingLostAtTheEnd, Strategy
<1>3. CASE Start
  <2>1. CASE End(TRUE)
    <3>1. wire' = wire \o SubSeq(buf, 1, 0) /\ 0 \in 0 .. Len(buf) /\ pc # "end"
      BY <1>3, <1>a DEF Start
    <3> QED
      BY <1>t, <1>3, <2>1, <3>1, EndsWithError DEF Start
  <2>2. CASE pc' = "select" /\ UNCHANGED <<queue, hand, buf, used, failed>>
    BY <1>t, <1>3, <2>2 DEF Start, Conserved, NothingStuck, NothingLostAtTheEnd
  <2> QED
    BY <1>3, <2>1, <2>2 DEF Start
<1>4. CASE Recv
  <2>1. /\ pc = "select" /\ pc' = "write" /\ queue # <<>> /\ hand = <<>>
        /\ hand' = <<Head(queue)>> /\ queue' = Tail(queue)
        /\ UNCHANGED <<buf, wire, sent>>
    BY <1>4, <1>a DEF Recv
  <2>2. /\ <<Head(queue)>> \in Seq(Message) /\ Tail(queue) \in Seq(Message)
        /\ <<Head(queue)>> \o Tail(queue) = queue
    BY <1>a, <2>1, HeadTail
  <2>3. wire \o buf \o <<>> \o queue = wire \o buf \o <<Head(queue)>> \o Tail(queue)
    <3>1. wire \o buf \in Seq(Message) /\ (wire \o buf) \o <<>> = wire \o buf
      BY <1>a, ConcatEmpty
    <3>2. ((wire \o buf) \o <<Head(queue)>>) \o Tail(queue)
            = (wire \o buf) \o (<<Head(queue)>> \o Tail(queue))
      BY <2>2, <3>1, ConcatAssoc, SMTT(30)
    <3> QED
      BY <2>2, <3>1, <3>2
  <2> QED
    BY <1>t, <2>1, <2>3 DEF Conserved, NothingStuck, NothingLostAtTheEnd
<1>5. CASE MakeRoom
  <2>1. wire' \o buf' = wire \o buf
    BY <1>5, <1>a, ConcatEmpty DEF MakeRoom
  <2> QED
    BY <1>t, <1>5, <2>1 DEF MakeRoom, Conserved, NothingStuck, NothingLostAtTheEnd
<1>6. CASE WriteAll
  <2>1. /\ pc = "write" /\ pc' = "written" /\ hand' = <<>> /\ ~MustMakeRoom
        /\ UNCHANGED <<queue, sent>>
        /\ \/ GoesDirectly /\ wire' = wire \o hand /\ buf' = buf
           \/ buf' = buf \o hand /\ wire' = wire
    BY <1>6 DEF WriteAll
  <2>2. GoesDirectly => buf = <<>>
    <3>1. Head(hand).size \in Nat /\ Capacity \in Nat
      BY <2>1, HandType, CapacityType
    <3> QED
      BY <2>1, <3>1 DEF GoesDirectly, MustMakeRoom, TypeOK
  <2>3. wire' \o buf' \o hand' = wire \o buf \o hand
    <3>1. wire \o <<>> = wire /\ (wire \o hand) \o <<>> = wire \o hand
      BY <1>a, ConcatEmpty
    <3>2. (wire \o buf) \o hand = wire \o (buf \o hand)
      BY <1>a, ConcatAssoc
    <3>3. wire \o (buf \o hand) \in Seq(Message)
      BY <1>a
    <3>4. (wire \o (buf \o hand)) \o <<>> = wire \o (buf \o hand)
      BY <3>3, ConcatEmpty
    <3> QED
      BY <2>1, <2>2, <3>1, <3>2, <3>4
  <2> QED
    BY <1>t, <2>1, <2>3 DEF Conserved, NothingStuck, NothingLostAtTheEnd
<1>7. CASE Decide
  <2>1. NothingStuck'
    <3>1. Strategy' = Strategy
      BY <1>7 DEF Decide, Strategy
    <3> QED
      BY <1>7, <3>1, StrategyType DEF Decide, NothingStuck
  <2> QED
    BY <1>t, <1>7, <2>1 DEF Decide, Conserved, NothingLostAtTheEnd
<1>8. CASE Flush
  <2>1. wire' \o buf' = wire \o buf
    BY <1>8, <1>a, ConcatEmpty DEF Flush
  <2> QED
    BY <1>t, <1>8, <2>1 DEF Flush, Conserved, NothingStuck, NothingLostAtTheEnd
<1>9. CASE SocketFails
  BY <1>t, <1>9, EndsWithError DEF SocketFails
<1>10. CASE ElseBreak
  <2>1. buf = <<>> /\ queue = <<>> /\ hand = <<>>
    BY <1>10, <1>a DEF ElseBreak, NothingStuck
  <2>2. wire = sent
    BY <1>10, <1>a, <2>1, ConcatEmpty DEF ElseBreak, Conserved
  <2> QED
    BY <1>t, <1>10, <1>a, <2>2 DEF ElseBreak, End, Conserved, NothingStuck, NothingLostAtTheEnd, IsPrefix
<1>11. CASE Tick
  BY <1>t, <1>11 DEF Tick, Conserved, NothingStuck, NothingLostAtTheEnd
<1> QED
  BY <1>0, <1>1, <1>2, <1>3, <1>4, <1>5, <1>6, <1>7, <1>8, <1>9, <1>10, <1>11
  DEF Next, Handler, Run

-----------------------------------------------------------------------------
(* The theorems                                                            *)

\* The invariant holds in every reachable state of the write loop.
LEMMA Invariance == Spec => []Inv
BY InvariantInitially, InvariantInductive, PTL DEF Spec

\* Types; neither the channel nor the BufWriter's buffer exceeds its size, for
\* every configuration of the command line.
THEOREM TypesHold == Spec => []TypeOK
BY Invariance, PTL DEF Inv

\* The write loop loses, doubles and reorders nothing: the socket has got a
\* beginning of what the handler sent, and the rest is under way in order.
THEOREM ConservedHolds == Spec => []Conserved
BY Invariance, PTL DEF Inv

\* The comment in the Auto arm holds: the loop never waits for the handler with
\* a message stuck in its buffer.
THEOREM NothingStuckHolds == Spec => []NothingStuck
BY Invariance, PTL DEF Inv

\* Dropping the BufWriter without a flush loses nothing: when the loop is left
\* through `else => break`, everything has been written.
THEOREM NothingLostHolds == Spec => []NothingLostAtTheEnd
BY Invariance, PTL DEF Inv

=============================================================================
