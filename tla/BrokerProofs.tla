---------------------------- MODULE BrokerProofs ----------------------------
(***************************************************************************)
(* Proofs about Broker, for any connections, topics, patterns and          *)
(* capacities.  The pattern tree is known by the assumption SubsAreTrees   *)
(* only.                                                                   *)
(*                                                                         *)
(* The invariants the runs check are not inductive one by one: Coverage    *)
(* needs to know where the message in a handler's hand comes from and that *)
(* streams are on existing topics (Bookkeeping), Gapless that the retained *)
(* message is the newest (Bookkeeping), QueueInOrder that nothing in the   *)
(* queue is ahead of the stream (Gapless).  Their conjunction is.          *)
(***************************************************************************)
EXTENDS Broker, TLAPS

\* The inductive invariant.
Inv ==
    /\ TypeOK
    /\ Bookkeeping
    /\ SendFindsTopic
    /\ Coverage
    /\ Gapless
    /\ QueueInOrder

-----------------------------------------------------------------------------
(* Types                                                                   *)

\* Putting a message into a channel with room (adapter_sender.send) keeps the
\* types and the capacity of the channel to the write loop.
LEMMA EnqueueTypes ==
    ASSUME QueueTypes, NEW c \in Conns, NEW t \in Topics, NEW n \in Nat,
           Len(out[c]) < OutCap, Enqueue(c, t, n), UNCHANGED up
    PROVE  QueueTypes'
<1> DEFINE m == [topic |-> t, n |-> n]
<1>1. m \in Message
  BY DEF Message
<1>2. out' = [out EXCEPT ![c] = Append(@, m)]
  BY DEF Enqueue
<1> HIDE DEF m
<1>3. out' \in [Conns -> Seq(Message)]
  BY <1>1, <1>2 DEF QueueTypes
<1>4. \A d \in Conns : Len(out'[d]) <= OutCap
  BY <1>1, <1>2, CapsAreBounds DEF QueueTypes
<1>5. hi' \in [Conns -> [Topics -> Nat]]
  BY DEF QueueTypes, Enqueue
<1>6. dropped' \in [Conns -> SUBSET Topics] /\ lagged' \in [Conns -> SUBSET Topics]
  BY DEF QueueTypes, Enqueue
<1> QED
  BY <1>3, <1>4, <1>5, <1>6 DEF QueueTypes

\* ConnectionHandler::subscribe_to_topic keeps the types of the handler and of
\* its channel: try_send() respects the capacity.
LEMMA SubscribeTypes ==
    ASSUME BusTypes, LocalTypes, QueueTypes, NEW c \in Conns, NEW t \in Topics,
           SubscribeToTopic(c, t), UNCHANGED <<subs, up>>
    PROVE  LocalTypes' /\ QueueTypes'
<1>1. tail[t] \in Nat /\ last[t] \in Nat
  BY DEF BusTypes
<1>2. LocalTypes'
  <2>1. CASE UNCHANGED <<streams, cursor>>
    BY <2>1 DEF LocalTypes
  <2>2. CASE /\ streams' = [streams EXCEPT ![c] = streams[c] \cup {t}]
             /\ cursor' = [cursor EXCEPT ![c][t] = tail[t]]
    BY <1>1, <2>2 DEF LocalTypes
  <2> QED
    BY <2>1, <2>2 DEF SubscribeToTopic
<1>3. CASE UNCHANGED <<out, hi, dropped, lagged>>
  BY <1>2, <1>3 DEF QueueTypes
<1>4. CASE UNCHANGED <<out, hi, lagged>> /\ dropped' = [dropped EXCEPT ![c] = @ \cup {t}]
  BY <1>2, <1>4 DEF QueueTypes
<1>5. CASE Len(out[c]) < OutCap /\ Enqueue(c, t, last[t])
  BY <1>1, <1>2, <1>5, EnqueueTypes
<1> QED
  BY <1>3, <1>4, <1>5 DEF SubscribeToTopic

\* subscribe_to_topic leaves a stream's position where it is or puts it at the
\* end of the topic's channel.
LEMMA SubscribeCursor ==
    ASSUME LocalTypes, NEW c \in Conns, NEW t \in Topics, SubscribeToTopic(c, t)
    PROVE  \A d \in Conns, u \in Topics :
               cursor'[d][u] = cursor[d][u] \/ cursor'[d][u] = tail[u]
<1>1. CASE UNCHANGED cursor
  BY <1>1
<1>2. CASE cursor' = [cursor EXCEPT ![c][t] = tail[t]]
  BY <1>2 DEF LocalTypes
<1> QED
  BY <1>1, <1>2 DEF SubscribeToTopic

\* Every step of a handler, of the Bus and of a write loop keeps the types and
\* the capacity of the channels to the write loops.
LEMMA TypeInductive ==
    TypeOK /\ Bookkeeping /\ [Next]_vars => TypeOK'
<1> SUFFICES ASSUME BusTypes, TaskTypes, LocalTypes, EventTypes, QueueTypes,
                    Bookkeeping, [Next]_vars
             PROVE  TypeOK'
  BY DEF TypeOK
<1> USE CapsAreBounds
    DEF At, Goto, Unmute, PCs, Sending, bus, task, local, evrecv, writer, history
<1>0. CASE UNCHANGED vars
  BY <1>0 DEF TypeOK, BusTypes, TaskTypes, LocalTypes, EventTypes, QueueTypes, vars
<1>1. ASSUME NEW c \in Conns, Connect(c) PROVE TypeOK'
  BY <1>1 DEF TypeOK, Connect, BusTypes, TaskTypes, LocalTypes, EventTypes, QueueTypes
<1>2. ASSUME NEW c \in Conns, Disconnect(c) PROVE TypeOK'
  <2>1. TaskTypes'
    BY <1>2 DEF TaskTypes, Disconnect, Exit
  <2>2. LocalTypes'
    BY <1>2, SubsAreTrees DEF LocalTypes, Disconnect, Exit
  <2>3. BusTypes' /\ EventTypes' /\ QueueTypes'
    BY <1>2 DEF Disconnect, Exit, BusTypes, EventTypes, QueueTypes
  <2> QED
    BY <2>1, <2>2, <2>3 DEF TypeOK
<1>3. ASSUME NEW c \in Conns, NEW p \in Patterns, CmdSubscribe(c, p) PROVE TypeOK'
  <2>1. TaskTypes'
    BY <1>3 DEF BusTypes, TaskTypes, CmdSubscribe
  <2>2. BusTypes' /\ LocalTypes' /\ EventTypes' /\ QueueTypes'
    BY <1>3 DEF CmdSubscribe, BusTypes, LocalTypes, EventTypes, QueueTypes
  <2> QED
    BY <2>1, <2>2 DEF TypeOK
<1>4. ASSUME NEW c \in Conns, NEW p \in Patterns, CmdUnsubscribe(c, p) PROVE TypeOK'
  <2>1. LocalTypes'
    BY <1>4, SubsAreTrees DEF LocalTypes, CmdUnsubscribe
  <2>2. BusTypes' /\ TaskTypes' /\ EventTypes' /\ QueueTypes'
    BY <1>4 DEF CmdUnsubscribe, BusTypes, TaskTypes, EventTypes, QueueTypes
  <2> QED
    BY <2>1, <2>2 DEF TypeOK
<1>5. ASSUME NEW c \in Conns, NEW t \in Topics, CmdPublish(c, t) PROVE TypeOK'
  <2>1. TaskTypes'
    BY <1>5 DEF TaskTypes, CmdPublish, Work
  <2>2. BusTypes' /\ LocalTypes' /\ EventTypes' /\ QueueTypes'
    BY <1>5 DEF CmdPublish, Work, BusTypes, LocalTypes, EventTypes, QueueTypes
  <2> QED
    BY <2>1, <2>2 DEF TypeOK
<1>6. ASSUME NEW c \in Conns, CmdPublishFails(c) PROVE TypeOK'
  BY <1>6 DEF TypeOK, CmdPublishFails, BusTypes, TaskTypes, LocalTypes, EventTypes, QueueTypes
<1>7. ASSUME NEW c \in Conns, ListTopics(c) PROVE TypeOK'
  <2>1. TaskTypes'
    BY <1>7 DEF BusTypes, TaskTypes, ListTopics
  <2>2. BusTypes' /\ LocalTypes' /\ EventTypes' /\ QueueTypes'
    BY <1>7 DEF ListTopics, BusTypes, LocalTypes, EventTypes, QueueTypes
  <2> QED
    BY <2>1, <2>2 DEF TypeOK
<1>8. ASSUME NEW c \in Conns, AttachNext(c) PROVE TypeOK'
  <2>1. PICK t \in todo[c] : SubscribeToTopic(c, t) /\ todo' = [todo EXCEPT ![c] = @ \ {t}]
    BY <1>8 DEF AttachNext
  <2>2. t \in Topics
    BY DEF TaskTypes
  <2>3. LocalTypes' /\ QueueTypes'
    BY <1>8, <2>1, <2>2, SubscribeTypes DEF AttachNext
  <2>4. BusTypes' /\ EventTypes'
    BY <1>8 DEF AttachNext, BusTypes, EventTypes
  <2>5. TaskTypes'
    BY <1>8, <2>1 DEF AttachNext, TaskTypes
  <2> QED
    BY <2>3, <2>4, <2>5 DEF TypeOK
<1>9. ASSUME NEW c \in Conns, AttachDone(c) PROVE TypeOK'
  BY <1>9 DEF TypeOK, AttachDone, BusTypes, TaskTypes, LocalTypes, EventTypes, QueueTypes
<1>10. ASSUME NEW c \in Conns, SendCheck(c) PROVE TypeOK'
  BY <1>10 DEF TypeOK, SendCheck, BusTypes, TaskTypes, LocalTypes, EventTypes, QueueTypes
<1>11. ASSUME NEW c \in Conns, CreateCheck(c) PROVE TypeOK'
  BY <1>11 DEF TypeOK, CreateCheck, BusTypes, TaskTypes, LocalTypes, EventTypes, QueueTypes
<1>12. ASSUME NEW c \in Conns, CreateInsert(c) PROVE TypeOK'
  <2>1. arg[c] \in Topics
    <3>1. HandlerBooks(c) /\ pc[c] = "insert"
      BY <1>12 DEF Bookkeeping, CreateInsert, At
    <3> QED
      BY <3>1 DEF HandlerBooks, Sending
  <2>2. BusTypes'
    <3>1. CASE arg[c] \in topics
      BY <1>12, <3>1 DEF BusTypes, CreateInsert
    <3>2. CASE arg[c] \notin topics
      <4>1. /\ topics' = topics \cup {arg[c]} /\ events' = events
            /\ tail' = [tail EXCEPT ![arg[c]] = 0]
            /\ last' = [last EXCEPT ![arg[c]] = 0]
        BY <1>12, <3>2 DEF CreateInsert
      <4> QED
        BY <2>1, <4>1 DEF BusTypes
    <3> QED
      BY <3>1, <3>2
  <2>3. TaskTypes' /\ LocalTypes' /\ EventTypes' /\ QueueTypes'
    BY <1>12 DEF CreateInsert, TaskTypes, LocalTypes, EventTypes, QueueTypes
  <2> QED
    BY <2>2, <2>3 DEF TypeOK
<1>13. ASSUME NEW c \in Conns, Announce(c) PROVE TypeOK'
  <2>1. BusTypes'
    BY <1>13 DEF BusTypes, Announce, Bookkeeping, HandlerBooks
  <2>2. TaskTypes' /\ LocalTypes' /\ EventTypes' /\ QueueTypes'
    BY <1>13 DEF Announce, TaskTypes, LocalTypes, EventTypes, QueueTypes
  <2> QED
    BY <2>1, <2>2 DEF TypeOK
<1>14. ASSUME NEW c \in Conns, Deliver(c) PROVE TypeOK'
  <2>1. BusTypes'
    <3>1. CASE arg[c] \in topics
      <4>1. tail' = [tail EXCEPT ![arg[c]] = tail[arg[c]] + 1]
        BY <1>14, <3>1 DEF Deliver
      <4>2. last' = [last EXCEPT ![arg[c]] = tail[arg[c]] + 1]
        BY <1>14, <3>1 DEF Deliver
      <4>3. tail[arg[c]] + 1 \in Nat
        BY <3>1 DEF BusTypes
      <4> QED
        BY <1>14, <4>1, <4>2, <4>3 DEF Deliver, BusTypes
    <3>2. CASE arg[c] \notin topics
      BY <1>14, <3>2 DEF Deliver, BusTypes
    <3> QED
      BY <3>1, <3>2
  <2>2. TaskTypes' /\ LocalTypes' /\ EventTypes' /\ QueueTypes'
    BY <1>14 DEF Deliver, TaskTypes, LocalTypes, EventTypes, QueueTypes
  <2> QED
    BY <2>1, <2>2 DEF TypeOK
<1>15. ASSUME NEW c \in Conns, NewTopic(c) PROVE TypeOK'
  <2>1. arg[c] \in Topics
    BY <1>15 DEF NewTopic, Bookkeeping, HandlerBooks
  <2>2. LocalTypes' /\ QueueTypes'
    <3>1. CASE SubscribeToTopic(c, arg[c])
      BY <1>15, <2>1, <3>1, SubscribeTypes DEF NewTopic
    <3>2. CASE UNCHANGED <<streams, cursor, out, hi, dropped, lagged>>
      BY <1>15, <3>2 DEF NewTopic, LocalTypes, QueueTypes
    <3> QED
      BY <1>15, <3>1, <3>2 DEF NewTopic
  <2>3. BusTypes' /\ EventTypes' /\ TaskTypes'
    BY <1>15 DEF NewTopic, BusTypes, EventTypes, TaskTypes
  <2> QED
    BY <2>2, <2>3 DEF TypeOK
<1>16. ASSUME NEW c \in Conns, EventOk(c) PROVE TypeOK'
  <2>1. TaskTypes'
    <3>1. events[evpos[c] + 1] \in Topics
      BY <1>16 DEF BusTypes, EventTypes, EventOk
    <3> QED
      BY <1>16, <3>1 DEF TaskTypes, EventOk, Work
  <2>2. EventTypes'
    BY <1>16 DEF EventOk, EventTypes
  <2>3. BusTypes' /\ LocalTypes' /\ QueueTypes'
    BY <1>16 DEF EventOk, BusTypes, LocalTypes, QueueTypes
  <2> QED
    BY <2>1, <2>2, <2>3 DEF TypeOK
<1>17. ASSUME NEW c \in Conns, EventLagged(c) PROVE TypeOK'
  <2>1. EventTypes'
    <3>1. \A i \in evpos[c] + 1 .. Len(events) - EventCap : events[i] \in Topics
      BY DEF BusTypes, EventTypes
    <3>2. missed' \in [Conns -> SUBSET Topics]
      BY <1>17, <3>1 DEF EventTypes, EventLagged
    <3>3. evpos' \in [Conns -> Nat]
      BY <1>17, SMTT(30) DEF BusTypes, EventTypes, EventLagged
    <3> QED
      BY <1>17, <3>2, <3>3 DEF EventTypes, EventLagged
  <2>2. BusTypes' /\ TaskTypes' /\ LocalTypes' /\ QueueTypes'
    BY <1>17 DEF EventLagged, BusTypes, TaskTypes, LocalTypes, QueueTypes
  <2> QED
    BY <2>1, <2>2 DEF TypeOK
<1>18. ASSUME NEW c \in Conns, NEW t \in Topics, StreamOk(c, t) PROVE TypeOK'
  <2>1. TaskTypes'
    BY <1>18 DEF TaskTypes, StreamOk, Work
  <2>2. BusTypes' /\ LocalTypes' /\ EventTypes' /\ QueueTypes'
    BY <1>18, SMTT(30) DEF StreamOk, Work, BusTypes, LocalTypes, EventTypes, QueueTypes
  <2> QED
    BY <2>1, <2>2 DEF TypeOK
<1>19. ASSUME NEW c \in Conns, NEW t \in Topics, StreamLagged(c, t) PROVE TypeOK'
  <2>1. LocalTypes'
    BY <1>19 DEF BusTypes, LocalTypes, StreamLagged
  <2>2. BusTypes' /\ TaskTypes' /\ EventTypes' /\ QueueTypes'
    BY <1>19 DEF StreamLagged, BusTypes, TaskTypes, EventTypes, QueueTypes
  <2> QED
    BY <2>1, <2>2 DEF TypeOK
<1>20. ASSUME NEW c \in Conns, Forward(c) PROVE TypeOK'
  <2>1. arg[c] \in Topics /\ cursor[c][arg[c]] \in Nat
    BY <1>20 DEF Forward, Bookkeeping, HandlerBooks, LocalTypes
  <2>2. QueueTypes'
    BY <1>20, <2>1, EnqueueTypes DEF Forward
  <2>3. BusTypes' /\ TaskTypes' /\ LocalTypes' /\ EventTypes'
    BY <1>20 DEF Forward, BusTypes, TaskTypes, LocalTypes, EventTypes
  <2> QED
    BY <2>2, <2>3 DEF TypeOK
<1>21. ASSUME NEW c \in Conns, ForwardFails(c) PROVE TypeOK'
  <2>1. TaskTypes'
    BY <1>21 DEF TaskTypes, ForwardFails, Exit
  <2>2. LocalTypes'
    BY <1>21, SubsAreTrees DEF LocalTypes, ForwardFails, Exit
  <2>3. BusTypes' /\ EventTypes' /\ QueueTypes'
    BY <1>21 DEF ForwardFails, Exit, BusTypes, EventTypes, QueueTypes
  <2> QED
    BY <2>1, <2>2, <2>3 DEF TypeOK
<1>22. ASSUME NEW c \in Conns, WriterTake(c) PROVE TypeOK'
  BY <1>22 DEF TypeOK, WriterTake, BusTypes, TaskTypes, LocalTypes, EventTypes, QueueTypes
<1>23. ASSUME NEW c \in Conns, WriterFails(c) PROVE TypeOK'
  BY <1>23 DEF TypeOK, WriterFails, BusTypes, TaskTypes, LocalTypes, EventTypes, QueueTypes
<1> QED
  BY <1>0, <1>1, <1>2, <1>3, <1>4, <1>5, <1>6, <1>7, <1>8, <1>9, <1>10, <1>11, <1>12, <1>13, <1>14, <1>15, <1>16, <1>17, <1>18, <1>19, <1>20, <1>21, <1>22, <1>23
  DEF Next, Command, Proceed, Event, Stream, Write

-----------------------------------------------------------------------------
(* Bookkeeping                                                             *)

\* Only Bus::create_topic's insert and the end of Bus::send write to the map of
\* topics.
LEMMA BusSteps ==
    ASSUME [Next]_vars
    PROVE  UNCHANGED <<topics, tail, last>> \/ \E c \in Conns : CreateInsert(c) \/ Deliver(c)
<1> USE DEF bus
<1>0. CASE UNCHANGED vars
  BY <1>0 DEF vars
<1>1. ASSUME NEW c \in Conns, Connect(c) PROVE UNCHANGED <<topics, tail, last>>
  BY <1>1 DEF Connect
<1>2. ASSUME NEW c \in Conns, Disconnect(c) PROVE UNCHANGED <<topics, tail, last>>
  BY <1>2 DEF Disconnect
<1>3. ASSUME NEW c \in Conns, NEW p \in Patterns, CmdSubscribe(c, p) PROVE UNCHANGED <<topics, tail, last>>
  BY <1>3 DEF CmdSubscribe
<1>4. ASSUME NEW c \in Conns, NEW p \in Patterns, CmdUnsubscribe(c, p) PROVE UNCHANGED <<topics, tail, last>>
  BY <1>4 DEF CmdUnsubscribe
<1>5. ASSUME NEW c \in Conns, NEW t \in Topics, CmdPublish(c, t) PROVE UNCHANGED <<topics, tail, last>>
  BY <1>5 DEF CmdPublish
<1>6. ASSUME NEW c \in Conns, CmdPublishFails(c) PROVE UNCHANGED <<topics, tail, last>>
  BY <1>6 DEF CmdPublishFails
<1>7. ASSUME NEW c \in Conns, ListTopics(c) PROVE UNCHANGED <<topics, tail, last>>
  BY <1>7 DEF ListTopics
<1>8. ASSUME NEW c \in Conns, AttachNext(c) PROVE UNCHANGED <<topics, tail, last>>
  BY <1>8 DEF AttachNext
<1>9. ASSUME NEW c \in Conns, AttachDone(c) PROVE UNCHANGED <<topics, tail, last>>
  BY <1>9 DEF AttachDone
<1>10. ASSUME NEW c \in Conns, SendCheck(c) PROVE UNCHANGED <<topics, tail, last>>
  BY <1>10 DEF SendCheck
<1>11. ASSUME NEW c \in Conns, CreateCheck(c) PROVE UNCHANGED <<topics, tail, last>>
  BY <1>11 DEF CreateCheck
<1>13. ASSUME NEW c \in Conns, Announce(c) PROVE UNCHANGED <<topics, tail, last>>
  BY <1>13 DEF Announce
<1>15. ASSUME NEW c \in Conns, NewTopic(c) PROVE UNCHANGED <<topics, tail, last>>
  BY <1>15 DEF NewTopic
<1>16. ASSUME NEW c \in Conns, EventOk(c) PROVE UNCHANGED <<topics, tail, last>>
  BY <1>16 DEF EventOk
<1>17. ASSUME NEW c \in Conns, EventLagged(c) PROVE UNCHANGED <<topics, tail, last>>
  BY <1>17 DEF EventLagged
<1>18. ASSUME NEW c \in Conns, NEW t \in Topics, StreamOk(c, t) PROVE UNCHANGED <<topics, tail, last>>
  BY <1>18 DEF StreamOk
<1>19. ASSUME NEW c \in Conns, NEW t \in Topics, StreamLagged(c, t) PROVE UNCHANGED <<topics, tail, last>>
  BY <1>19 DEF StreamLagged
<1>20. ASSUME NEW c \in Conns, Forward(c) PROVE UNCHANGED <<topics, tail, last>>
  BY <1>20 DEF Forward
<1>21. ASSUME NEW c \in Conns, ForwardFails(c) PROVE UNCHANGED <<topics, tail, last>>
  BY <1>21 DEF ForwardFails
<1>22. ASSUME NEW c \in Conns, WriterTake(c) PROVE UNCHANGED <<topics, tail, last>>
  BY <1>22 DEF WriterTake
<1>23. ASSUME NEW c \in Conns, WriterFails(c) PROVE UNCHANGED <<topics, tail, last>>
  BY <1>23 DEF WriterFails
<1> QED
  BY <1>0, <1>1, <1>2, <1>3, <1>4, <1>5, <1>6, <1>7, <1>8, <1>9, <1>10, <1>11, <1>13, <1>15, <1>16, <1>17, <1>18, <1>19, <1>20, <1>21, <1>22, <1>23
  DEF Next, Command, Proceed, Event, Stream, Write

\* set_last_message and the broadcast happen under one lock, and or_insert_with
\* keeps what is there: the last message stays the newest one broadcast.
LEMMA RetainedInductive ==
    ASSUME TypeOK, Bookkeeping, [Next]_vars
    PROVE  RetainedIsNewest'
<1> USE DEF TypeOK, BusTypes, Bookkeeping, RetainedIsNewest
<1>1. CASE UNCHANGED <<topics, tail, last>>
  BY <1>1
<1>2. ASSUME NEW c \in Conns, CreateInsert(c) PROVE RetainedIsNewest'
  BY <1>2 DEF CreateInsert
<1>3. ASSUME NEW c \in Conns, Deliver(c) PROVE RetainedIsNewest'
  BY <1>3 DEF Deliver
<1> QED
  BY <1>1, <1>2, <1>3, BusSteps

\* Topics are never removed from the Bus and the numbers of their messages
\* never go back.
LEMMA BusGrows ==
    ASSUME TypeOK, Bookkeeping, [Next]_vars
    PROVE  topics \subseteq topics' /\ \A t \in Topics : tail[t] <= tail'[t]
<1> USE DEF TypeOK, BusTypes, Bookkeeping, RetainedIsNewest
<1>1. CASE UNCHANGED <<topics, tail, last>>
  BY <1>1
<1>2. ASSUME NEW c \in Conns, CreateInsert(c)
      PROVE  topics \subseteq topics' /\ \A t \in Topics : tail[t] <= tail'[t]
  BY <1>2 DEF CreateInsert
<1>3. ASSUME NEW c \in Conns, Deliver(c)
      PROVE  topics \subseteq topics' /\ \A t \in Topics : tail[t] <= tail'[t]
  BY <1>3 DEF Deliver
<1> QED
  BY <1>1, <1>2, <1>3, BusSteps

\* Every step keeps a handler's own state consistent: its streams are on
\* existing topics, the message in its hand is of one of them, and once run()
\* has ended it has neither streams nor subscriptions.
LEMMA HandlerInductive ==
    ASSUME TypeOK, Bookkeeping, [Next]_vars
    PROVE  \A d \in Conns : HandlerBooks(d)'
<1> SUFFICES ASSUME NEW d \in Conns PROVE HandlerBooks(d)'
  OBVIOUS
<1>a. HandlerBooks(d) /\ topics \subseteq topics'
  BY BusGrows DEF Bookkeeping
<1>b. TaskTypes /\ LocalTypes /\ BusTypes
  BY DEF TypeOK
<1> USE <1>a, <1>b DEF At, Goto, Work, Exit, PCs, Sending, HandlerBooks, Running, TaskTypes, bus, task, local, evrecv, writer, history
<1>0. CASE UNCHANGED vars
  BY <1>0 DEF vars
<1>1. ASSUME NEW c \in Conns, Connect(c) PROVE HandlerBooks(d)'
  BY <1>1 DEF Connect
<1>2. ASSUME NEW c \in Conns, Disconnect(c) PROVE HandlerBooks(d)'
  BY <1>2 DEF Disconnect, LocalTypes
<1>3. ASSUME NEW c \in Conns, NEW p \in Patterns, CmdSubscribe(c, p) PROVE HandlerBooks(d)'
  BY <1>3 DEF CmdSubscribe, LocalTypes
<1>4. ASSUME NEW c \in Conns, NEW p \in Patterns, CmdUnsubscribe(c, p) PROVE HandlerBooks(d)'
  BY <1>4 DEF CmdUnsubscribe, LocalTypes
<1>5. ASSUME NEW c \in Conns, NEW t \in Topics, CmdPublish(c, t) PROVE HandlerBooks(d)'
  BY <1>5 DEF CmdPublish
<1>6. ASSUME NEW c \in Conns, CmdPublishFails(c) PROVE HandlerBooks(d)'
  BY <1>6 DEF CmdPublishFails
<1>7. ASSUME NEW c \in Conns, ListTopics(c) PROVE HandlerBooks(d)'
  BY <1>7 DEF ListTopics
<1>8. ASSUME NEW c \in Conns, AttachNext(c) PROVE HandlerBooks(d)'
  <2>1. PICK t \in todo[c] : SubscribeToTopic(c, t)
    BY <1>8 DEF AttachNext
  <2>2. streams'[d] \subseteq topics /\ (d # c => streams'[d] = streams[d])
        /\ streams[d] \subseteq streams'[d]
    BY <2>1 DEF SubscribeToTopic, LocalTypes
  <2> QED
    BY <1>8, <2>2 DEF AttachNext
<1>9. ASSUME NEW c \in Conns, AttachDone(c) PROVE HandlerBooks(d)'
  BY <1>9 DEF AttachDone
<1>10. ASSUME NEW c \in Conns, SendCheck(c) PROVE HandlerBooks(d)'
  BY <1>10 DEF SendCheck
<1>11. ASSUME NEW c \in Conns, CreateCheck(c) PROVE HandlerBooks(d)'
  BY <1>11 DEF CreateCheck
<1>12. ASSUME NEW c \in Conns, CreateInsert(c) PROVE HandlerBooks(d)'
  BY <1>12 DEF CreateInsert
<1>13. ASSUME NEW c \in Conns, Announce(c) PROVE HandlerBooks(d)'
  BY <1>13 DEF Announce
<1>14. ASSUME NEW c \in Conns, Deliver(c) PROVE HandlerBooks(d)'
  BY <1>14 DEF Deliver
<1>15. ASSUME NEW c \in Conns, NewTopic(c) PROVE HandlerBooks(d)'
  BY <1>15 DEF NewTopic, LocalTypes, SubscribeToTopic
<1>16. ASSUME NEW c \in Conns, EventOk(c) PROVE HandlerBooks(d)'
  BY <1>16, SMTT(30) DEF EventOk, BusTypes, EventTypes, TypeOK
<1>17. ASSUME NEW c \in Conns, EventLagged(c) PROVE HandlerBooks(d)'
  BY <1>17 DEF EventLagged
<1>18. ASSUME NEW c \in Conns, NEW t \in Topics, StreamOk(c, t) PROVE HandlerBooks(d)'
  BY <1>18 DEF StreamOk, LocalTypes
<1>19. ASSUME NEW c \in Conns, NEW t \in Topics, StreamLagged(c, t) PROVE HandlerBooks(d)'
  BY <1>19 DEF StreamLagged
<1>20. ASSUME NEW c \in Conns, Forward(c) PROVE HandlerBooks(d)'
  BY <1>20 DEF Forward
<1>21. ASSUME NEW c \in Conns, ForwardFails(c) PROVE HandlerBooks(d)'
  BY <1>21 DEF ForwardFails, LocalTypes
<1>22. ASSUME NEW c \in Conns, WriterTake(c) PROVE HandlerBooks(d)'
  BY <1>22 DEF WriterTake
<1>23. ASSUME NEW c \in Conns, WriterFails(c) PROVE HandlerBooks(d)'
  BY <1>23 DEF WriterFails
<1> QED
  BY <1>0, <1>1, <1>2, <1>3, <1>4, <1>5, <1>6, <1>7, <1>8, <1>9, <1>10, <1>11, <1>12, <1>13, <1>14, <1>15, <1>16, <1>17, <1>18, <1>19, <1>20, <1>21, <1>22, <1>23
  DEF Next, Command, Proceed, Event, Stream, Write

\* A message enters a channel to a write loop in two ways: as the last message
\* sent by subscribe_to_topic, or through forward_message_to_client.
LEMMA QueueSteps ==
    ASSUME TypeOK, Bookkeeping, [Next]_vars
    PROVE  \/ UNCHANGED hi
           \/ /\ UNCHANGED tail
              /\ \E c \in Conns, t \in Topics :
                    \/ hi' = [hi EXCEPT ![c][t] = last[t]]
                    \/ Forward(c) /\ t = arg[c] /\ hi' = [hi EXCEPT ![c][t] = cursor[c][t]]
<1> DEFINE Goal == \/ UNCHANGED hi
                   \/ /\ UNCHANGED tail
                      /\ \E c \in Conns, t \in Topics :
                            \/ hi' = [hi EXCEPT ![c][t] = last[t]]
                            \/ /\ Forward(c) /\ t = arg[c]
                               /\ hi' = [hi EXCEPT ![c][t] = cursor[c][t]]
<1> USE DEF history, bus
<1>0. CASE UNCHANGED vars
  BY <1>0 DEF vars
<1>1. ASSUME NEW c \in Conns, Connect(c) PROVE UNCHANGED hi
  BY <1>1 DEF Connect
<1>2. ASSUME NEW c \in Conns, Disconnect(c) PROVE UNCHANGED hi
  BY <1>2 DEF Disconnect
<1>3. ASSUME NEW c \in Conns, NEW p \in Patterns, CmdSubscribe(c, p) PROVE UNCHANGED hi
  BY <1>3 DEF CmdSubscribe
<1>4. ASSUME NEW c \in Conns, NEW p \in Patterns, CmdUnsubscribe(c, p) PROVE UNCHANGED hi
  BY <1>4 DEF CmdUnsubscribe
<1>5. ASSUME NEW c \in Conns, NEW t \in Topics, CmdPublish(c, t) PROVE UNCHANGED hi
  BY <1>5 DEF CmdPublish
<1>6. ASSUME NEW c \in Conns, CmdPublishFails(c) PROVE UNCHANGED hi
  BY <1>6 DEF CmdPublishFails
<1>7. ASSUME NEW c \in Conns, ListTopics(c) PROVE UNCHANGED hi
  BY <1>7 DEF ListTopics
<1>8. ASSUME NEW c \in Conns, AttachNext(c) PROVE Goal
  <2>1. PICK t \in todo[c] : SubscribeToTopic(c, t)
    BY <1>8 DEF AttachNext
  <2>2. t \in Topics
    BY DEF TypeOK, TaskTypes
  <2> QED
    BY <1>8, <2>1, <2>2 DEF AttachNext, SubscribeToTopic, Enqueue
<1>9. ASSUME NEW c \in Conns, AttachDone(c) PROVE UNCHANGED hi
  BY <1>9 DEF AttachDone
<1>10. ASSUME NEW c \in Conns, SendCheck(c) PROVE UNCHANGED hi
  BY <1>10 DEF SendCheck
<1>11. ASSUME NEW c \in Conns, CreateCheck(c) PROVE UNCHANGED hi
  BY <1>11 DEF CreateCheck
<1>12. ASSUME NEW c \in Conns, CreateInsert(c) PROVE UNCHANGED hi
  BY <1>12 DEF CreateInsert
<1>13. ASSUME NEW c \in Conns, Announce(c) PROVE UNCHANGED hi
  BY <1>13 DEF Announce
<1>14. ASSUME NEW c \in Conns, Deliver(c) PROVE UNCHANGED hi
  BY <1>14 DEF Deliver
<1>15. ASSUME NEW c \in Conns, NewTopic(c) PROVE Goal
  <2>1. arg[c] \in Topics
    BY <1>15 DEF NewTopic, At, Bookkeeping, HandlerBooks
  <2> QED
    BY <1>15, <2>1 DEF NewTopic, SubscribeToTopic, Enqueue
<1>16. ASSUME NEW c \in Conns, EventOk(c) PROVE UNCHANGED hi
  BY <1>16 DEF EventOk
<1>17. ASSUME NEW c \in Conns, EventLagged(c) PROVE UNCHANGED hi
  BY <1>17 DEF EventLagged
<1>18. ASSUME NEW c \in Conns, NEW t \in Topics, StreamOk(c, t) PROVE UNCHANGED hi
  BY <1>18 DEF StreamOk
<1>19. ASSUME NEW c \in Conns, NEW t \in Topics, StreamLagged(c, t) PROVE UNCHANGED hi
  BY <1>19 DEF StreamLagged
<1>20. ASSUME NEW c \in Conns, Forward(c) PROVE Goal
  <2>1. arg[c] \in Topics
    BY <1>20 DEF Forward, At, Bookkeeping, HandlerBooks, TypeOK, LocalTypes
  <2> QED
    BY <1>20, <2>1 DEF Forward, Enqueue
<1>21. ASSUME NEW c \in Conns, ForwardFails(c) PROVE UNCHANGED hi
  BY <1>21 DEF ForwardFails
<1>22. ASSUME NEW c \in Conns, WriterTake(c) PROVE UNCHANGED hi
  BY <1>22 DEF WriterTake
<1>23. ASSUME NEW c \in Conns, WriterFails(c) PROVE UNCHANGED hi
  BY <1>23 DEF WriterFails
<1> QED
  BY <1>0, <1>1, <1>2, <1>3, <1>4, <1>5, <1>6, <1>7, <1>8, <1>9, <1>10, <1>11, <1>12, <1>13, <1>14, <1>15, <1>16, <1>17, <1>18, <1>19, <1>20, <1>21, <1>22, <1>23
  DEF Next, Command, Proceed, Event, Stream, Write

\* No step moves a receiver past the end of its broadcast channel, nor queues a
\* message that was not broadcast.
LEMMA AheadInductive ==
    ASSUME TypeOK, Bookkeeping, [Next]_vars
    PROVE  NothingAhead'
<1> SUFFICES ASSUME NEW d \in Conns
             PROVE  /\ evpos'[d] <= Len(events')
                    /\ \A u \in Topics : hi'[d][u] <= tail'[u] /\ cursor'[d][u] <= tail'[u]
  BY DEF NothingAhead
<1>a. BusTypes /\ LocalTypes /\ EventTypes /\ QueueTypes
  BY DEF TypeOK
<1>b. evpos[d] <= Len(events) /\ \A u \in Topics : hi[d][u] <= tail[u] /\ cursor[d][u] <= tail[u]
  BY DEF Bookkeeping, NothingAhead
<1>c. \A u \in Topics : tail[u] <= tail'[u] /\ tail[u] \in Nat /\ tail'[u] \in Nat
  BY <1>a, BusGrows, TypeInductive DEF BusTypes, TypeOK
<1>d. \A u \in Topics : last[u] = tail[u]
  BY DEF Bookkeeping, RetainedIsNewest
<1>1. \A u \in Topics : hi'[d][u] <= tail'[u]
  <2>1. CASE UNCHANGED hi
    BY <2>1, <1>a, <1>b, <1>c DEF QueueTypes
  <2>2. ASSUME NEW c \in Conns, NEW t \in Topics, NEW n \in Nat,
               n <= tail[t], hi' = [hi EXCEPT ![c][t] = n]
        PROVE  \A u \in Topics : hi'[d][u] <= tail'[u]
    BY <2>2, <1>a, <1>b, <1>c, SMTT(30) DEF QueueTypes
  <2>3. \A c \in Conns, t \in Topics : cursor[c][t] \in Nat /\ cursor[c][t] <= tail[t]
    BY <1>a DEF LocalTypes, Bookkeeping, NothingAhead
  <2> QED
    BY <2>1, <2>2, <2>3, <1>c, <1>d, QueueSteps
<1>2. evpos'[d] <= Len(events') /\ \A u \in Topics : cursor'[d][u] <= tail'[u]
  <2> USE <1>a, <1>b, <1>c, CapsAreBounds DEF bus, local, evrecv
  <2>0. CASE UNCHANGED vars
    BY <2>0 DEF vars
  <2>1. ASSUME NEW c \in Conns, Connect(c)
        PROVE  evpos'[d] <= Len(events') /\ \A u \in Topics : cursor'[d][u] <= tail'[u]
    BY <2>1 DEF Connect, BusTypes, EventTypes
  <2>2. ASSUME NEW c \in Conns, Disconnect(c)
        PROVE  evpos'[d] <= Len(events') /\ \A u \in Topics : cursor'[d][u] <= tail'[u]
    BY <2>2 DEF Disconnect, Exit
  <2>3. ASSUME NEW c \in Conns, NEW p \in Patterns, CmdSubscribe(c, p)
        PROVE  evpos'[d] <= Len(events') /\ \A u \in Topics : cursor'[d][u] <= tail'[u]
    BY <2>3 DEF CmdSubscribe
  <2>4. ASSUME NEW c \in Conns, NEW p \in Patterns, CmdUnsubscribe(c, p)
        PROVE  evpos'[d] <= Len(events') /\ \A u \in Topics : cursor'[d][u] <= tail'[u]
    BY <2>4 DEF CmdUnsubscribe
  <2>5. ASSUME NEW c \in Conns, NEW t \in Topics, CmdPublish(c, t)
        PROVE  evpos'[d] <= Len(events') /\ \A u \in Topics : cursor'[d][u] <= tail'[u]
    BY <2>5 DEF CmdPublish
  <2>6. ASSUME NEW c \in Conns, CmdPublishFails(c)
        PROVE  evpos'[d] <= Len(events') /\ \A u \in Topics : cursor'[d][u] <= tail'[u]
    BY <2>6 DEF CmdPublishFails
  <2>7. ASSUME NEW c \in Conns, ListTopics(c)
        PROVE  evpos'[d] <= Len(events') /\ \A u \in Topics : cursor'[d][u] <= tail'[u]
    BY <2>7 DEF ListTopics
  <2>8. ASSUME NEW c \in Conns, AttachNext(c)
        PROVE  evpos'[d] <= Len(events') /\ \A u \in Topics : cursor'[d][u] <= tail'[u]
    <3>1. PICK t \in todo[c] : SubscribeToTopic(c, t)
      BY <2>8 DEF AttachNext
    <3>2. \A u \in Topics : cursor'[d][u] = cursor[d][u] \/ cursor'[d][u] = tail[u]
      BY <3>1, SubscribeCursor DEF TypeOK, TaskTypes
    <3> QED
      BY <2>8, <3>2 DEF AttachNext
  <2>9. ASSUME NEW c \in Conns, AttachDone(c)
        PROVE  evpos'[d] <= Len(events') /\ \A u \in Topics : cursor'[d][u] <= tail'[u]
    BY <2>9 DEF AttachDone
  <2>10. ASSUME NEW c \in Conns, SendCheck(c)
        PROVE  evpos'[d] <= Len(events') /\ \A u \in Topics : cursor'[d][u] <= tail'[u]
    BY <2>10 DEF SendCheck
  <2>11. ASSUME NEW c \in Conns, CreateCheck(c)
        PROVE  evpos'[d] <= Len(events') /\ \A u \in Topics : cursor'[d][u] <= tail'[u]
    BY <2>11 DEF CreateCheck
  <2>12. ASSUME NEW c \in Conns, CreateInsert(c)
        PROVE  evpos'[d] <= Len(events') /\ \A u \in Topics : cursor'[d][u] <= tail'[u]
    <3>1. UNCHANGED <<evpos, events, cursor>>
      BY <2>12 DEF CreateInsert
    <3>2. \A u \in Topics : cursor[d][u] \in Nat
      BY DEF LocalTypes
    <3> QED
      BY <3>1, <3>2
  <2>13. ASSUME NEW c \in Conns, Announce(c)
        PROVE  evpos'[d] <= Len(events') /\ \A u \in Topics : cursor'[d][u] <= tail'[u]
    BY <2>13 DEF Announce, BusTypes, EventTypes, TypeOK, TaskTypes, Bookkeeping, HandlerBooks, At, Sending
  <2>14. ASSUME NEW c \in Conns, Deliver(c)
        PROVE  evpos'[d] <= Len(events') /\ \A u \in Topics : cursor'[d][u] <= tail'[u]
    <3>1. UNCHANGED <<evpos, events, cursor>>
      BY <2>14 DEF Deliver
    <3>2. \A u \in Topics : cursor[d][u] \in Nat
      BY DEF LocalTypes
    <3> QED
      BY <3>1, <3>2
  <2>15. ASSUME NEW c \in Conns, NewTopic(c)
        PROVE  evpos'[d] <= Len(events') /\ \A u \in Topics : cursor'[d][u] <= tail'[u]
    <3>1. \A u \in Topics : cursor'[d][u] = cursor[d][u] \/ cursor'[d][u] = tail[u]
      <4>1. CASE SubscribeToTopic(c, arg[c])
        <5>1. arg[c] \in Topics
          BY <2>15 DEF NewTopic, At, Bookkeeping, HandlerBooks
        <5> QED
          BY <4>1, <5>1, SubscribeCursor
      <4>2. CASE UNCHANGED cursor
        BY <4>2
      <4> QED
        BY <2>15, <4>1, <4>2 DEF NewTopic
    <3> QED
      BY <2>15, <3>1 DEF NewTopic
  <2>16. ASSUME NEW c \in Conns, EventOk(c)
        PROVE  evpos'[d] <= Len(events') /\ \A u \in Topics : cursor'[d][u] <= tail'[u]
    BY <2>16, SMTT(30) DEF EventOk, BusTypes, EventTypes
  <2>17. ASSUME NEW c \in Conns, EventLagged(c)
        PROVE  evpos'[d] <= Len(events') /\ \A u \in Topics : cursor'[d][u] <= tail'[u]
    BY <2>17, SMTT(30) DEF EventLagged, BusTypes, EventTypes
  <2>18. ASSUME NEW c \in Conns, NEW t \in Topics, StreamOk(c, t)
        PROVE  evpos'[d] <= Len(events') /\ \A u \in Topics : cursor'[d][u] <= tail'[u]
    BY <2>18 DEF StreamOk, LocalTypes
  <2>19. ASSUME NEW c \in Conns, NEW t \in Topics, StreamLagged(c, t)
        PROVE  evpos'[d] <= Len(events') /\ \A u \in Topics : cursor'[d][u] <= tail'[u]
    BY <2>19 DEF StreamLagged, LocalTypes
  <2>20. ASSUME NEW c \in Conns, Forward(c)
        PROVE  evpos'[d] <= Len(events') /\ \A u \in Topics : cursor'[d][u] <= tail'[u]
    BY <2>20 DEF Forward
  <2>21. ASSUME NEW c \in Conns, ForwardFails(c)
        PROVE  evpos'[d] <= Len(events') /\ \A u \in Topics : cursor'[d][u] <= tail'[u]
    BY <2>21 DEF ForwardFails, Exit
  <2>22. ASSUME NEW c \in Conns, WriterTake(c)
        PROVE  evpos'[d] <= Len(events') /\ \A u \in Topics : cursor'[d][u] <= tail'[u]
    BY <2>22 DEF WriterTake
  <2>23. ASSUME NEW c \in Conns, WriterFails(c)
        PROVE  evpos'[d] <= Len(events') /\ \A u \in Topics : cursor'[d][u] <= tail'[u]
    BY <2>23 DEF WriterFails
  <2> QED
    BY <2>0, <2>1, <2>2, <2>3, <2>4, <2>5, <2>6, <2>7, <2>8, <2>9, <2>10, <2>11, <2>12, <2>13, <2>14, <2>15, <2>16, <2>17, <2>18, <2>19, <2>20, <2>21, <2>22, <2>23
    DEF Next, Command, Proceed, Event, Stream, Write
<1> QED
  BY <1>1, <1>2

-----------------------------------------------------------------------------
(* Topics                                                                  *)

\* From create_topic to the end of send() the topic is in the map, with any
\* number of tasks between the two contains_key() checks.
LEMMA SendInductive ==
    ASSUME TypeOK, Bookkeeping, SendFindsTopic, [Next]_vars
    PROVE  SendFindsTopic'
<1> SUFFICES ASSUME NEW d \in Conns, pc'[d] \in {"announce", "deliver"}
             PROVE  arg'[d] \in topics'
  BY DEF SendFindsTopic
<1>a. topics \subseteq topics' /\ TaskTypes
  BY BusGrows DEF TypeOK
<1>b. pc[d] \in {"announce", "deliver"} => arg[d] \in topics
  BY DEF SendFindsTopic
<1> USE <1>a, <1>b DEF At, Goto, Work, Exit, PCs, Sending, TaskTypes, bus, task
<1>0. CASE UNCHANGED vars
  BY <1>0 DEF vars
<1>1. ASSUME NEW c \in Conns, Connect(c) PROVE arg'[d] \in topics'
  BY <1>1 DEF Connect
<1>2. ASSUME NEW c \in Conns, Disconnect(c) PROVE arg'[d] \in topics'
  BY <1>2 DEF Disconnect
<1>3. ASSUME NEW c \in Conns, NEW p \in Patterns, CmdSubscribe(c, p) PROVE arg'[d] \in topics'
  BY <1>3 DEF CmdSubscribe
<1>4. ASSUME NEW c \in Conns, NEW p \in Patterns, CmdUnsubscribe(c, p) PROVE arg'[d] \in topics'
  BY <1>4 DEF CmdUnsubscribe
<1>5. ASSUME NEW c \in Conns, NEW t \in Topics, CmdPublish(c, t) PROVE arg'[d] \in topics'
  BY <1>5 DEF CmdPublish
<1>6. ASSUME NEW c \in Conns, CmdPublishFails(c) PROVE arg'[d] \in topics'
  BY <1>6 DEF CmdPublishFails
<1>7. ASSUME NEW c \in Conns, ListTopics(c) PROVE arg'[d] \in topics'
  BY <1>7 DEF ListTopics
<1>8. ASSUME NEW c \in Conns, AttachNext(c) PROVE arg'[d] \in topics'
  BY <1>8 DEF AttachNext
<1>9. ASSUME NEW c \in Conns, AttachDone(c) PROVE arg'[d] \in topics'
  BY <1>9 DEF AttachDone
<1>10. ASSUME NEW c \in Conns, SendCheck(c) PROVE arg'[d] \in topics'
  BY <1>10 DEF SendCheck
<1>11. ASSUME NEW c \in Conns, CreateCheck(c) PROVE arg'[d] \in topics'
  BY <1>11 DEF CreateCheck
<1>12. ASSUME NEW c \in Conns, CreateInsert(c) PROVE arg'[d] \in topics'
  BY <1>12 DEF CreateInsert
<1>13. ASSUME NEW c \in Conns, Announce(c) PROVE arg'[d] \in topics'
  BY <1>13 DEF Announce
<1>14. ASSUME NEW c \in Conns, Deliver(c) PROVE arg'[d] \in topics'
  BY <1>14 DEF Deliver
<1>15. ASSUME NEW c \in Conns, NewTopic(c) PROVE arg'[d] \in topics'
  BY <1>15 DEF NewTopic
<1>16. ASSUME NEW c \in Conns, EventOk(c) PROVE arg'[d] \in topics'
  BY <1>16 DEF EventOk
<1>17. ASSUME NEW c \in Conns, EventLagged(c) PROVE arg'[d] \in topics'
  BY <1>17 DEF EventLagged
<1>18. ASSUME NEW c \in Conns, NEW t \in Topics, StreamOk(c, t) PROVE arg'[d] \in topics'
  BY <1>18 DEF StreamOk
<1>19. ASSUME NEW c \in Conns, NEW t \in Topics, StreamLagged(c, t) PROVE arg'[d] \in topics'
  BY <1>19 DEF StreamLagged
<1>20. ASSUME NEW c \in Conns, Forward(c) PROVE arg'[d] \in topics'
  BY <1>20 DEF Forward
<1>21. ASSUME NEW c \in Conns, ForwardFails(c) PROVE arg'[d] \in topics'
  BY <1>21 DEF ForwardFails
<1>22. ASSUME NEW c \in Conns, WriterTake(c) PROVE arg'[d] \in topics'
  BY <1>22 DEF WriterTake
<1>23. ASSUME NEW c \in Conns, WriterFails(c) PROVE arg'[d] \in topics'
  BY <1>23 DEF WriterFails
<1> QED
  BY <1>0, <1>1, <1>2, <1>3, <1>4, <1>5, <1>6, <1>7, <1>8, <1>9, <1>10, <1>11, <1>12, <1>13, <1>14, <1>15, <1>16, <1>17, <1>18, <1>19, <1>20, <1>21, <1>22, <1>23
  DEF Next, Command, Proceed, Event, Stream, Write

\* No step loses the trace of a topic that a handler's patterns match: a topic
\* inserted after list_topics() started is about to be announced, an announced
\* one is in the handler's event receiver, and an event that is read leads to
\* subscribe_to_topic.
LEMMA CoverageInductive ==
    ASSUME TypeOK, Bookkeeping, Coverage, [Next]_vars
    PROVE  Coverage'
<1> SUFFICES ASSUME NEW d \in Conns, NEW u \in topics', SubsCheck(subs'[d], u)
             PROVE  Covered(d, u)'
  BY DEF Coverage
<1>a. u \in Topics /\ BusTypes /\ TaskTypes /\ LocalTypes /\ EventTypes
  BY TypeInductive DEF TypeOK, BusTypes
<1>b. u \in topics /\ SubsCheck(subs[d], u) => Covered(d, u)
  BY DEF Coverage
<1>c. evpos[d] <= Len(events) /\ HandlerBooks(d)
  BY DEF Bookkeeping, NothingAhead
<1> USE <1>a, <1>b, <1>c
    DEF At, Goto, Work, Exit, PCs, Sending, Covered, EventPending, AboutToBeAnnounced,
        TaskTypes, LocalTypes, bus, task, local, evrecv, writer, history
<1>0. CASE UNCHANGED vars
  BY <1>0 DEF vars
<1>1. ASSUME NEW c \in Conns, Connect(c) PROVE Covered(d, u)'
  BY <1>1, SubsAreTrees DEF Connect, HandlerBooks, Running
<1>2. ASSUME NEW c \in Conns, Disconnect(c) PROVE Covered(d, u)'
  BY <1>2, SubsAreTrees DEF Disconnect
<1>3. ASSUME NEW c \in Conns, NEW p \in Patterns, CmdSubscribe(c, p) PROVE Covered(d, u)'
  BY <1>3 DEF CmdSubscribe
<1>4. ASSUME NEW c \in Conns, NEW p \in Patterns, CmdUnsubscribe(c, p) PROVE Covered(d, u)'
  BY <1>4, SubsAreTrees DEF CmdUnsubscribe
<1>5. ASSUME NEW c \in Conns, NEW t \in Topics, CmdPublish(c, t) PROVE Covered(d, u)'
  BY <1>5 DEF CmdPublish
<1>6. ASSUME NEW c \in Conns, CmdPublishFails(c) PROVE Covered(d, u)'
  BY <1>6 DEF CmdPublishFails
<1>7. ASSUME NEW c \in Conns, ListTopics(c) PROVE Covered(d, u)'
  BY <1>7 DEF ListTopics
<1>8. ASSUME NEW c \in Conns, AttachNext(c) PROVE Covered(d, u)'
  BY <1>8 DEF AttachNext, SubscribeToTopic
<1>9. ASSUME NEW c \in Conns, AttachDone(c) PROVE Covered(d, u)'
  BY <1>9 DEF AttachDone
<1>10. ASSUME NEW c \in Conns, SendCheck(c) PROVE Covered(d, u)'
  BY <1>10 DEF SendCheck
<1>11. ASSUME NEW c \in Conns, CreateCheck(c) PROVE Covered(d, u)'
  BY <1>11 DEF CreateCheck
<1>12. ASSUME NEW c \in Conns, CreateInsert(c) PROVE Covered(d, u)'
  BY <1>12 DEF CreateInsert
<1>13. ASSUME NEW c \in Conns, Announce(c) PROVE Covered(d, u)'
  <2>1. arg[c] \in Topics /\ events' = Append(events, arg[c]) /\ evpos' = evpos
    BY <1>13 DEF Announce, Bookkeeping, HandlerBooks
  <2>2. Len(events') = Len(events) + 1 /\ events'[Len(events) + 1] = arg[c]
        /\ \A i \in 1 .. Len(events) : events'[i] = events[i]
    BY <2>1 DEF BusTypes
  <2>3. CASE EventPending(d, u)
    <3>1. PICK i \in evpos[d] + 1 .. Len(events) : events[i] = u
      BY <2>3
    <3>2. i \in evpos'[d] + 1 .. Len(events') /\ events'[i] = u
      BY <2>1, <2>2, <3>1 DEF BusTypes, EventTypes
    <3> QED
      BY <3>2
  <2>4. CASE arg[c] = u
    <3>1. Len(events) + 1 \in evpos'[d] + 1 .. Len(events')
      BY <2>1, <2>2 DEF BusTypes, EventTypes
    <3> QED
      BY <2>2, <2>4, <3>1
  <2>5. CASE ~EventPending(d, u) /\ arg[c] # u
    BY <1>13, <2>5 DEF Announce
  <2> QED
    BY <2>3, <2>4, <2>5
<1>14. ASSUME NEW c \in Conns, Deliver(c) PROVE Covered(d, u)'
  BY <1>14 DEF Deliver
<1>15. ASSUME NEW c \in Conns, NewTopic(c) PROVE Covered(d, u)'
  BY <1>15 DEF NewTopic, SubscribeToTopic
<1>16. ASSUME NEW c \in Conns, EventOk(c) PROVE Covered(d, u)'
  <2>1. CASE EventPending(d, u) /\ c = d
    <3>1. PICK i \in evpos[d] + 1 .. Len(events) : events[i] = u
      BY <2>1
    <3>2. evpos'[d] = evpos[d] + 1 /\ events' = events
      BY <1>16, <2>1 DEF EventOk, EventTypes
    <3>3. CASE i = evpos[d] + 1
      BY <1>16, <2>1, <3>1, <3>3 DEF EventOk
    <3>4. CASE i \in evpos'[d] + 1 .. Len(events')
      BY <3>1, <3>2, <3>4
    <3> QED
      BY <3>1, <3>2, <3>3, <3>4 DEF BusTypes, EventTypes
  <2>2. CASE ~(EventPending(d, u) /\ c = d)
    BY <1>16, <2>2 DEF EventOk, EventTypes
  <2> QED
    BY <2>1, <2>2
<1>17. ASSUME NEW c \in Conns, EventLagged(c) PROVE Covered(d, u)'
  <2>1. CASE EventPending(d, u) /\ c = d
    <3>1. PICK i \in evpos[d] + 1 .. Len(events) : events[i] = u
      BY <2>1
    <3>2. evpos'[d] = Len(events) - EventCap /\ events' = events
      BY <1>17, <2>1 DEF EventLagged, EventTypes
    <3>3. CASE i \in evpos[d] + 1 .. Len(events) - EventCap
      BY <1>17, <2>1, <3>1, <3>3 DEF EventLagged, EventTypes
    <3>4. CASE i \in evpos'[d] + 1 .. Len(events')
      BY <3>1, <3>2, <3>4
    <3> QED
      BY <3>1, <3>2, <3>3, <3>4, CapsAreBounds DEF BusTypes, EventTypes
  <2>2. CASE ~(EventPending(d, u) /\ c = d)
    BY <1>17, <2>2 DEF EventLagged, EventTypes
  <2> QED
    BY <2>1, <2>2
<1>18. ASSUME NEW c \in Conns, NEW t \in Topics, StreamOk(c, t) PROVE Covered(d, u)'
  BY <1>18 DEF StreamOk
<1>19. ASSUME NEW c \in Conns, NEW t \in Topics, StreamLagged(c, t) PROVE Covered(d, u)'
  BY <1>19 DEF StreamLagged
<1>20. ASSUME NEW c \in Conns, Forward(c) PROVE Covered(d, u)'
  BY <1>20 DEF Forward
<1>21. ASSUME NEW c \in Conns, ForwardFails(c) PROVE Covered(d, u)'
  BY <1>21, SubsAreTrees DEF ForwardFails
<1>22. ASSUME NEW c \in Conns, WriterTake(c) PROVE Covered(d, u)'
  BY <1>22 DEF WriterTake
<1>23. ASSUME NEW c \in Conns, WriterFails(c) PROVE Covered(d, u)'
  BY <1>23 DEF WriterFails
<1> QED
  BY <1>0, <1>1, <1>2, <1>3, <1>4, <1>5, <1>6, <1>7, <1>8, <1>9, <1>10, <1>11, <1>12, <1>13, <1>14, <1>15, <1>16, <1>17, <1>18, <1>19, <1>20, <1>21, <1>22, <1>23
  DEF Next, Command, Proceed, Event, Stream, Write

\* Gapless for one stream.
NoGap(c, t) ==
    /\ hi[c][t] + Held(c, t) <= cursor[c][t]
    /\ t \notin dropped[c] \cup lagged[c] => hi[c][t] + Held(c, t) = cursor[c][t]

\* subscribe_to_topic opens no silent gap: the last message and the receiver
\* are taken under one lock, so the stream starts right behind that message.
LEMMA SubscribeNoGap ==
    ASSUME TypeOK, Bookkeeping, Gapless, NEW c \in Conns, NEW t \in Topics,
           SubscribeToTopic(c, t), ~At(c, "forward"), ~At(c, "forward")',
           \A d \in Conns \ {c} : pc'[d] = pc[d], UNCHANGED arg,
           NEW d \in Conns, NEW u \in streams'[d]
    PROVE  NoGap(d, u)'
<1>1. u \in streams[d] => NoGap(d, u)
  BY DEF Gapless, NoGap
<1>2. Held(d, u)' = Held(d, u) /\ (d = c => Held(d, u) = 0)
  BY DEF Held, At
<1>a. LocalTypes /\ QueueTypes /\ tail[t] \in Nat /\ last[t] = tail[t] /\ hi[c][t] <= tail[t]
  BY DEF TypeOK, BusTypes, Bookkeeping, RetainedIsNewest, NothingAhead
<1>3. CASE t \in streams[c] \/ t \notin topics
  BY <1>1, <1>2, <1>3 DEF SubscribeToTopic, NoGap
<1>4. CASE ~(t \in streams[c] \/ t \notin topics)
  <2>1. /\ streams' = [streams EXCEPT ![c] = streams[c] \cup {t}]
        /\ cursor' = [cursor EXCEPT ![c][t] = tail[t]]
    BY <1>4 DEF SubscribeToTopic
  <2>2. CASE d = c /\ u = t
    <3>1. cursor'[c][t] = tail[t] /\ Held(d, u)' = 0 /\ hi[c][t] \in Nat
      BY <1>a, <1>2, <2>1, <2>2 DEF LocalTypes, QueueTypes
    <3>2. CASE last[t] = 0 /\ UNCHANGED <<out, hi, dropped, lagged>>
      BY <1>a, <2>2, <3>1, <3>2 DEF NoGap
    <3>3. CASE Enqueue(c, t, last[t])
      BY <1>a, <2>2, <3>1, <3>3 DEF NoGap, Enqueue, QueueTypes
    <3>4. CASE dropped' = [dropped EXCEPT ![c] = dropped[c] \cup {t}] /\ UNCHANGED <<out, hi, lagged>>
      BY <1>a, <2>2, <3>1, <3>4 DEF NoGap, QueueTypes
    <3> QED
      BY <1>4, <3>2, <3>3, <3>4 DEF SubscribeToTopic
  <2>3. CASE ~(d = c /\ u = t)
    <3>1. u \in streams[d] /\ u \in Topics /\ cursor'[d][u] = cursor[d][u]
      BY <1>a, <2>1, <2>3 DEF LocalTypes
    <3>2. hi'[d][u] = hi[d][u] /\ (u \in dropped[d] \cup lagged[d] => u \in dropped'[d] \cup lagged'[d])
      BY <1>a, <1>4, <2>3, <3>1 DEF SubscribeToTopic, Enqueue, QueueTypes
    <3> QED
      BY <1>1, <1>2, <3>1, <3>2 DEF NoGap
  <2> QED
    BY <2>2, <2>3
<1> QED
  BY <1>3, <1>4

\* No step opens a silent gap in a stream: a message read from it is in the
\* handler's hand until forward_message_to_client has queued it.
LEMMA GaplessInductive ==
    ASSUME TypeOK, Bookkeeping, Gapless, [Next]_vars
    PROVE  Gapless'
<1> SUFFICES ASSUME NEW d \in Conns, NEW u \in streams'[d] PROVE NoGap(d, u)'
  BY DEF Gapless, NoGap
<1>a. BusTypes /\ TaskTypes /\ LocalTypes /\ QueueTypes
  BY DEF TypeOK
<1>b. u \in streams[d] => NoGap(d, u) /\ u \in Topics
  BY <1>a DEF Gapless, NoGap, LocalTypes
<1> USE <1>a, <1>b
    DEF At, Goto, Work, Exit, Held, NoGap, TaskTypes, LocalTypes,
        bus, task, local, evrecv, writer, history
<1>0. CASE UNCHANGED vars
  BY <1>0 DEF vars
<1>1. ASSUME NEW c \in Conns, Connect(c) PROVE NoGap(d, u)'
  BY <1>1 DEF Connect
<1>2. ASSUME NEW c \in Conns, Disconnect(c) PROVE NoGap(d, u)'
  BY <1>2 DEF Disconnect
<1>3. ASSUME NEW c \in Conns, NEW p \in Patterns, CmdSubscribe(c, p) PROVE NoGap(d, u)'
  BY <1>3 DEF CmdSubscribe
<1>4. ASSUME NEW c \in Conns, NEW p \in Patterns, CmdUnsubscribe(c, p) PROVE NoGap(d, u)'
  BY <1>4 DEF CmdUnsubscribe
<1>5. ASSUME NEW c \in Conns, NEW t \in Topics, CmdPublish(c, t) PROVE NoGap(d, u)'
  BY <1>5 DEF CmdPublish
<1>6. ASSUME NEW c \in Conns, CmdPublishFails(c) PROVE NoGap(d, u)'
  BY <1>6 DEF CmdPublishFails
<1>7. ASSUME NEW c \in Conns, ListTopics(c) PROVE NoGap(d, u)'
  BY <1>7 DEF ListTopics
<1>8. ASSUME NEW c \in Conns, AttachNext(c) PROVE NoGap(d, u)'
  <2>1. PICK t \in todo[c] : SubscribeToTopic(c, t)
    BY <1>8 DEF AttachNext
  <2> QED
    BY <1>8, <2>1, SubscribeNoGap DEF AttachNext
<1>9. ASSUME NEW c \in Conns, AttachDone(c) PROVE NoGap(d, u)'
  BY <1>9 DEF AttachDone
<1>10. ASSUME NEW c \in Conns, SendCheck(c) PROVE NoGap(d, u)'
  BY <1>10 DEF SendCheck
<1>11. ASSUME NEW c \in Conns, CreateCheck(c) PROVE NoGap(d, u)'
  BY <1>11 DEF CreateCheck
<1>12. ASSUME NEW c \in Conns, CreateInsert(c) PROVE NoGap(d, u)'
  BY <1>12 DEF CreateInsert
<1>13. ASSUME NEW c \in Conns, Announce(c) PROVE NoGap(d, u)'
  BY <1>13 DEF Announce
<1>14. ASSUME NEW c \in Conns, Deliver(c) PROVE NoGap(d, u)'
  BY <1>14 DEF Deliver
<1>15. ASSUME NEW c \in Conns, NewTopic(c) PROVE NoGap(d, u)'
  <2>1. arg[c] \in Topics
    BY <1>15 DEF NewTopic, Bookkeeping, HandlerBooks
  <2>2. CASE SubscribeToTopic(c, arg[c])
    BY <1>15, <2>1, <2>2, SubscribeNoGap, SMTT(30) DEF NewTopic
  <2>3. CASE UNCHANGED <<streams, cursor, out, hi, dropped, lagged>>
    BY <1>15, <2>3 DEF NewTopic
  <2> QED
    BY <1>15, <2>2, <2>3 DEF NewTopic
<1>16. ASSUME NEW c \in Conns, EventOk(c) PROVE NoGap(d, u)'
  BY <1>16 DEF EventOk
<1>17. ASSUME NEW c \in Conns, EventLagged(c) PROVE NoGap(d, u)'
  BY <1>17 DEF EventLagged
<1>18. ASSUME NEW c \in Conns, NEW t \in Topics, StreamOk(c, t) PROVE NoGap(d, u)'
  BY <1>18, CapsAreBounds, SMTT(30) DEF StreamOk, QueueTypes
<1>19. ASSUME NEW c \in Conns, NEW t \in Topics, StreamLagged(c, t) PROVE NoGap(d, u)'
  <2>1. streams' = streams /\ hi' = hi /\ dropped' = dropped /\ pc' = pc /\ arg' = arg
    BY <1>19 DEF StreamLagged
  <2>2. CASE d = c /\ u = t
    <3>1. u \in lagged'[d] /\ cursor'[d][u] = tail[u] - TopicCap
      BY <1>19, <2>2 DEF StreamLagged, QueueTypes
    <3>2. hi[d][u] + Held(d, u) <= cursor[d][u] /\ cursor[d][u] < tail[u] - TopicCap
      BY <1>19, <2>1, <2>2, CapsAreBounds DEF StreamLagged, BusTypes
    <3>3. hi[d][u] + Held(d, u) \in Nat
      BY <1>b, <2>1 DEF QueueTypes
    <3> QED
      BY <2>1, <3>1, <3>2, <3>3, CapsAreBounds DEF BusTypes
  <2>3. CASE ~(d = c /\ u = t)
    BY <1>19, <2>1, <2>3 DEF StreamLagged, QueueTypes
  <2> QED
    BY <2>2, <2>3
<1>20. ASSUME NEW c \in Conns, Forward(c) PROVE NoGap(d, u)'
  BY <1>20 DEF Forward, Enqueue, QueueTypes, Bookkeeping, HandlerBooks
<1>21. ASSUME NEW c \in Conns, ForwardFails(c) PROVE NoGap(d, u)'
  BY <1>21 DEF ForwardFails
<1>22. ASSUME NEW c \in Conns, WriterTake(c) PROVE NoGap(d, u)'
  BY <1>22 DEF WriterTake
<1>23. ASSUME NEW c \in Conns, WriterFails(c) PROVE NoGap(d, u)'
  BY <1>23 DEF WriterFails
<1> QED
  BY <1>0, <1>1, <1>2, <1>3, <1>4, <1>5, <1>6, <1>7, <1>8, <1>9, <1>10, <1>11, <1>12, <1>13, <1>14, <1>15, <1>16, <1>17, <1>18, <1>19, <1>20, <1>21, <1>22, <1>23
  DEF Next, Command, Proceed, Event, Stream, Write

-----------------------------------------------------------------------------
(* Lag                                                                     *)

\* A stream of topic t that lagged has a message before it that will make up
\* for it: what the channel keeps is the newest.
CatchesUp(c, t) ==
    t \in lagged[c] =>
        /\ tail[t] > 0
        /\ t \in streams[c] => t \in dropped[c] \/ cursor[c][t] < tail[t] \/ Held(c, t) = 1

\* This is inductive in the presence of the others.
CatchingUp == \A c \in Conns, t \in Topics : CatchesUp(c, t)

\* A stream that is opened again after it lagged starts with the last message,
\* or that message is refused.
LEMMA SubscribeCatchesUp ==
    ASSUME TypeOK, Bookkeeping, NEW c \in Conns, NEW t \in Topics,
           SubscribeToTopic(c, t), ~At(c, "forward"), ~At(c, "forward")',
           \A d \in Conns \ {c} : pc'[d] = pc[d], UNCHANGED <<arg, tail>>,
           NEW d \in Conns, NEW u \in Topics, CatchesUp(d, u)
    PROVE  CatchesUp(d, u)'
<1>1. Held(d, u)' = Held(d, u)
  BY DEF Held, At
<1>a. LocalTypes /\ QueueTypes /\ tail[t] \in Nat /\ last[t] = tail[t]
  BY DEF TypeOK, BusTypes, Bookkeeping, RetainedIsNewest
<1>2. CASE UNCHANGED <<streams, cursor, dropped, lagged>>
  BY <1>1, <1>2 DEF CatchesUp
<1>3. CASE /\ streams' = [streams EXCEPT ![c] = streams[c] \cup {t}]
           /\ cursor' = [cursor EXCEPT ![c][t] = tail[t]]
           /\ \/ last[t] = 0 /\ UNCHANGED <<out, hi, dropped, lagged>>
              \/ Enqueue(c, t, last[t])
              \/ /\ dropped' = [dropped EXCEPT ![c] = dropped[c] \cup {t}]
                 /\ UNCHANGED <<out, hi, lagged>>
  <2>1. CASE d = c /\ u = t
    <3>1. CASE last[t] = 0 /\ UNCHANGED <<out, hi, dropped, lagged>>
      BY <1>a, <2>1, <3>1 DEF CatchesUp
    <3>2. CASE Enqueue(c, t, last[t])
      <4>1. u \notin lagged'[d]
        BY <1>a, <2>1, <3>2 DEF Enqueue, QueueTypes
      <4> QED
        BY <4>1 DEF CatchesUp
    <3>3. CASE dropped' = [dropped EXCEPT ![c] = dropped[c] \cup {t}] /\ UNCHANGED <<out, hi, lagged>>
      <4>1. u \in dropped'[d]
        BY <1>a, <2>1, <3>3 DEF QueueTypes
      <4> QED
        BY <2>1, <3>3, <4>1 DEF CatchesUp
    <3> QED
      BY <1>3, <3>1, <3>2, <3>3
  <2>2. CASE ~(d = c /\ u = t)
    <3>1. (u \in streams'[d] <=> u \in streams[d]) /\ cursor'[d][u] = cursor[d][u]
      BY <1>a, <1>3, <2>2 DEF LocalTypes
    <3>2. (u \in lagged'[d] <=> u \in lagged[d]) /\ (u \in dropped'[d] <=> u \in dropped[d])
      BY <1>a, <1>3, <2>2 DEF Enqueue, QueueTypes
    <3> QED
      BY <1>1, <3>1, <3>2 DEF CatchesUp
  <2> QED
    BY <2>1, <2>2
<1> QED
  BY <1>2, <1>3 DEF SubscribeToTopic

\* A lagging stream moves to the oldest message that is kept, which is before
\* the end; only forwarding that message or a later one ends the lag.
LEMMA LagInductive ==
    ASSUME TypeOK, Bookkeeping, CatchingUp, [Next]_vars
    PROVE  CatchingUp'
<1> SUFFICES ASSUME NEW d \in Conns, NEW u \in Topics PROVE CatchesUp(d, u)'
  BY DEF CatchingUp
<1>a. BusTypes /\ TaskTypes /\ LocalTypes /\ QueueTypes
  BY DEF TypeOK
<1>b. CatchesUp(d, u) /\ tail[u] \in Nat /\ tail'[u] \in Nat /\ cursor[d][u] \in Nat /\ tail[u] <= tail'[u]
  <2>1. TypeOK'
    BY TypeInductive
  <2> QED
    BY <1>a, <2>1, BusGrows DEF CatchingUp, BusTypes, LocalTypes, TypeOK
<1> USE <1>a, <1>b
    DEF At, Goto, Work, Exit, Held, CatchesUp, TaskTypes, LocalTypes,
        bus, task, local, evrecv, writer, history
<1>0. CASE UNCHANGED vars
  BY <1>0 DEF vars
<1>1. ASSUME NEW c \in Conns, Connect(c) PROVE CatchesUp(d, u)'
  BY <1>1 DEF Connect
<1>2. ASSUME NEW c \in Conns, Disconnect(c) PROVE CatchesUp(d, u)'
  BY <1>2 DEF Disconnect
<1>3. ASSUME NEW c \in Conns, NEW p \in Patterns, CmdSubscribe(c, p) PROVE CatchesUp(d, u)'
  BY <1>3 DEF CmdSubscribe
<1>4. ASSUME NEW c \in Conns, NEW p \in Patterns, CmdUnsubscribe(c, p) PROVE CatchesUp(d, u)'
  BY <1>4 DEF CmdUnsubscribe
<1>5. ASSUME NEW c \in Conns, NEW t \in Topics, CmdPublish(c, t) PROVE CatchesUp(d, u)'
  BY <1>5 DEF CmdPublish
<1>6. ASSUME NEW c \in Conns, CmdPublishFails(c) PROVE CatchesUp(d, u)'
  BY <1>6 DEF CmdPublishFails
<1>7. ASSUME NEW c \in Conns, ListTopics(c) PROVE CatchesUp(d, u)'
  BY <1>7 DEF ListTopics
<1>8. ASSUME NEW c \in Conns, AttachNext(c) PROVE CatchesUp(d, u)'
  <2>1. PICK t \in todo[c] : SubscribeToTopic(c, t)
    BY <1>8 DEF AttachNext
  <2> QED
    BY <1>8, <2>1, SubscribeCatchesUp DEF AttachNext
<1>9. ASSUME NEW c \in Conns, AttachDone(c) PROVE CatchesUp(d, u)'
  BY <1>9 DEF AttachDone
<1>10. ASSUME NEW c \in Conns, SendCheck(c) PROVE CatchesUp(d, u)'
  BY <1>10 DEF SendCheck
<1>11. ASSUME NEW c \in Conns, CreateCheck(c) PROVE CatchesUp(d, u)'
  BY <1>11 DEF CreateCheck
<1>12. ASSUME NEW c \in Conns, CreateInsert(c) PROVE CatchesUp(d, u)'
  BY <1>12 DEF CreateInsert
<1>13. ASSUME NEW c \in Conns, Announce(c) PROVE CatchesUp(d, u)'
  BY <1>13 DEF Announce
<1>14. ASSUME NEW c \in Conns, Deliver(c) PROVE CatchesUp(d, u)'
  BY <1>14 DEF Deliver
<1>15. ASSUME NEW c \in Conns, NewTopic(c) PROVE CatchesUp(d, u)'
  <2>1. arg[c] \in Topics
    BY <1>15 DEF NewTopic, Bookkeeping, HandlerBooks
  <2>2. CASE SubscribeToTopic(c, arg[c])
    BY <1>15, <2>1, <2>2, SubscribeCatchesUp, SMTT(30) DEF NewTopic
  <2>3. CASE UNCHANGED <<streams, cursor, out, hi, dropped, lagged>>
    BY <1>15, <2>3 DEF NewTopic
  <2> QED
    BY <1>15, <2>2, <2>3 DEF NewTopic
<1>16. ASSUME NEW c \in Conns, EventOk(c) PROVE CatchesUp(d, u)'
  BY <1>16 DEF EventOk
<1>17. ASSUME NEW c \in Conns, EventLagged(c) PROVE CatchesUp(d, u)'
  BY <1>17 DEF EventLagged
<1>18. ASSUME NEW c \in Conns, NEW t \in Topics, StreamOk(c, t) PROVE CatchesUp(d, u)'
  <2>1. CASE d = c /\ u = t
    <3>1. Held(d, u)' = 1 /\ UNCHANGED <<tail, lagged>>
      BY <1>18, <2>1 DEF StreamOk
    <3> QED
      BY <3>1
  <2>2. CASE ~(d = c /\ u = t)
    BY <1>18, <2>2 DEF StreamOk
  <2> QED
    BY <2>1, <2>2
<1>19. ASSUME NEW c \in Conns, NEW t \in Topics, StreamLagged(c, t) PROVE CatchesUp(d, u)'
  <2>1. CASE d = c /\ u = t
    <3>1. cursor'[d][u] = tail[u] - TopicCap /\ UNCHANGED tail /\ tail[u] - cursor[d][u] > TopicCap
      BY <1>19, <2>1 DEF StreamLagged
    <3>2. tail[u] \in Nat /\ cursor[d][u] \in Nat
      BY DEF BusTypes
    <3> QED
      BY <3>1, <3>2, CapsAreBounds
  <2>2. CASE ~(d = c /\ u = t)
    BY <1>19, <2>2 DEF StreamLagged, QueueTypes
  <2> QED
    BY <2>1, <2>2
<1>20. ASSUME NEW c \in Conns, Forward(c) PROVE CatchesUp(d, u)'
  <2>1. UNCHANGED <<streams, cursor, tail, arg>>
    BY <1>20 DEF Forward
  <2>2. CASE d = c /\ u = arg[c]
    <3>1. u \notin lagged'[d]
      BY <1>20, <2>2 DEF Forward, Enqueue, QueueTypes
    <3> QED
      BY <3>1
  <2>3. CASE ~(d = c /\ u = arg[c])
    <3>1. (u \in lagged'[d] <=> u \in lagged[d]) /\ (u \in dropped'[d] <=> u \in dropped[d])
      BY <1>20, <2>3 DEF Forward, Enqueue, QueueTypes
    <3>2. Held(d, u)' = Held(d, u)
      BY <1>20, <2>1, <2>3 DEF Forward
    <3> HIDE DEF Held
    <3> QED
      BY <2>1, <3>1, <3>2
  <2> QED
    BY <2>2, <2>3
<1>21. ASSUME NEW c \in Conns, ForwardFails(c) PROVE CatchesUp(d, u)'
  BY <1>21 DEF ForwardFails
<1>22. ASSUME NEW c \in Conns, WriterTake(c) PROVE CatchesUp(d, u)'
  BY <1>22 DEF WriterTake
<1>23. ASSUME NEW c \in Conns, WriterFails(c) PROVE CatchesUp(d, u)'
  BY <1>23 DEF WriterFails
<1> QED
  BY <1>0, <1>1, <1>2, <1>3, <1>4, <1>5, <1>6, <1>7, <1>8, <1>9, <1>10, <1>11, <1>12, <1>13, <1>14, <1>15, <1>16, <1>17, <1>18, <1>19, <1>20, <1>21, <1>22, <1>23
  DEF Next, Command, Proceed, Event, Stream, Write

\* An idle handler that has read all the events and its stream to the end has
\* queued the newest message.
LEMMA RestingStep ==
    ASSUME Inv, CatchingUp
    PROVE  RestingIsUpToDate
<1> SUFFICES ASSUME NEW c \in Conns, NEW t \in topics, SubsCheck(subs[c], t), Drained(c, t),
                    t \notin missed[c] \cup dropped[c]
             PROVE  hi[c][t] = last[t]
  BY DEF RestingIsUpToDate
<1>1. t \in Topics /\ evpos[c] = Len(events) /\ Len(events) \in Nat
  BY DEF Inv, TypeOK, BusTypes, Drained
<1>2. ~EventPending(c, t)
  BY <1>1 DEF EventPending
<1>3. t \in streams[c]
  BY <1>2 DEF Inv, Coverage, Covered, Drained, At
<1>4. Held(c, t) = 0 /\ cursor[c][t] = tail[t]
  BY <1>3 DEF Held, Drained, At
<1>5. tail[t] \in Nat /\ hi[c][t] \in Nat /\ last[t] = tail[t]
  BY <1>1 DEF Inv, TypeOK, BusTypes, QueueTypes, Bookkeeping, RetainedIsNewest
<1>6. t \notin lagged[c]
  BY <1>1, <1>3, <1>4, <1>5 DEF CatchingUp, CatchesUp
<1> QED
  BY <1>3, <1>4, <1>5, <1>6 DEF Inv, Gapless

-----------------------------------------------------------------------------
(* Order                                                                   *)

\* A message that is not older than the newest one queued of its topic keeps
\* the queue in order (adapter_sender.send and try_send append).
LEMMA EnqueueInOrder ==
    ASSUME QueueTypes, QueueInOrder, NEW c \in Conns, NEW t \in Topics, NEW n \in Nat \ {0},
           hi[c][t] <= n, Enqueue(c, t, n)
    PROVE  QueueInOrder'
<1> DEFINE m == [topic |-> t, n |-> n]
<1>1. out' = [out EXCEPT ![c] = Append(out[c], m)] /\ hi' = [hi EXCEPT ![c][t] = n]
  BY DEF Enqueue
<1>2. m \in Message /\ m.topic = t /\ m.n = n
  BY DEF Message
<1> HIDE DEF m
<1> SUFFICES ASSUME NEW d \in Conns
             PROVE  /\ \A i \in 1 .. Len(out'[d]) : out'[d][i].n \in 1 .. hi'[d][out'[d][i].topic]
                    /\ \A i, j \in 1 .. Len(out'[d]) :
                          i < j /\ out'[d][i].topic = out'[d][j].topic => out'[d][i].n <= out'[d][j].n
  BY DEF QueueInOrder
<1>3. /\ \A i \in 1 .. Len(out[d]) : out[d][i].n \in 1 .. hi[d][out[d][i].topic]
      /\ \A i, j \in 1 .. Len(out[d]) :
            i < j /\ out[d][i].topic = out[d][j].topic => out[d][i].n <= out[d][j].n
  BY DEF QueueInOrder
<1>4. CASE d # c
  BY <1>1, <1>3, <1>4 DEF QueueTypes
<1>5. CASE d = c
  <2>1. /\ out[c] \in Seq(Message) /\ out'[c] = Append(out[c], m)
        /\ \A u \in Topics : hi'[c][u] = IF u = t THEN n ELSE hi[c][u]
    BY <1>1 DEF QueueTypes
  <2>2. /\ Len(out'[c]) = Len(out[c]) + 1 /\ Len(out[c]) \in Nat
        /\ out'[c][Len(out[c]) + 1] = m
        /\ \A i \in 1 .. Len(out[c]) : out'[c][i] = out[c][i]
    BY <1>2, <2>1
  <2>3. \A i \in 1 .. Len(out[c]) : out[c][i].topic \in Topics /\ out[c][i].n \in Nat
    <3>1. \A i \in 1 .. Len(out[c]) : out[c][i] \in Message
      BY <2>1
    <3> QED
      BY <3>1 DEF Message
  <2>4. \A u \in Topics : hi[c][u] \in Nat
    BY DEF QueueTypes
  <2>5. \A i \in 1 .. Len(out'[c]) : i \in 1 .. Len(out[c]) \/ i = Len(out[c]) + 1
    BY <2>2
  <2>6. \A i \in 1 .. Len(out'[c]) : out'[c][i].n \in 1 .. hi'[c][out'[c][i].topic]
    <3>1. ASSUME NEW i \in 1 .. Len(out[c])
          PROVE  out'[c][i].n \in 1 .. hi'[c][out'[c][i].topic]
      <4>1. out[c][i].topic \in Topics /\ out[c][i].n \in 1 .. hi[c][out[c][i].topic]
        BY <1>3, <1>5, <2>3
      <4> DEFINE u == out[c][i].topic
      <4>2. u \in Topics /\ hi[c][u] \in Nat /\ hi'[c][u] \in Nat
        BY <1>1, <2>1, <2>4, <4>1
      <4>3. hi[c][u] <= hi'[c][u]
        BY <1>1, <1>2, <2>1, <4>2
      <4>4. out'[c][i] = out[c][i]
        BY <2>2
      <4> HIDE DEF u
      <4> QED
        BY <4>1, <4>2, <4>3, <4>4 DEF u
    <3>2. out'[c][Len(out[c]) + 1].n \in 1 .. hi'[c][out'[c][Len(out[c]) + 1].topic]
      BY <1>2, <2>1, <2>2
    <3> QED
      BY <2>5, <3>1, <3>2
  <2>7. ASSUME NEW i \in 1 .. Len(out'[c]), NEW j \in 1 .. Len(out'[c]),
               i < j, out'[c][i].topic = out'[c][j].topic
        PROVE  out'[c][i].n <= out'[c][j].n
    <3>1. i \in 1 .. Len(out[c])
      BY <2>2, <2>7
    <3>2. CASE j \in 1 .. Len(out[c])
      BY <1>3, <1>5, <2>2, <2>7, <3>1, <3>2
    <3>3. CASE j = Len(out[c]) + 1
      <4>1. out[c][i].topic = t /\ out'[c][j].n = n
        BY <1>2, <2>2, <2>7, <3>1, <3>3
      <4>2. out[c][i].n \in 1 .. hi[c][t]
        BY <1>3, <1>5, <3>1, <4>1
      <4> QED
        BY <2>2, <2>4, <3>1, <4>1, <4>2, SMTT(30)
    <3> QED
      BY <2>5, <3>2, <3>3
  <2> QED
    BY <1>5, <2>6, <2>7
<1> QED
  BY <1>4, <1>5

\* The last message that subscribe_to_topic sends is not older than what was
\* queued for this client before.
LEMMA SubscribeInOrder ==
    ASSUME TypeOK, Bookkeeping, QueueInOrder, NEW c \in Conns, NEW t \in Topics,
           SubscribeToTopic(c, t)
    PROVE  QueueInOrder'
<1>1. QueueTypes /\ last[t] \in Nat /\ hi[c][t] <= last[t]
  BY DEF TypeOK, BusTypes, Bookkeeping, RetainedIsNewest, NothingAhead
<1>2. CASE UNCHANGED <<out, hi>>
  BY <1>2 DEF QueueInOrder
<1>3. CASE last[t] # 0 /\ Enqueue(c, t, last[t])
  BY <1>1, <1>3, EnqueueInOrder
<1> QED
  BY <1>2, <1>3 DEF SubscribeToTopic

\* Every step keeps the messages of a topic in order in the channels to the
\* write loops.
LEMMA OrderInductive ==
    ASSUME TypeOK, Bookkeeping, Gapless, QueueInOrder, [Next]_vars
    PROVE  QueueInOrder'
<1> USE DEF writer, history
<1>0. CASE UNCHANGED vars
  BY <1>0 DEF vars, QueueInOrder
<1>1. ASSUME NEW c \in Conns, Connect(c) PROVE QueueInOrder'
  BY <1>1 DEF Connect, QueueInOrder
<1>2. ASSUME NEW c \in Conns, Disconnect(c) PROVE QueueInOrder'
  BY <1>2 DEF Disconnect, QueueInOrder
<1>3. ASSUME NEW c \in Conns, NEW p \in Patterns, CmdSubscribe(c, p) PROVE QueueInOrder'
  BY <1>3 DEF CmdSubscribe, QueueInOrder
<1>4. ASSUME NEW c \in Conns, NEW p \in Patterns, CmdUnsubscribe(c, p) PROVE QueueInOrder'
  BY <1>4 DEF CmdUnsubscribe, QueueInOrder
<1>5. ASSUME NEW c \in Conns, NEW t \in Topics, CmdPublish(c, t) PROVE QueueInOrder'
  BY <1>5 DEF CmdPublish, QueueInOrder
<1>6. ASSUME NEW c \in Conns, CmdPublishFails(c) PROVE QueueInOrder'
  BY <1>6 DEF CmdPublishFails, QueueInOrder
<1>7. ASSUME NEW c \in Conns, ListTopics(c) PROVE QueueInOrder'
  BY <1>7 DEF ListTopics, QueueInOrder
<1>8. ASSUME NEW c \in Conns, AttachNext(c) PROVE QueueInOrder'
  <2>1. PICK t \in todo[c] : SubscribeToTopic(c, t)
    BY <1>8 DEF AttachNext
  <2> QED
    BY <2>1, SubscribeInOrder DEF TypeOK, TaskTypes
<1>9. ASSUME NEW c \in Conns, AttachDone(c) PROVE QueueInOrder'
  BY <1>9 DEF AttachDone, QueueInOrder
<1>10. ASSUME NEW c \in Conns, SendCheck(c) PROVE QueueInOrder'
  BY <1>10 DEF SendCheck, QueueInOrder
<1>11. ASSUME NEW c \in Conns, CreateCheck(c) PROVE QueueInOrder'
  BY <1>11 DEF CreateCheck, QueueInOrder
<1>12. ASSUME NEW c \in Conns, CreateInsert(c) PROVE QueueInOrder'
  BY <1>12 DEF CreateInsert, QueueInOrder
<1>13. ASSUME NEW c \in Conns, Announce(c) PROVE QueueInOrder'
  BY <1>13 DEF Announce, QueueInOrder
<1>14. ASSUME NEW c \in Conns, Deliver(c) PROVE QueueInOrder'
  BY <1>14 DEF Deliver, QueueInOrder
<1>15. ASSUME NEW c \in Conns, NewTopic(c) PROVE QueueInOrder'
  <2>1. arg[c] \in Topics
    BY <1>15 DEF NewTopic, At, Bookkeeping, HandlerBooks
  <2>2. CASE SubscribeToTopic(c, arg[c])
    BY <2>1, <2>2, SubscribeInOrder
  <2>3. CASE UNCHANGED <<out, hi>>
    BY <2>3 DEF QueueInOrder
  <2> QED
    BY <1>15, <2>2, <2>3 DEF NewTopic
<1>16. ASSUME NEW c \in Conns, EventOk(c) PROVE QueueInOrder'
  BY <1>16 DEF EventOk, QueueInOrder
<1>17. ASSUME NEW c \in Conns, EventLagged(c) PROVE QueueInOrder'
  BY <1>17 DEF EventLagged, QueueInOrder
<1>18. ASSUME NEW c \in Conns, NEW t \in Topics, StreamOk(c, t) PROVE QueueInOrder'
  BY <1>18 DEF StreamOk, QueueInOrder
<1>19. ASSUME NEW c \in Conns, NEW t \in Topics, StreamLagged(c, t) PROVE QueueInOrder'
  BY <1>19 DEF StreamLagged, QueueInOrder
<1>20. ASSUME NEW c \in Conns, Forward(c) PROVE QueueInOrder'
  <2>1. At(c, "forward") /\ arg[c] \in streams[c] /\ arg[c] \in Topics
    BY <1>20 DEF Forward, Bookkeeping, HandlerBooks, TypeOK, LocalTypes
  <2>2. hi[c][arg[c]] + 1 <= cursor[c][arg[c]]
    BY <2>1 DEF Gapless, Held
  <2>3. QueueTypes /\ hi[c][arg[c]] \in Nat /\ cursor[c][arg[c]] \in Nat
    BY <2>1 DEF TypeOK, QueueTypes, LocalTypes
  <2>4. cursor[c][arg[c]] \in Nat \ {0} /\ hi[c][arg[c]] <= cursor[c][arg[c]]
    BY <2>2, <2>3
  <2> QED
    BY <1>20, <2>1, <2>3, <2>4, EnqueueInOrder DEF Forward
<1>21. ASSUME NEW c \in Conns, ForwardFails(c) PROVE QueueInOrder'
  BY <1>21 DEF ForwardFails, QueueInOrder
<1>22. ASSUME NEW c \in Conns, WriterTake(c) PROVE QueueInOrder'
  <2>1. out' = [out EXCEPT ![c] = Tail(out[c])] /\ out[c] # <<>> /\ hi' = hi
    BY <1>22 DEF WriterTake
  <2>2. out \in [Conns -> Seq(Message)]
    BY DEF TypeOK, QueueTypes
  <2>3. /\ Len(out'[c]) = Len(out[c]) - 1 /\ Len(out[c]) \in Nat
        /\ \A i \in 1 .. Len(out'[c]) : out'[c][i] = out[c][i + 1]
    BY <2>1, <2>2
  <2>4. \A d \in Conns \ {c} : out'[d] = out[d]
    BY <2>1, <2>2
  <2>5. /\ \A i \in 1 .. Len(out'[c]) : out'[c][i].n \in 1 .. hi[c][out'[c][i].topic]
        /\ \A i, j \in 1 .. Len(out'[c]) :
              i < j /\ out'[c][i].topic = out'[c][j].topic => out'[c][i].n <= out'[c][j].n
    <3>1. \A i \in 1 .. Len(out'[c]) : i + 1 \in 1 .. Len(out[c])
      BY <2>3
    <3>2. ASSUME NEW i \in 1 .. Len(out'[c])
          PROVE  out'[c][i].n \in 1 .. hi[c][out'[c][i].topic]
      BY <2>3, <3>1 DEF QueueInOrder
    <3>3. ASSUME NEW i \in 1 .. Len(out'[c]), NEW j \in 1 .. Len(out'[c]),
                 i < j, out'[c][i].topic = out'[c][j].topic
          PROVE  out'[c][i].n <= out'[c][j].n
      <4>1. i + 1 \in 1 .. Len(out[c]) /\ j + 1 \in 1 .. Len(out[c]) /\ i + 1 < j + 1
        BY <3>1, <3>3
      <4>2. out[c][i + 1].n <= out[c][j + 1].n
        BY <2>3, <3>3, <4>1 DEF QueueInOrder
      <4> QED
        BY <2>3, <4>2
    <3> QED
      BY <3>2, <3>3
  <2> QED
    BY <2>1, <2>4, <2>5 DEF QueueInOrder
<1>23. ASSUME NEW c \in Conns, WriterFails(c) PROVE QueueInOrder'
  <2>1. out'[c] = <<>> /\ hi' = hi /\ \A d \in Conns \ {c} : out'[d] = out[d]
    BY <1>23 DEF WriterFails, TypeOK, QueueTypes
  <2> QED
    BY <2>1, SMTT(30) DEF QueueInOrder
<1> QED
  BY <1>0, <1>1, <1>2, <1>3, <1>4, <1>5, <1>6, <1>7, <1>8, <1>9, <1>10, <1>11, <1>12, <1>13, <1>14, <1>15, <1>16, <1>17, <1>18, <1>19, <1>20, <1>21, <1>22, <1>23
  DEF Next, Command, Proceed, Event, Stream, Write

\* Appending to one client's queue repeats a message only if that message is of
\* a topic the client follows and not newer than what was queued of it.
LEMMA EnqueueOnce ==
    ASSUME QueueTypes, NEW c \in Conns, NEW t \in Topics, NEW n \in Nat,
           Enqueue(c, t, n), t \in streams[c] => n > hi[c][t],
           NEW d \in Conns
    PROVE  ~Repeats(d)
<1> DEFINE m == [topic |-> t, n |-> n]
<1>1. m \in Message /\ m.topic = t /\ m.n = n
  BY DEF Message
<1>2. out \in [Conns -> Seq(Message)] /\ hi[c][t] \in Nat
  BY DEF QueueTypes
<1>3. out' = [out EXCEPT ![c] = Append(out[c], m)]
  BY DEF Enqueue
<1>4. CASE d = c
  <2>1. out'[c][Len(out'[c])] = m
    BY <1>1, <1>2, <1>3
  <2> QED
    BY <1>1, <1>2, <1>4, <2>1 DEF Repeats
<1>5. CASE d # c
  BY <1>2, <1>3, <1>5 DEF Repeats
<1> QED
  BY <1>4, <1>5

\* subscribe_to_topic sends the last message only of a topic the client does
\* not follow yet.
LEMMA SubscribeOnce ==
    ASSUME TypeOK, NEW c \in Conns, NEW t \in Topics, SubscribeToTopic(c, t),
           NEW d \in Conns
    PROVE  ~Repeats(d)
<1>1. QueueTypes /\ last[t] \in Nat
  BY DEF TypeOK, BusTypes
<1>2. CASE UNCHANGED out
  BY <1>1, <1>2 DEF Repeats, QueueTypes
<1>3. CASE t \notin streams[c] /\ Enqueue(c, t, last[t])
  BY <1>1, <1>3, EnqueueOnce
<1> QED
  BY <1>2, <1>3 DEF SubscribeToTopic

\* No step of the broker queues a message a second time for a client that
\* follows its topic: a stream's position is past all that was queued of it.
LEMMA OnceStep ==
    ASSUME TypeOK, Bookkeeping, Gapless, [Next]_vars, NEW d \in Conns
    PROVE  ~Repeats(d)
<1>a. UNCHANGED out => ~Repeats(d)
  BY DEF Repeats, TypeOK, QueueTypes
<1> USE DEF writer
<1>0. CASE UNCHANGED vars
  BY <1>0, <1>a DEF vars
<1>1. ASSUME NEW c \in Conns, Connect(c) PROVE ~Repeats(d)
  BY <1>1, <1>a DEF Connect
<1>2. ASSUME NEW c \in Conns, Disconnect(c) PROVE ~Repeats(d)
  BY <1>2, <1>a DEF Disconnect
<1>3. ASSUME NEW c \in Conns, NEW p \in Patterns, CmdSubscribe(c, p) PROVE ~Repeats(d)
  BY <1>3, <1>a DEF CmdSubscribe
<1>4. ASSUME NEW c \in Conns, NEW p \in Patterns, CmdUnsubscribe(c, p) PROVE ~Repeats(d)
  BY <1>4, <1>a DEF CmdUnsubscribe
<1>5. ASSUME NEW c \in Conns, NEW t \in Topics, CmdPublish(c, t) PROVE ~Repeats(d)
  BY <1>5, <1>a DEF CmdPublish
<1>6. ASSUME NEW c \in Conns, CmdPublishFails(c) PROVE ~Repeats(d)
  BY <1>6, <1>a DEF CmdPublishFails
<1>7. ASSUME NEW c \in Conns, ListTopics(c) PROVE ~Repeats(d)
  BY <1>7, <1>a DEF ListTopics
<1>8. ASSUME NEW c \in Conns, AttachNext(c) PROVE ~Repeats(d)
  <2>1. PICK t \in todo[c] : SubscribeToTopic(c, t)
    BY <1>8 DEF AttachNext
  <2> QED
    BY <2>1, SubscribeOnce DEF TypeOK, TaskTypes
<1>9. ASSUME NEW c \in Conns, AttachDone(c) PROVE ~Repeats(d)
  BY <1>9, <1>a DEF AttachDone
<1>10. ASSUME NEW c \in Conns, SendCheck(c) PROVE ~Repeats(d)
  BY <1>10, <1>a DEF SendCheck
<1>11. ASSUME NEW c \in Conns, CreateCheck(c) PROVE ~Repeats(d)
  BY <1>11, <1>a DEF CreateCheck
<1>12. ASSUME NEW c \in Conns, CreateInsert(c) PROVE ~Repeats(d)
  BY <1>12, <1>a DEF CreateInsert
<1>13. ASSUME NEW c \in Conns, Announce(c) PROVE ~Repeats(d)
  BY <1>13, <1>a DEF Announce
<1>14. ASSUME NEW c \in Conns, Deliver(c) PROVE ~Repeats(d)
  BY <1>14, <1>a DEF Deliver
<1>15. ASSUME NEW c \in Conns, NewTopic(c) PROVE ~Repeats(d)
  <2>1. arg[c] \in Topics
    BY <1>15 DEF NewTopic, At, Bookkeeping, HandlerBooks
  <2>2. CASE SubscribeToTopic(c, arg[c])
    BY <2>1, <2>2, SubscribeOnce
  <2> QED
    BY <1>15, <1>a, <2>2 DEF NewTopic
<1>16. ASSUME NEW c \in Conns, EventOk(c) PROVE ~Repeats(d)
  BY <1>16, <1>a DEF EventOk
<1>17. ASSUME NEW c \in Conns, EventLagged(c) PROVE ~Repeats(d)
  BY <1>17, <1>a DEF EventLagged
<1>18. ASSUME NEW c \in Conns, NEW t \in Topics, StreamOk(c, t) PROVE ~Repeats(d)
  BY <1>18, <1>a DEF StreamOk
<1>19. ASSUME NEW c \in Conns, NEW t \in Topics, StreamLagged(c, t) PROVE ~Repeats(d)
  BY <1>19, <1>a DEF StreamLagged
<1>20. ASSUME NEW c \in Conns, Forward(c) PROVE ~Repeats(d)
  <2>1. At(c, "forward") /\ arg[c] \in streams[c] /\ arg[c] \in Topics
    BY <1>20 DEF Forward, Bookkeeping, HandlerBooks, TypeOK, LocalTypes
  <2>2. hi[c][arg[c]] + 1 <= cursor[c][arg[c]]
    BY <2>1 DEF Gapless, Held
  <2>3. QueueTypes /\ hi[c][arg[c]] \in Nat /\ cursor[c][arg[c]] \in Nat
    BY <2>1 DEF TypeOK, QueueTypes, LocalTypes
  <2> QED
    BY <1>20, <2>1, <2>2, <2>3, EnqueueOnce DEF Forward
<1>21. ASSUME NEW c \in Conns, ForwardFails(c) PROVE ~Repeats(d)
  BY <1>21, <1>a DEF ForwardFails
<1>22. ASSUME NEW c \in Conns, WriterTake(c) PROVE ~Repeats(d)
  <2>1. out \in [Conns -> Seq(Message)]
    BY DEF TypeOK, QueueTypes
  <2>2. out' = [out EXCEPT ![c] = Tail(out[c])] /\ out[c] # <<>>
    BY <1>22 DEF WriterTake
  <2>3. Len(out'[d]) <= Len(out[d]) /\ Len(out'[d]) \in Nat /\ Len(out[d]) \in Nat
    BY <2>1, <2>2
  <2> QED
    BY <2>3 DEF Repeats
<1>23. ASSUME NEW c \in Conns, WriterFails(c) PROVE ~Repeats(d)
  <2>1. out \in [Conns -> Seq(Message)] /\ out' = [out EXCEPT ![c] = <<>>]
    BY <1>23 DEF WriterFails, TypeOK, QueueTypes
  <2>2. Len(out'[d]) <= Len(out[d]) /\ Len(out'[d]) \in Nat /\ Len(out[d]) \in Nat
    BY <2>1
  <2> QED
    BY <2>2 DEF Repeats
<1> QED
  BY <1>0, <1>1, <1>2, <1>3, <1>4, <1>5, <1>6, <1>7, <1>8, <1>9, <1>10, <1>11, <1>12, <1>13, <1>14, <1>15, <1>16, <1>17, <1>18, <1>19, <1>20, <1>21, <1>22, <1>23
  DEF Next, Command, Proceed, Event, Stream, Write

-----------------------------------------------------------------------------
(* What the clients observe                                                *)

\* Every step of the broker publishes a state of one topic (the end of
\* Bus::send), shows one client a newer state (adapter_sender), or shows no
\* client anything new.
LEMMA FeedStep ==
    ASSUME TypeOK, Bookkeeping, Gapless, [Next]_vars
    PROVE  [Feed!Next]_Feed!vars
<1>a. BusTypes /\ LocalTypes /\ QueueTypes
  BY DEF TypeOK
<1>1. CASE UNCHANGED hi
  <2>1. CASE UNCHANGED <<topics, tail, last>>
    BY <1>1, <2>1 DEF Feed!vars
  <2>2. ASSUME NEW c \in Conns, CreateInsert(c) PROVE UNCHANGED tail
    BY <1>a, <2>2 DEF CreateInsert, BusTypes, Bookkeeping, RetainedIsNewest, HandlerBooks, At, Sending
  <2>3. ASSUME NEW c \in Conns, Deliver(c)
        PROVE  UNCHANGED tail \/ \E t \in Topics : tail' = [tail EXCEPT ![t] = tail[t] + 1]
    BY <1>a, <2>3 DEF Deliver, BusTypes
  <2> QED
    BY <1>1, <2>1, <2>2, <2>3, BusSteps DEF Feed!vars, Feed!Next, Feed!Publish
<1>2. ASSUME NEW c \in Conns, NEW t \in Topics, NEW n \in Nat,
             UNCHANGED tail, hi' = [hi EXCEPT ![c][t] = n], hi[c][t] <= n, n <= tail[t]
      PROVE  [Feed!Next]_Feed!vars
  <2>1. hi[c][t] \in Nat /\ tail[t] \in Nat
    BY <1>a DEF BusTypes, QueueTypes
  <2>2. CASE n = hi[c][t]
    <3>1. hi' = hi
      BY <1>a, <1>2, <2>2 DEF QueueTypes
    <3> QED
      BY <1>2, <3>1 DEF Feed!vars
  <2>3. CASE n # hi[c][t]
    <3>1. n \in hi[c][t] + 1 .. tail[t]
      BY <1>2, <2>1, <2>3
    <3>2. Feed!Observe(c, t)
      BY <1>2, <3>1 DEF Feed!Observe
    <3> QED
      BY <3>2 DEF Feed!Next
  <2> QED
    BY <2>2, <2>3
<1>3. \A c \in Conns, t \in Topics :
          /\ last[t] \in Nat /\ hi[c][t] <= last[t] /\ last[t] <= tail[t]
          /\ cursor[c][t] \in Nat /\ cursor[c][t] <= tail[t]
  BY <1>a DEF BusTypes, LocalTypes, Bookkeeping, RetainedIsNewest, NothingAhead
<1>4. ASSUME NEW c \in Conns, Forward(c) PROVE hi[c][arg[c]] <= cursor[c][arg[c]]
  <2>1. At(c, "forward") /\ arg[c] \in streams[c] /\ arg[c] \in Topics
    BY <1>4, <1>a DEF Forward, Bookkeeping, HandlerBooks, LocalTypes
  <2>2. hi[c][arg[c]] + 1 <= cursor[c][arg[c]]
    BY <2>1 DEF Gapless, Held
  <2> QED
    BY <1>a, <2>1, <2>2 DEF QueueTypes, LocalTypes
<1> QED
  BY <1>1, <1>2, <1>3, <1>4, QueueSteps

-----------------------------------------------------------------------------
(* The theorems                                                            *)

\* A server that has just started (Bus::new, no connection) satisfies the
\* inductive invariant.
LEMMA InvariantInitially == Init => Inv
<1> SUFFICES ASSUME Init PROVE Inv
  OBVIOUS
<1> USE CapsAreBounds, SubsAreTrees DEF Init, At, PCs, Sending
<1>1. TypeOK
  BY DEF TypeOK, BusTypes, TaskTypes, LocalTypes, EventTypes, QueueTypes
<1>2. Bookkeeping
  BY DEF Bookkeeping, RetainedIsNewest, NothingAhead, HandlerBooks, Running
<1>3. SendFindsTopic /\ Coverage /\ Gapless /\ QueueInOrder
  BY DEF SendFindsTopic, Coverage, Gapless, QueueInOrder
<1> QED
  BY <1>1, <1>2, <1>3 DEF Inv

\* Every step of the bus and the handlers keeps the inductive invariant.
LEMMA InvariantInductive == Inv /\ [Next]_vars => Inv'
<1> SUFFICES ASSUME Inv, [Next]_vars PROVE Inv'
  OBVIOUS
<1>1. TypeOK'
  BY TypeInductive DEF Inv
<1>2. Bookkeeping'
  BY RetainedInductive, AheadInductive, HandlerInductive DEF Inv, Bookkeeping
<1>3. SendFindsTopic' /\ Coverage' /\ Gapless' /\ QueueInOrder'
  BY SendInductive, CoverageInductive, GaplessInductive, OrderInductive DEF Inv
<1> QED
  BY <1>1, <1>2, <1>3 DEF Inv

\* The inductive invariant holds in every reachable state of the server.
LEMMA Invariance == Spec => []Inv
BY InvariantInitially, InvariantInductive, PTL DEF Spec

\* Types, and the channels to the write loops never exceed their capacity, for
\* any number of connections, topics and patterns.
THEOREM TypesHold == Spec => []TypeOK
BY Invariance, PTL DEF Inv

\* The retained message is the newest one, no receiver and no client is ahead
\* of the Bus, and handlers follow existing topics only.
THEOREM BookkeepingHolds == Spec => []Bookkeeping
BY Invariance, PTL DEF Inv

\* Whatever the interleaving of handle_subscribe, create_topic and the event
\* channel, a handler hears of every topic its patterns match, or the event was
\* lost to lag.
THEOREM CoverageHolds == Spec => []Coverage
BY Invariance, PTL DEF Inv

\* Bus::send never returns "Topic not found": the comment in the code holds.
THEOREM SendFindsTopicHolds == Spec => []SendFindsTopic
BY Invariance, PTL DEF Inv

\* Between a topic's channel and a client's queue no message is skipped except
\* by lag and by a last message that try_send() could not queue.
THEOREM GaplessHolds == Spec => []Gapless
BY Invariance, PTL DEF Inv

\* Each client's queue holds the messages of a topic in the order in which
\* Bus::send broadcast them.
THEOREM QueueInOrderHolds == Spec => []QueueInOrder
BY Invariance, PTL DEF Inv

\* README, "at-most-once delivery": while a client follows a topic no message of
\* it is queued for the client twice.
THEOREM AtMostOnceHolds == Spec => AtMostOnce
<1>1. Inv /\ [Next]_vars => [\A c \in Conns : ~Repeats(c)]_vars
  BY OnceStep DEF Inv
<1> QED
  BY <1>1, Invariance, PTL DEF Spec, AtMostOnce

\* The bus with its handlers implements StateFeed: a client sees published
\* states only, and for each topic in the order of publication.
THEOREM ImplementsStateFeed == Spec => FeedSpec
<1>1. Init => Feed!Init
  BY DEF Init, Feed!Init
<1>2. Inv /\ [Next]_vars => [Feed!Next]_Feed!vars
  BY FeedStep DEF Inv
<1> QED
  BY <1>1, <1>2, Invariance, PTL DEF Spec, FeedSpec, Feed!Spec

\* Convergence without the fairness: a handler at rest has queued the newest
\* message of every topic its patterns match, for any capacities, however
\* often its streams have lagged, unless an event was lost or the last message
\* refused.
THEOREM RestingHolds == Spec => []RestingIsUpToDate
<1>1. Init => CatchingUp
  BY DEF Init, CatchingUp, CatchesUp
<1>2. Inv /\ CatchingUp /\ [Next]_vars => CatchingUp'
  BY LagInductive DEF Inv
<1>3. Inv /\ CatchingUp => RestingIsUpToDate
  BY RestingStep
<1> QED
  BY <1>1, <1>2, <1>3, Invariance, PTL DEF Spec

=============================================================================
