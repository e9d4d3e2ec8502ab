------------------------------- MODULE Broker -------------------------------
(***************************************************************************)
(* The message bus and the connection handlers of the server.              *)
(* lbroker/src/server.rs                                                   *)
(*                                                                         *)
(* Every accepted socket gets a task that runs a ConnectionHandler.  The   *)
(* tasks share the Bus: a DashMap of topics, each with a broadcast channel *)
(* and its last message, and one broadcast channel of topic events.  Tasks *)
(* run on several threads, so every access to a shared map or channel is a *)
(* step of its own, and what happens between two of them is a step of      *)
(* somebody else.  What a handler does to its own state needs no step.     *)
(*                                                                         *)
(* The messages of a topic are numbered 1, 2, ... in the order in which    *)
(* they are broadcast.  A broadcast channel is that numbering together     *)
(* with one cursor per receiver (the number of the last message read); the *)
(* channel keeps its newest TopicCap messages.  The events are a log read  *)
(* the same way.  A connection that ended is never reused: a client that   *)
(* comes back is another member of Conns.                                  *)
(***************************************************************************)
EXTENDS Integers, Sequences

CONSTANTS
    Conns,               \* connections that are ever accepted
    Topics, NoTopic,     \* topic names; a value that is none of them
    Patterns,            \* patterns in Subscribe and Unsubscribe commands
    Subs,                \* values a connection's `subscriptions` may take
    EmptySubs,           \* GlobTree::new()
    SubsInsert(_, _),    \* GlobTree::insert
    SubsRemove(_, _),    \* GlobTree::remove
    SubsCheck(_, _),     \* GlobTree::check
    Subscribers,         \* bound: the connections that send Subscribe, Unsubscribe
    Publishers,          \* bound: the connections that send Publish
    MaxSent,             \* bound: no Publish to a topic that has had that many
    TopicCap,            \* messages a topic's broadcast channel keeps
    EventCap,            \* events the topic event channel keeps
    OutCap               \* messages the channel to a write loop holds

ASSUME CapsAreBounds ==
    /\ TopicCap \in Nat \ {0}
    /\ EventCap \in Nat \ {0}
    /\ OutCap \in Nat \ {0}
    /\ MaxSent \in Nat

ASSUME NoTopicIsNoTopic == NoTopic \notin Topics

\* What the handlers rely on: an empty tree matches nothing, and remove()
\* makes nothing match that did not.  GlobTreeProofs!TreesAreSubs proves it of
\* GlobTree for all topics but the empty string.
ASSUME SubsAreTrees ==
    /\ EmptySubs \in Subs
    /\ \A s \in Subs, p \in Patterns : SubsRemove(s, p) \in Subs
    /\ \A s \in Subs, t \in Topics : SubsCheck(s, t) \in BOOLEAN
    /\ \A t \in Topics : ~SubsCheck(EmptySubs, t)
    /\ \A s \in Subs, p \in Patterns, t \in Topics :
          SubsCheck(SubsRemove(s, p), t) => SubsCheck(s, t)

VARIABLES
    \* the Bus
    topics,     \* the keys of Bus.topics
    tail,       \* topic -> number of messages broadcast on it
    last,       \* topic -> number of its last_message, 0 for None
    events,     \* the TopicEvent::Created sent so far
    \* the connection handlers
    pc,         \* where the task stands
    arg,        \* the topic it is working on
    todo,       \* handle_subscribe: topics to list, then to attach
    subs,       \* subscriptions
    streams,    \* keys of topic_streams
    cursor,     \* position of each topic stream
    evpos,      \* position of the topic_events receiver
    muted,      \* the topic event branch of the running select! is disabled
    \* the channels to the write loops
    out,        \* messages on their way to the client
    up,         \* the write loop holds the receiving end
    \* history
    hi,         \* number of the newest message of a topic put into out
    dropped,    \* topics whose last message a full or closed out refused
    lagged,     \* topics whose stream skipped messages
    missed      \* topics whose Created event was skipped

bus     == <<topics, tail, last, events>>
task    == <<pc, arg, todo>>
local   == <<subs, streams, cursor>>
evrecv  == <<evpos, muted>>
writer  == <<out, up>>
history == <<hi, dropped, lagged, missed>>

vars == <<bus, task, local, evrecv, writer, history>>

\* Bus::send in five steps, see CmdPublish.
Sending == {"check", "create", "insert", "announce", "deliver"}

PCs == {"off", "idle", "list", "attach", "newtopic", "forward", "gone"} \cup Sending

Init ==
    /\ topics = {}
    /\ tail = [t \in Topics |-> 0]
    /\ last = [t \in Topics |-> 0]
    /\ events = <<>>
    /\ pc = [c \in Conns |-> "off"]
    /\ arg = [c \in Conns |-> NoTopic]
    /\ todo = [c \in Conns |-> {}]
    /\ subs = [c \in Conns |-> EmptySubs]
    /\ streams = [c \in Conns |-> {}]
    /\ cursor = [c \in Conns |-> [t \in Topics |-> 0]]
    /\ evpos = [c \in Conns |-> 0]
    /\ muted = [c \in Conns |-> FALSE]
    /\ out = [c \in Conns |-> <<>>]
    /\ up = [c \in Conns |-> FALSE]
    /\ hi = [c \in Conns |-> [t \in Topics |-> 0]]
    /\ dropped = [c \in Conns |-> {}]
    /\ lagged = [c \in Conns |-> {}]
    /\ missed = [c \in Conns |-> {}]

-----------------------------------------------------------------------------
(* Helpers                                                                 *)

At(c, label) == pc[c] = label

Goto(c, label) == pc' = [pc EXCEPT ![c] = label]

Work(c, label, t) == Goto(c, label) /\ arg' = [arg EXCEPT ![c] = t]

\* Completing a branch of the select! starts the next one, in which the topic
\* event branch is enabled again.
Unmute(c) == muted' = [muted EXCEPT ![c] = FALSE]

\* Put message n of topic t into the channel to the write loop.
Enqueue(c, t, n) ==
    /\ out' = [out EXCEPT ![c] = Append(@, [topic |-> t, n |-> n])]
    /\ hi' = [hi EXCEPT ![c][t] = n]
    /\ dropped' = [dropped EXCEPT ![c] = @ \ {t}]
    /\ lagged' = [lagged EXCEPT ![c] = @ \ {t}]

\* Fault: the new stream starts at the oldest message the channel keeps.
SubscribeReplays(c, t) ==
    IF t \in streams[c] \/ t \notin topics
    THEN UNCHANGED <<streams, cursor, out, hi, dropped, lagged>>
    ELSE /\ streams' = [streams EXCEPT ![c] = @ \cup {t}]
         /\ cursor' = [cursor EXCEPT ![c][t] =
                          IF tail[t] > TopicCap THEN tail[t] - TopicCap ELSE 0]
         /\ IF last[t] # 0 /\ up[c] /\ Len(out[c]) < OutCap
            THEN Enqueue(c, t, last[t])
            ELSE UNCHANGED <<out, hi, dropped, lagged>>

\* Fault: the last message is not sent to a new subscriber.
SubscribeLiveOnly(c, t) ==
    IF t \in streams[c] \/ t \notin topics
    THEN UNCHANGED <<streams, cursor, out, hi, dropped, lagged>>
    ELSE /\ streams' = [streams EXCEPT ![c] = @ \cup {t}]
         /\ cursor' = [cursor EXCEPT ![c][t] = tail[t]]
         /\ UNCHANGED <<out, hi, dropped, lagged>>

\* ConnectionHandler::subscribe_to_topic.  Under the lock of the topic's
\* shard it gets a receiver that starts at the end of the channel and the
\* last message; try_send() drops that message when the channel is full or
\* closed.
SubscribeToTopic(c, t) ==
    IF t \in streams[c] \/ t \notin topics
    THEN UNCHANGED <<streams, cursor, out, hi, dropped, lagged>>
    ELSE /\ streams' = [streams EXCEPT ![c] = @ \cup {t}]
         /\ cursor' = [cursor EXCEPT ![c][t] = tail[t]]
         /\ \/ /\ last[t] = 0
               /\ UNCHANGED <<out, hi, dropped, lagged>>
            \/ /\ last[t] # 0
               /\ up[c] /\ Len(out[c]) < OutCap
               /\ Enqueue(c, t, last[t])
            \/ /\ last[t] # 0
               /\ ~(up[c] /\ Len(out[c]) < OutCap)
               /\ dropped' = [dropped EXCEPT ![c] = @ \cup {t}]
               /\ UNCHANGED <<out, hi, lagged>>

\* The end of run(): the handler is dropped with everything it owns.
Exit(c) ==
    /\ Goto(c, "gone")
    /\ subs' = [subs EXCEPT ![c] = EmptySubs]
    /\ streams' = [streams EXCEPT ![c] = {}]
    /\ UNCHANGED <<arg, todo, cursor>>

-----------------------------------------------------------------------------
(* The life of a connection                                                *)

\* Server::run accepts a socket; TcpAdapter::new, ConnectionHandler::new.
Connect(c) ==
    /\ At(c, "off")
    /\ Goto(c, "idle")
    /\ evpos' = [evpos EXCEPT ![c] = Len(events)]
    /\ up' = [up EXCEPT ![c] = TRUE]
    /\ UNCHANGED <<bus, arg, todo, local, muted, out, history>>

\* adapter_receiver.recv() returns None: the read loop has ended.
Disconnect(c) ==
    /\ At(c, "idle")
    /\ Exit(c)
    /\ UNCHANGED <<bus, evrecv, writer, history>>

-----------------------------------------------------------------------------
(* Commands                                                                *)

\* handle_subscribe: insert the pattern, then start to iterate over the
\* topics of the bus; the ones there now will all be visited.
CmdSubscribe(c, p) ==
    /\ At(c, "idle")
    /\ SubsInsert(subs[c], p) \in Subs
    /\ subs' = [subs EXCEPT ![c] = SubsInsert(@, p)]
    /\ todo' = [todo EXCEPT ![c] = topics]
    /\ Goto(c, "list")
    /\ Unmute(c)
    /\ UNCHANGED <<bus, arg, streams, cursor, evpos, writer, history>>

\* list_topics() locks one shard of the DashMap after the other, so a topic
\* inserted meanwhile may or may not be seen.
ListTopics(c) ==
    /\ At(c, "list")
    /\ \E found \in SUBSET (topics \ todo[c]) :
          todo' = [todo EXCEPT ![c] = {t \in @ \cup found : SubsCheck(subs[c], t)}]
    /\ Goto(c, "attach")
    /\ UNCHANGED <<bus, arg, local, evrecv, writer, history>>

AttachNext(c) ==
    /\ At(c, "attach")
    /\ \E t \in todo[c] :
          /\ SubscribeToTopic(c, t)
          /\ todo' = [todo EXCEPT ![c] = @ \ {t}]
    /\ UNCHANGED <<bus, pc, arg, subs, evrecv, up, missed>>

AttachDone(c) ==
    /\ At(c, "attach")
    /\ todo[c] = {}
    /\ Goto(c, "idle")
    /\ UNCHANGED <<bus, arg, todo, local, evrecv, writer, history>>

\* handle_unsubscribe: nothing of it is shared with another task.
CmdUnsubscribe(c, p) ==
    /\ At(c, "idle")
    /\ subs' = [subs EXCEPT ![c] = SubsRemove(@, p)]
    /\ streams' = [streams EXCEPT ![c] = {t \in @ : SubsCheck(SubsRemove(subs[c], p), t)}]
    /\ Unmute(c)
    /\ UNCHANGED <<bus, task, cursor, evpos, writer, history>>

\* handle_publish, up to the call of Bus::send.
CmdPublish(c, t) ==
    /\ At(c, "idle")
    /\ tail[t] < MaxSent
    /\ Work(c, "check", t)
    /\ Unmute(c)
    /\ UNCHANGED <<bus, todo, local, evpos, writer, history>>

\* handle_publish when the message cannot be serialized: it is dropped.
CmdPublishFails(c) ==
    /\ At(c, "idle")
    /\ Unmute(c)
    /\ UNCHANGED <<bus, task, local, evpos, writer, history>>

-----------------------------------------------------------------------------
(* Bus::send and Bus::create_topic                                         *)

\* send(): if !contains_key(topic)
SendCheck(c) ==
    /\ At(c, "check")
    /\ Goto(c, IF arg[c] \in topics THEN "deliver" ELSE "create")
    /\ UNCHANGED <<bus, arg, todo, local, evrecv, writer, history>>

\* create_topic(): the second contains_key(topic)
CreateCheck(c) ==
    /\ At(c, "create")
    /\ Goto(c, IF arg[c] \in topics THEN "deliver" ELSE "insert")
    /\ UNCHANGED <<bus, arg, todo, local, evrecv, writer, history>>

\* Fault: insert(topic, TopicData::new()), which replaces what is there.
CreateInsertReplaces(c) ==
    /\ At(c, "insert")
    /\ topics' = topics \cup {arg[c]}
    /\ tail' = [tail EXCEPT ![arg[c]] = 0]
    /\ last' = [last EXCEPT ![arg[c]] = 0]
    /\ Goto(c, "announce")
    /\ UNCHANGED <<events, arg, todo, local, evrecv, writer, history>>

\* Fault: nobody is told of the new topic.
CreateInsertSilent(c) ==
    /\ At(c, "insert")
    /\ topics' = topics \cup {arg[c]}
    /\ Goto(c, "deliver")
    /\ UNCHANGED <<events, tail, last, arg, todo, local, evrecv, writer, history>>

\* entry(topic).or_insert_with(TopicData::new): a topic that another task has
\* inserted since the check keeps its channel and its last message.
CreateInsert(c) ==
    /\ At(c, "insert")
    /\ IF arg[c] \in topics
       THEN UNCHANGED <<topics, tail, last>>
       ELSE /\ topics' = topics \cup {arg[c]}
            /\ tail' = [tail EXCEPT ![arg[c]] = 0]
            /\ last' = [last EXCEPT ![arg[c]] = 0]
    /\ Goto(c, "announce")
    /\ UNCHANGED <<events, arg, todo, local, evrecv, writer, history>>

\* topic_events_tx.send(Created), by whoever ran the insert, new topic or not
Announce(c) ==
    /\ At(c, "announce")
    /\ events' = Append(events, arg[c])
    /\ Goto(c, "deliver")
    /\ UNCHANGED <<topics, tail, last, arg, todo, local, evrecv, writer, history>>

\* Fault: only the first message of a topic is retained.
DeliverKeepsFirst(c) ==
    /\ At(c, "deliver")
    /\ tail' = [tail EXCEPT ![arg[c]] = @ + 1]
    /\ last' = [last EXCEPT ![arg[c]] = 1]
    /\ Goto(c, "idle")
    /\ UNCHANGED <<topics, events, arg, todo, local, evrecv, writer, history>>

\* send(): get_mut(topic), set_last_message and broadcast under its lock
Deliver(c) ==
    /\ At(c, "deliver")
    /\ IF arg[c] \in topics
       THEN /\ tail' = [tail EXCEPT ![arg[c]] = @ + 1]
            /\ last' = [last EXCEPT ![arg[c]] = tail[arg[c]] + 1]
       ELSE UNCHANGED <<tail, last>>                 \* Err("Topic not found")
    /\ Goto(c, "idle")
    /\ UNCHANGED <<topics, events, arg, todo, local, evrecv, writer, history>>

-----------------------------------------------------------------------------
(* Topic events                                                            *)

\* topic_events.recv() is Ok
EventOk(c) ==
    /\ At(c, "idle") /\ ~muted[c]
    /\ Len(events) - evpos[c] \in 1 .. EventCap
    /\ Work(c, "newtopic", events[evpos[c] + 1])
    /\ evpos' = [evpos EXCEPT ![c] = @ + 1]
    /\ UNCHANGED <<bus, todo, local, muted, writer, history>>

\* topic_events.recv() is Err(Lagged): the receiver moves to the oldest event
\* kept, the pattern Ok(event) does not match, and select! goes on without
\* this branch until another one completes.
EventLagged(c) ==
    /\ At(c, "idle") /\ ~muted[c]
    /\ Len(events) - evpos[c] > EventCap
    /\ evpos' = [evpos EXCEPT ![c] = Len(events) - EventCap]
    /\ missed' = [missed EXCEPT ![c] =
                    @ \cup {events[i] : i \in evpos[c] + 1 .. Len(events) - EventCap}]
    /\ muted' = [muted EXCEPT ![c] = TRUE]
    /\ UNCHANGED <<bus, task, local, writer, hi, dropped, lagged>>

\* handle_topic_event, handle_new_topic
NewTopic(c) ==
    /\ At(c, "newtopic")
    /\ IF SubsCheck(subs[c], arg[c])
       THEN SubscribeToTopic(c, arg[c])
       ELSE UNCHANGED <<streams, cursor, out, hi, dropped, lagged>>
    /\ Goto(c, "idle")
    /\ UNCHANGED <<bus, arg, todo, subs, evrecv, up, missed>>

-----------------------------------------------------------------------------
(* Messages                                                                *)

\* topic_streams.next() returns the next message of topic t.
StreamOk(c, t) ==
    /\ At(c, "idle") /\ t \in streams[c]
    /\ tail[t] - cursor[c][t] \in 1 .. TopicCap
    /\ cursor' = [cursor EXCEPT ![c][t] = @ + 1]
    /\ Work(c, "forward", t)
    /\ Unmute(c)
    /\ UNCHANGED <<bus, todo, subs, streams, evpos, writer, history>>

\* Fault: a stream that lags is given up.
StreamLaggedEnds(c, t) ==
    /\ At(c, "idle") /\ t \in streams[c]
    /\ tail[t] - cursor[c][t] > TopicCap
    /\ streams' = [streams EXCEPT ![c] = @ \ {t}]
    /\ lagged' = [lagged EXCEPT ![c] = @ \cup {t}]
    /\ Unmute(c)
    /\ UNCHANGED <<bus, task, subs, cursor, evpos, writer, hi, dropped, missed>>

\* Fault: a stream that lags starts again at the end of the channel.
StreamLaggedResubscribes(c, t) ==
    /\ At(c, "idle") /\ t \in streams[c]
    /\ tail[t] - cursor[c][t] > TopicCap
    /\ cursor' = [cursor EXCEPT ![c][t] = tail[t]]
    /\ lagged' = [lagged EXCEPT ![c] = @ \cup {t}]
    /\ Unmute(c)
    /\ UNCHANGED <<bus, task, subs, streams, evpos, writer, hi, dropped, missed>>

\* topic_streams.next() returns Err(Lagged): the receiver moves to the oldest
\* message the channel keeps; the handler only logs a warning.
StreamLagged(c, t) ==
    /\ At(c, "idle") /\ t \in streams[c]
    /\ tail[t] - cursor[c][t] > TopicCap
    /\ cursor' = [cursor EXCEPT ![c][t] = tail[t] - TopicCap]
    /\ lagged' = [lagged EXCEPT ![c] = @ \cup {t}]
    /\ Unmute(c)
    /\ UNCHANGED <<bus, task, subs, streams, evpos, writer, hi, dropped, missed>>

\* Fault: the handler does not wait for room in the channel.
ForwardUnbounded(c) ==
    /\ At(c, "forward")
    /\ up[c]
    /\ Enqueue(c, arg[c], cursor[c][arg[c]])
    /\ Goto(c, "idle")
    /\ UNCHANGED <<bus, arg, todo, local, evrecv, up, missed>>

\* forward_message_to_client: send().await waits for room in the channel.
Forward(c) ==
    /\ At(c, "forward")
    /\ up[c] /\ Len(out[c]) < OutCap
    /\ Enqueue(c, arg[c], cursor[c][arg[c]])
    /\ Goto(c, "idle")
    /\ UNCHANGED <<bus, arg, todo, local, evrecv, up, missed>>

\* ... and fails once the write loop has dropped the receiver.
ForwardFails(c) ==
    /\ At(c, "forward")
    /\ ~up[c]
    /\ Exit(c)
    /\ UNCHANGED <<bus, evrecv, writer, history>>

-----------------------------------------------------------------------------
(* The other end of the channel (the write loop itself is WriteLoop)       *)

WriterTake(c) ==
    /\ up[c] /\ out[c] # <<>>
    /\ out' = [out EXCEPT ![c] = Tail(@)]
    /\ UNCHANGED <<bus, task, local, evrecv, up, history>>

WriterFails(c) ==
    /\ up[c]
    /\ up' = [up EXCEPT ![c] = FALSE]
    /\ out' = [out EXCEPT ![c] = <<>>]
    /\ UNCHANGED <<bus, task, local, evrecv, history>>

-----------------------------------------------------------------------------
(* Specification                                                           *)

\* The steps a handler's task takes without waiting for anybody.
Proceed(c) ==
    \/ ListTopics(c) \/ AttachNext(c) \/ AttachDone(c)
    \/ SendCheck(c) \/ CreateCheck(c) \/ CreateInsert(c) \/ Announce(c) \/ Deliver(c)
    \/ NewTopic(c)

Command(c) ==
    \/ c \in Subscribers /\ \E p \in Patterns : CmdSubscribe(c, p) \/ CmdUnsubscribe(c, p)
    \/ c \in Publishers /\ \E t \in Topics : CmdPublish(c, t)
    \/ c \in Publishers /\ CmdPublishFails(c)

Event(c) == EventOk(c) \/ EventLagged(c)

Stream(c, t) == StreamOk(c, t) \/ StreamLagged(c, t)

Write(c) == Forward(c) \/ ForwardFails(c)

Next ==
    \E c \in Conns :
        \/ Connect(c) \/ Disconnect(c)
        \/ Command(c) \/ Proceed(c)
        \/ Event(c) \/ (\E t \in Topics : Stream(c, t))
        \/ Write(c) \/ WriterTake(c) \/ WriterFails(c)

Spec == Init /\ [][Next]_vars

\* A task that can run is run (the multi-threaded tokio scheduler).  select!
\* starts with a random branch and StreamMap with a random stream, so a branch
\* that is ready again and again is taken.  Clients owe nothing: they send, read,
\* leave and break as they like, so WriterTake is not here (see Reads).
Fairness ==
    \A c \in Conns :
        /\ WF_vars(Proceed(c))
        /\ WF_vars(Write(c))
        /\ SF_vars(Event(c))
        /\ \A t \in Topics : SF_vars(Stream(c, t))

FairSpec == Spec /\ Fairness

-----------------------------------------------------------------------------
(* Properties                                                              *)

Running(c) == pc[c] \notin {"off", "gone"}

Message == [topic : Topics, n : Nat]

BusTypes ==
    /\ topics \subseteq Topics
    /\ tail \in [Topics -> Nat]
    /\ last \in [Topics -> Nat]
    /\ events \in Seq(Topics)

TaskTypes ==
    /\ pc \in [Conns -> PCs]
    /\ arg \in [Conns -> Topics \cup {NoTopic}]
    /\ todo \in [Conns -> SUBSET Topics]

LocalTypes ==
    /\ subs \in [Conns -> Subs]
    /\ streams \in [Conns -> SUBSET Topics]
    /\ cursor \in [Conns -> [Topics -> Nat]]

EventTypes ==
    /\ evpos \in [Conns -> Nat]
    /\ muted \in [Conns -> BOOLEAN]
    /\ missed \in [Conns -> SUBSET Topics]

QueueTypes ==
    /\ out \in [Conns -> Seq(Message)]
    /\ up \in [Conns -> BOOLEAN]
    /\ hi \in [Conns -> [Topics -> Nat]]
    /\ dropped \in [Conns -> SUBSET Topics]
    /\ lagged \in [Conns -> SUBSET Topics]
    /\ \A c \in Conns : Len(out[c]) <= OutCap

\* Types; the channel to a write loop never holds more than its capacity.
TypeOK == BusTypes /\ TaskTypes /\ LocalTypes /\ EventTypes /\ QueueTypes

RetainedIsNewest ==
    \A t \in Topics : last[t] = tail[t] /\ (t \notin topics => tail[t] = 0)

NothingAhead ==
    \A c \in Conns :
        /\ evpos[c] <= Len(events)
        /\ \A t \in Topics : hi[c][t] <= tail[t] /\ cursor[c][t] <= tail[t]

HandlerBooks(c) ==
    /\ streams[c] \subseteq topics
    /\ ~Running(c) => subs[c] = EmptySubs /\ streams[c] = {}
    /\ pc[c] \in Sending \cup {"newtopic"} => arg[c] \in Topics
    /\ At(c, "forward") => arg[c] \in streams[c]

\* The pieces agree: the retained message is the newest one broadcast, no
\* cursor is ahead of its channel, a client was sent nothing that was not
\* broadcast, streams are on existing topics, the message in a handler's hand
\* is of a topic it still follows, and a handler that ended follows nothing.
Bookkeeping ==
    /\ RetainedIsNewest
    /\ NothingAhead
    /\ \A c \in Conns : HandlerBooks(c)

EventPending(c, t) == \E i \in evpos[c] + 1 .. Len(events) : events[i] = t

AboutToBeAnnounced(t) == \E c \in Conns : At(c, "announce") /\ arg[c] = t

Covered(c, t) ==
    \/ t \in streams[c]
    \/ pc[c] \in {"list", "attach"} /\ t \in todo[c]
    \/ At(c, "newtopic") /\ arg[c] = t
    \/ EventPending(c, t)
    \/ AboutToBeAnnounced(t)
    \/ t \in missed[c]

\* A handler hears of every topic that matches its subscriptions, whatever the
\* order of subscribe, create and announce: it reads the topic's stream, or
\* what will make it do so is under way (its own listing, an event it has not
\* read, a task about to announce), or the event was lost to lag.
Coverage == \A c \in Conns, t \in topics : SubsCheck(subs[c], t) => Covered(c, t)

\* Bus::send never finds its topic gone: the comment "Shouldn't happen after
\* creation above" holds, with any number of tasks creating the same topic.
SendFindsTopic ==
    \A c \in Conns : pc[c] \in {"announce", "deliver"} => arg[c] \in topics

\* The message of topic t that forward_message_to_client is sending, if any.
Held(c, t) == IF At(c, "forward") /\ arg[c] = t THEN 1 ELSE 0

\* A stream has no silent gap: everything broadcast on a topic since the
\* client has followed it, from the last message on, was queued for the
\* client or is in the handler's hand, up to the stream's cursor.  Only lag
\* and a refused last message open a gap, and the next message closes it.
Gapless ==
    \A c \in Conns : \A t \in streams[c] :
        /\ hi[c][t] + Held(c, t) <= cursor[c][t]
        /\ t \notin dropped[c] \cup lagged[c] => hi[c][t] + Held(c, t) = cursor[c][t]

\* Nothing about topic t is left for the handler to do.
Drained(c, t) ==
    /\ At(c, "idle")
    /\ evpos[c] = Len(events) /\ ~AboutToBeAnnounced(t)
    /\ t \in streams[c] => cursor[c][t] = tail[t]

\* A handler that rests has queued the newest message of every topic that
\* matches, a lag before that notwithstanding: what a lagging stream keeps is
\* the newest.  Only a lost event and a refused last message leave a client
\* behind for good.
RestingIsUpToDate ==
    \A c \in Conns, t \in topics :
        /\ SubsCheck(subs[c], t) /\ Drained(c, t)
        /\ t \notin missed[c] \cup dropped[c]
        => hi[c][t] = last[t]

\* The messages of a topic wait for the client in the order in which they were
\* broadcast, a last message sent on subscribing and a live one included.
QueueInOrder ==
    \A c \in Conns :
        /\ \A i \in 1 .. Len(out[c]) : out[c][i].n \in 1 .. hi[c][out[c][i].topic]
        /\ \A i, j \in 1 .. Len(out[c]) :
              i < j /\ out[c][i].topic = out[c][j].topic => out[c][i].n <= out[c][j].n

\* The step queues a message of a topic that the client follows and has had.
Repeats(c) ==
    /\ Len(out'[c]) > Len(out[c])
    /\ LET m == out'[c][Len(out'[c])]
       IN  m.topic \in streams[c] /\ m.n <= hi[c][m.topic]

\* "lbroker promises at-most-once delivery" (README): while a client follows a
\* topic each message is queued for it at most once, the last message it got on
\* subscribing included.  Only subscribing again sends a message again.
AtMostOnce == [][\A c \in Conns : ~Repeats(c)]_vars

\* The client is connected and subscribed, and was refused nothing.
Follows(c, t) ==
    /\ Running(c) /\ up[c]
    /\ t \in topics /\ SubsCheck(subs[c], t)
    /\ t \notin dropped[c] /\ missed[c] = {}

\* No handler is publishing on the topic.
Quiet(t) == \A c \in Conns : arg[c] = t => pc[c] \notin Sending

\* The client reads: as long as messages wait for it, the write loop takes one
\* after the other.
Reads(c) == WF_vars(WriterTake(c))

\* A broker of states: a client that stays subscribed to a topic and keeps
\* reading has the newest message once publishing on the topic has stopped, and
\* keeps it, in spite of lag, of topics created while it subscribes and of other
\* tasks creating the same topic.  Lost events and refused last messages are
\* excepted.  While others go on publishing there may always be a newer one.
Convergence ==
    \A c \in Conns : Reads(c) =>
        \A t \in Topics :
            <>[](Follows(c, t) /\ Quiet(t)) => <>[](hi[c][t] = last[t])

Feed == INSTANCE StateFeed WITH Clients <- Conns, latest <- tail, seen <- hi

\* What a client observes of a topic: a sequence of states that only moves
\* forward and holds nothing that was not published.
FeedSpec == Feed!Spec

-----------------------------------------------------------------------------
(* What the documentation says and the code does not do                    *)

\* "The client will receive messages on topics matching that pattern"
\* (docs/protocol.md): a subscribed client that reads, and whose connection is not
\* broken, comes to follow every such topic.
EveryMatchIsFollowed ==
    \A c \in Conns : Reads(c) =>
        \A t \in Topics :
            (Running(c) /\ t \in topics /\ SubsCheck(subs[c], t))
                ~> \/ t \in streams[c]
                   \/ ~Running(c) \/ ~up[c] \/ ~SubsCheck(subs[c], t)

=============================================================================
