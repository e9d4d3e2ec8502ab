# A TLA+ model of lbroker

lbroker is a pub/sub broker of *states*: clients publish values on topics and
subscribe to glob patterns of topics; the server keeps the last value of every
topic and drops messages for clients that are too slow. This directory models
the broker and its Rust client, checks the models with TLC on small instances
and proves the safety properties of all of them with TLAPS for every size. Paths
below are relative to the repository.

## 1. The system

A connection consists of three tokio tasks on a multi-threaded runtime, joined
by bounded channels; all connections share one `Bus` and three metric tasks. The
`Client` at the other end of the socket has two more tasks and two channels.

```
            in channel                    out channel
 socket --> read loop --> ConnectionHandler --> write loop --> socket
                            |    ^    ^
       create, send, list   |    |    |  topic events, topic streams
                            v    |    |  (broadcast channels)
                            Bus -+----+
                            |
 ConnectionHandler --> metric channels --> Count, Throughput tasks
```

| Component | State | Operations | What makes it correct |
|---|---|---|---|
| `GlobTree` (`glob_tree/src/lib.rs`) | a trie of chars with reference counts | `insert`, `remove`, `check`, `contains`, `list` | matching agrees with the listed patterns; counts never run out; nothing matches that nobody inserted; `remove` only shrinks |
| `Bus` (`lbroker/src/server.rs`) | `DashMap` topic -> broadcast channel + last message; one channel of topic events | `send`, `create_topic`, `subscribe`, `list_topics` | concurrent creation destroys nothing; the last message is the newest one; nobody who matches misses a topic |
| `ConnectionHandler` | subscriptions, one stream per matching topic, a receiver of topic events | `run` (a `select!`), `handle_subscribe`, `handle_unsubscribe`, `handle_publish`, `handle_new_topic`, `forward_message_to_client` | every matching topic is followed; in order, without repetition, without silent gaps; the client converges to the last state |
| `TcpAdapter` write loop | the `out` channel, a `BufWriter`, an interval | receive, write, flush per `FlushStrategy` | nothing lost, doubled, reordered, or left in the buffer; it ends |
| `TcpAdapter` read loop, `MsgPackCodec` (`interface.rs`) | a byte buffer, the `in` channel | decode, forward | every command once and in order; errors end the connection |
| buffer configuration (`main.rs`, `buffer_config.rs`) | the command line | choice of size and strategy | flags mean what `--help` says |
| Metrics (`metrics.rs`) | a value and a channel per metric | `add`, `subtract`, `increment`, `listen`, `log_metric`, `reset` | the gauge is the number of connections; no increment lost or counted twice; nobody blocked for ever |
| `Server::run` | listener | accept, spawn | each socket gets its tasks; clients notice when it ends |
| `Client` (`client.rs`) | two tasks, two channels | `publish`, `subscribe`, `unsubscribe`, `recv` | order is kept; calls return as long as the application receives; `recv` ends with the connection; dropping the last handle brings both sides down |

What is hard here: tasks of different connections interleave between any two
accesses of the shared map (`create_topic` checks and inserts in two steps,
listing is not a snapshot); events arrive long after they were sent; broadcast
channels overrun slow readers; `try_send` drops; a handler waiting for room in
one channel serves no other, so a full channel holds back the one behind it, up
to the application; bytes arrive in pieces of any size and may end in the middle
of a value; either process may go away at any time; `BufWriter` buffers and does not flush on drop;
`select!` cancels branches and disables those whose pattern does not match.
`PROJECT.json` lists each of these hazards at its line with the properties that
watch over it.

## 2. The modules

| Module | Models | Used by |
|---|---|---|
| `GlobTree` | the trie, as a function from nodes (character sequences) to counts, and its operations as operators; `GlobFits` is the reference definition of a match, `GlobMatches` the one with a star as the code takes it | `PatternStore`, `MCBroker` |
| `PatternStore` | one tree under any sequence of `insert` and `remove` | |
| `Broker` | the `Bus`, all `ConnectionHandler`s and the channels to the write loops | |
| `StateFeed` | the abstract promise: per topic a latest state, per client a position that only moves forward | refined by `Broker` |
| `WriteLoop` | `spawn_write_loop` with `BufWriter`, socket errors and every configuration of the command line | |
| `ReadLoop` | `spawn_read_loop` with `FramedRead` and `MsgPackCodec`, over a stream of bytes | |
| `Connection` | application, `Client` and its tasks, socket, read loop, handler and write loop of one connection, composed | |
| `Pipe` | the abstract promise of one direction: first in, first out, nothing lost in between | refined twice by `Connection` |
| `Metrics` | `Count`, `Throughput`, their mutators and channels, and the awaits on them in the handlers | |
| `BrokerProofs`, `WriteLoopProofs`, `MetricsProofs`, `ReadLoopProofs`, `ConnectionProofs`, `PatternStoreProofs` | proofs about the module of that name | |
| `GlobTreeProofs` | proofs about the operators of `GlobTree`, for any tree | `PatternStoreProofs` |
| `Lemmas` | prefixes of sequences, least and greatest elements, recursive functions, sums over sequences and finite sets, `FlattenSeq` | the proofs |
| `MC*` | constants for TLC (`Metrics` and `ReadLoop` need none) | |

Definitions named "Fault: ..." in the modules are plausible wrong versions of
the definition that follows them. They are not part of any specification; each
one is used to confirm that a property fails when the code goes wrong.

### GlobTree and PatternStore

A node is the sequence of characters that leads to it, a tree maps its nodes to
their `count`. `TreeInsert` adds one to every node on the path and one more to
the last, as `insert` does; `IsTerminal` compares a node's count with the sum of
its children's; `TreeRemove` cuts the first node on the path that has count 1
with everything below it and decrements the others; `MatchString` is
`_match_string_worker` with its backtracking, as a recursive function. Patterns
are sequences of characters while the matcher sees bytes: `Utf8` gives the bytes
of a character, read back `as char` one by one. A node is entered with a byte of the
string and takes it, so a star stands for one byte or more. `CheckAgreesWithList`
and the proofs are about that meaning (`GlobMatches`); the one of the crate's
documentation, under which a star stands for nothing as well, is
`CheckAsDocumented`, and the run `PatternStar` refutes it.

The node of the empty pattern is the root, and the root's count does not include
the patterns below it. So with a pattern below the root the empty pattern, though
inserted, is not contained, and `remove` of the other one brings it back. That is
the exception in `RemoveOnlyShrinks`; it concerns the empty string alone.

### Broker

The messages of a topic are numbered in the order in which they are broadcast.
A broadcast channel is then a number (`tail`) with one `cursor` per receiver; a
receiver lags when it is more than `TopicCap` behind. `events` is the log of
`Created` events, read in the same way with `evpos`. The payload does not matter
to any property.

Every access to the shared map or to a shared channel is one action; what a
handler does to its own state happens together with such an access. A handler's
`pc` says where its task stands:

| pc | code | actions |
|---|---|---|
| `off`, `gone` | before accept, after `run()` | `Connect`, `Disconnect`, `ForwardFails` |
| `idle` | in the `select!` | `CmdSubscribe`, `CmdUnsubscribe`, `CmdPublish`, `CmdPublishFails`, `EventOk`, `EventLagged`, `StreamOk`, `StreamLagged` |
| `list`, `attach` | `handle_subscribe`: shard by shard, then topic by topic | `ListTopics`, `AttachNext`, `AttachDone` |
| `check` | `send`: `contains_key` | `SendCheck` |
| `create`, `insert`, `announce` | `create_topic`: `contains_key`, `entry().or_insert_with`, the event | `CreateCheck`, `CreateInsert`, `Announce` |
| `deliver` | `send`: `get_mut`, set the last message and broadcast under the lock | `Deliver` |
| `newtopic` | `handle_new_topic` | `NewTopic` |
| `forward` | `forward_message_to_client`, waiting for room | `Forward`, `ForwardFails` |

`SubscribeToTopic` is `subscribe_to_topic`: receiver and last message are taken
under the lock of the shard, and `try_send` drops the last message if the
channel is full. An event lag disables the event branch of the running
`select!` until another branch completes (`muted`), as `Ok(event) = ...` does.
The write loop appears as `WriterTake` and `WriterFails`; `hi`, `dropped`,
`lagged` and `missed` are history variables that no guard reads.

The pattern tree is a parameter (`Subs`, `SubsInsert`, `SubsRemove`,
`SubsCheck`). TLC runs use `GlobTree` itself; the proofs know only
`SubsAreTrees`: an empty tree matches nothing, and `remove` makes nothing match
that did not match before. TLC evaluates that assumption for `GlobTree` in
every Broker run, and `GlobTreeProofs!TreesAreSubs` proves it of `GlobTree` for all
patterns and for every topic but the empty string.

### WriteLoop

`cli` is chosen once from every combination of flags, `BufferConfig` is the
choice `main()` makes. `pc` follows the loop: `start` (the interval is created
and panics if its period is 0), `select`, `write` (`MakeRoom`, `WriteAll` are the
two halves of `BufWriter::write_all`), `written` (flush now?), `flush`, `end`.
`SocketFails` writes any part of what was due and ends the loop. Sizes are in
KB. A message as large as the buffer bypasses it; if the socket takes only a part,
a rest that fits is buffered (`Remainders`). A socket error may cut the last message
in the middle of its bytes; `wire` counts whole messages.

### ReadLoop

Bytes are counted, not spelled out: a frame is the stretch of the stream that a
value takes (`from`, `to`), `read` is how far `FramedRead` has read and `pos` how
far the codec has consumed. `Fill(n)` reads any number of the bytes that are
there. What `decode` returns depends on the frame at `pos`: a command that is
there in full is decoded, garbage is an error as soon as its bytes are there, and
everything else is `Ok(None)`: a frame that is incomplete, and a complete one of
the wrong length (`misfit`), because `LengthMismatch` is listed with the two errors
that mean missing bytes. `fr` follows `FramedRead`: after a value it tries the
buffer again before it reads; after an error, its own or the codec's, it returns
`None`; at the end of the stream the codec gets one more chance and bytes that
are left over are an error (`DecodeRest`). An item in `hand` is one the loop waits
to put into the `in` channel; without a handler it is thrown away (`SendFails`).

### Connection

The five tasks of a connection are the members of `alive`, the four mpsc channels
and the two directions of the socket the fields of `chan`. Four of the tasks do
nothing but pass items on; `Move` is their loop once around. An item such a task
holds is counted as still being in the channel it came from, which makes that
channel one item shorter and changes nothing else: the task holds it until there
is room or its target is gone. Items of the socket may likewise be in the kernel
or in the buffer of `FramedRead`, so after a reset they may or may not still be
passed on. The handler holds its message in `hand`: while it does, it takes
no command.

The handler is the one of `Broker`, reduced to one topic that exists: `subs` is
how often its pattern is held, `backlog` the number of messages in the topic's
channel, where `TopicCap + 1` stands for "has lagged". That a pattern is held until
it was removed as often as inserted is right of `GlobTree` for a pattern of two
characters or more that has the tree for itself; one of a single character stays
(`PatternHeld`), and the client then goes on being sent the topic. Messages are numbered in
the order in which they are queued for the client.

Tasks end the way the code ends them: `recv()` or `next()` is `None` when all
senders are dropped and the channel is empty (`WriterNone`, `HandlerNone`,
`ReaderNone`, `RLoopNone`, `WLoopElse`); an `expect()` fails (`WriterPanics`,
`ReaderPanics`, `CallPanics`, which takes the calling task's handle with it);
`break` (`ForwardFails`, `WLoopFails`). A write to a peer that has closed its
socket succeeds once and is answered by a reset (`WriteIsReset`). `ConnectionBreaks`
is a reset by the network, `ServerDies` the end of `Server::run` after an error of
`accept()`, `ClientDies` the end of the application's process. The application
gives the commands of `Program` one call at a time, with either handle, receives
or does not, and drops its handles when it likes; `test_client` (subscribe, then
publish with a clone and receive with the original) is one such application.

### Metrics

A handler's `pc` says on which channel it waits. `CountListen` computes modulo
`Modulus`, in the code 2^64, so that a subtraction below zero would show.
`RateLog` is `log_metric` with the `reset` it calls. `RateListen` is one step: nothing
is awaited between `recv()` and the increment, so the sleep of `listen_and_log` cannot
cut in there; that a cancelled `recv()` has taken nothing is what tokio promises and
is assumed, not checked. The rate per second
(floating point and wall clock) is left out.

## 3. The runs

Passing runs (TLC explores the whole bounded state space):

| Run | Shows | Bounds |
|---|---|---|
| `PatternStore` | types, `NoDeadBranches`, `CheckAgreesWithList`, `NoPhantomPatterns`, `RemoveOnlyShrinks`, `InsertKeepsOthers` | five overlapping patterns with both wildcards, the empty one among them, ten strings, two of them longer in bytes than in characters, each pattern held once, counts up to 4 |
| `BrokerTopics` | `Coverage` | two topics, two overlapping patterns, one subscriber, one publisher, capacity 1 |
| `BrokerQueue` | types, `Bookkeeping`, refinement of `StateFeed`, `Gapless`, `QueueInOrder`, `AtMostOnce`, `RestingIsUpToDate`; `Convergence` under fairness | two connections that publish on, and race to create, one topic, one of them the subscriber; capacity 2 for the topic and the out channel, so that a queue has an order, 1 for the events; up to three messages, so that the subscriber can lag |
| `WriteLoop` | types, `Conserved`, `NothingStuck`, `NothingLostAtTheEnd`; `Delivered`, `LoopEnds` under fairness | every mode and flush flag, a buffer of 0, 4 or the default, interval 0 or not, messages that fit and messages that bypass, three messages, channel of 2 |
| `Metrics` | types, `CountAgrees`, `RatesAgree`; `Unblocked`, `AllLogged` under fairness | three connections, one throughput, channels of 2, which three connections can fill |
| `ReadLoop` | types, `Framed`, `RestsWhenDone`, `LoopWearsOff`; `Arrives`, `LoopEnds` under fairness | three frames of one or two bytes of every kind, delivered in any pieces; channel of 1 |
| `Connection` | types, `NoCircularWait`, `TasksWearOff`; refinement of `Pipe` in both directions; `CallsReturn`, `RecvEnds`, `Teardown` under fairness | every channel and each direction of the socket holds 1; five commands and four messages, just enough to fill everything between a call and the handler and between the handler and `recv` |

Runs that end with a counterexample: what the code does differs from what its
documentation, comments or tests say.

| Run | The statement | What happens |
|---|---|---|
| `PatternHeld` | the tree contains what was inserted and not removed (`test_contains`, `test_remove`, `docs/protocol.md`) | the last node of a pattern is counted twice, its ancestors once, so `remove` leaves a one-character pattern such as `*` in place; by the same count `a*` inserted twice hides a later `a`, and after `aa` and `ab` a second `remove` of `aa` takes `ab` with it; the run leaves out the empty pattern, which has its own trouble (section 2) |
| `PatternStar` | `*` matches "any characters any number of times" (the documentation of the crate) | a star never stands for nothing: `*b` does not match `b`, nor `a*` the string `a`; the strings of the run are ASCII, so that nothing else gets in the way |
| `BrokerEventLag` | "The client will receive messages on topics matching that pattern" | a `Created` event lost to lag is never made up for |
| `WriteLoopOpen` | `recv` returns `None` "when the connection has closed" | with a periodic flush, the default, the loop outlives its handler and keeps the socket open, one file descriptor for every client that ever disconnected |
| `ReadLoopMisfit` | data that is no command is an error (`receives_bad_data`) | a value of the wrong length is taken for an incomplete one: the connection stays open and deaf, and its buffer grows |

Smaller disagreements are visible in the definitions and have no run: patterns are stored by char and strings compared by byte,
so a pattern with a character outside ASCII does not match itself (`AsBytes`);
the last message is put into a full channel with `try_send` and dropped, where
the README says it is sent immediately (`SubscribeToTopic`; `Gapless` allows for
it); two tasks that pass the check in `create_topic` together both announce the
topic, which is harmless because the insert keeps what is there (`CreateInsert`,
`Announce`); a lagging cursor moves to the oldest message kept, where the README
says the most recent one (`StreamLagged`); with `--mode` the flags that claim to
override it are ignored (`BufferConfig`); `recv` is said to return `None` after a
timeout, and there is none (`Recv`).

The exception `Unread` in `NoCircularWait` is needed: with five commands and four
messages TLC reaches the state in which all six channels are full, the handler waits
for room and a call waits behind it. The server never drops such a client; only the
application can end the wait, by receiving (`CallsReturn`) or by dropping the
handle with the receiver, after which the reader discards (`Teardown`). `Ready` in
that invariant spells out the guards of the tasks; were one of them too generous,
TLC would find the tasks at rest too early under `CallsReturn`, `RecvEnds` and
`Teardown`, whose fairness is that of the actions themselves.

### Bounds

The capacities are 100 000 in the code (and 131 072 for broadcast channels,
which tokio rounds up to a power of two). With capacity 1 or 2 the full, empty
and overrun cases all happen within a few messages; capacities appear in guards
only, by comparison with a length. `MaxSent` bounds the messages of a topic and
lets `tail` exceed the capacity wherever lag matters: a `Publish` that has passed
the guard is delivered even if the bound is reached meanwhile, so with two
publishers `tail` goes up to `MaxSent` + 1. `MaxCount` bounds the counts of a tree, `MaxHeld` the
holds of a pattern, `MaxUpdates` the increments of a metric, `MaxFrames` the
frames a client writes, `MaxMessages` the messages others publish to the topic of
a connection. Runs say
`CHECK_DEADLOCK FALSE` where clients may simply all leave. No run uses symmetry.

### Fairness

* `WF` of a task that can proceed: the tokio scheduler runs ready tasks.
* `SF` of each branch of a handler's `select!` and of each stream: `select!`
  polls from a random branch and `StreamMap` from a random stream, so a branch
  that is ready again and again is eventually taken, even if others are ready
  each time.
* `WF(Run)` in `WriteLoop`: the task is run, and the client reads or its socket
  fails. `SF(Tick)`, `SF(Recv)`: the same argument for that `select!`.
* `SF(Await)` in `Metrics`: tokio's bounded mpsc channel serves waiting senders
  in turn.
* `WF(Loop)` in `ReadLoop`: the task is run. Nothing is assumed of the handler: one
  that waits for room in its outgoing channel takes no commands until the client has
  read. `Arrives`, `LoopEnds` and `MisfitEnds` say in their premise that it receives
  (`HandlerReceives`). Of `LoopEnds` that asks little where the client is gone, since
  the failing write loop then ends the handler, which `Connection` checks (`Teardown`).
* In `Connection`: `WF` of each of the four passing tasks, of a handler that
  forwards and of a call that waits for room; `SF` of the command branch of the
  `select!`, which competes with the stream. None of `Recv`, `Call` and
  `DropHandle`: `CallsReturn` says in its premise that the application receives.
* Nothing is assumed of clients: commands, disconnects and failures need not
  happen, nor need a client read: that is a premise of the properties that need
  it, `Reads` in `Broker`. `Convergence` speaks about clients that stay connected and
  read, and about topics on which publishing has stopped (`Quiet`); while it goes on,
  a message may always be followed by a newer one before it is queued. The bound
  `MaxSent` makes publishing stop in every behaviour TLC explores, which the premise
  makes part of the claim.

## 4. The proofs

Everything below holds for any set of connections, topics and patterns and any
capacities, under the named assumptions in the modules.

`BrokerProofs` (from `CapsAreBounds`, `NoTopicIsNoTopic`, `SubsAreTrees`):
`TypesHold`, `BookkeepingHolds`, `CoverageHolds`, `SendFindsTopicHolds`,
`GaplessHolds`, `QueueInOrderHolds`, `AtMostOnceHolds`, `RestingHolds`,
`ImplementsStateFeed`. `SendFindsTopic`, the comment "Shouldn't happen after creation
above" in `send`, is proved only; no run lists it.
The inductive invariant is the conjunction of the six invariants: `Coverage` has
to know that streams are on existing topics and which topic an event in a
handler's hand is about (`Bookkeeping`); `Gapless` that the retained message is
the newest one (`Bookkeeping`), so that a new stream continues exactly behind it;
`QueueInOrder` that a message to be queued is not older than those in the queue
(`Gapless`). The proof has one lemma per invariant and, within it, a step per
action. `AtMostOnce` and the refinement follow from the invariant step by step:
what is queued for a topic that is followed is newer than `hi`, so `hi` grows;
subscribing again may send the same last message again, which leaves `hi` where
it is, and there the abstract specification stutters.

`RestingHolds` is the part of `Convergence` that is a matter of safety: a handler
with nothing left to do is not behind. It follows from `Coverage` (the topic is
followed or its event was lost), `Gapless` and one more invariant, `CatchingUp`:
after a lag there is always a message before the cursor, or in the handler's hand,
that makes up for it. `Gapless` alone does not say so, since it allows a gap for
as long as the stream is marked as lagged.

The heart of `Coverage`: when a topic is inserted, the inserting task is about to
announce it, which covers everybody; when it announces, every handler has the
event before it; when a handler reads the event or loses it, it follows the
topic or the loss is on record; when it subscribes, all topics there are on its
list, and those that come later are covered by their announcement. This needs no
assumption on what the listing sees of topics inserted meanwhile.

`WriteLoopProofs` (from `SizesAreNaturals`): `TypesHold`, `ConservedHolds`,
`NothingStuckHolds`, `NothingLostHolds`. The invariant adds that the buffer is
empty before the loop starts. `NothingLostAtTheEnd` needs `NothingStuck`: the
loop is left through `else => break` only when it waits, and without an interval
it waits only with an empty buffer or a message in the channel.

`MetricsProofs` (from `MetricsAssumption`): `TypesHold`, `RatesAgreeHolds`,
`CountAgreesHolds`, `GaugeNeverWraps`. The types are inductive and `RatesAgree`
needs them only to do arithmetic. `CountAgrees` is not inductive: that the
sum is right says nothing about the way to it, and a `Subtract` in front of its
`Add` would take the gauge below zero. The invariant `CountOnCourse` says that
there is a course of the gauge, one value per change in the channel, that starts
at the current value, follows the changes, never leaves the range from 0 to the
number of connections and ends at the number of live ones. From it follow the sum and that `listen` never
wraps.

`ReadLoopProofs` (from `LengthsArePositive`): `TypesHold`, `FramedHolds`, `RestHolds`,
`NoLivelock`. The invariant adds `Layout`, where the frames lie in the stream:
without it the codec could not know that a frame it finds complete at `pos` is the
next one. `RestsWhenDone` needs `Progress` besides: `Framed` is silent once the
handler has ended, while the loop goes on decoding, so `Progress` says without
reference to the handler that the codec stands on a border with commands only
before it, and gives for each state of `FramedRead` the reason why it is there (it reads
only when the buffer holds nothing to decode; it has failed or ended only because
of a reset, of garbage at `pos`, or at the end of a stream with nothing left to
decode). `NoLivelock` weighs a byte to decode, a byte to read, a command on its way
and the state of `FramedRead`.

`ConnectionProofs` (from `CapsArePositive`): `TypesHold`, `ImplementsCommandPipe`,
`ImplementsMessagePipe`, `NobodyWaitsInVain`, `NoLivelock`. `InLine` says of one
direction that what has come out, followed by the two channels next to the exit, is
a prefix of what went in, and together with the first channel all of it as long as
the connection and the task that writes to the socket are there; the step of a
passing task leaves that sequence as it is. `MessagesCounted` bounds the messages,
because the handler's numbering of them has to stay within the constants.

`NobodyWaitsInVain` is `Spec => []NoCircularWait`. It goes along the channels, from
the application's receiver back to its call: if no task is ready and the receiver is
not full, then the reader leaves nothing in the socket, so the write loop leaves
nothing in the `out` channel, so the handler holds nothing and leaves nothing in the
`in` channel, and so on to the call; the same with tasks that have ended, which
needs `EndsInOrder`: a task reading from the socket ends only when its peer
has ended or the connection is broken. `NoLivelock` adds that the tasks cannot go
on for ever by themselves: an item weighs as much as it has stages before it, a task
and an unbroken connection weigh one, and every step of a task makes the sum
smaller. The two together are the safety core of `CallsReturn`, `RecvEnds` and
`Teardown`; what is left to TLC is that fairness turns them into progress while
the application and the other publishers go on.

`GlobTreeProofs` (from `WildcardsAreAscii`): `MatchStringIsRight`, `TreesAreSubs`.
The walk through the tree is compared with `GlobMatches` at every node and
position (`Found`): a listed pattern that goes through the node matches the rest
of the string from there. The recursion goes to a later position of the string,
so the argument takes the wrong place with the latest position, the one
counterexample whose successors are all right. The provers cannot instantiate an
induction rule, but "a set of numbers that is not empty has a least element" is
enough, and `RecursionExists` in `Lemmas` shows in the same way that a function
defined by recursion exists at all, without which nothing could be said of it.
The sums of counts of children are treated likewise (`SumTakesAny`: the order in
which the fold takes the elements does not matter).

`PatternStoreProofs` (from `PatternsAreStrings`, `WildcardsAreAscii`): `TypesHold`,
`NoDeadBranchesHolds`, `NoPhantomPatternsHolds`, `CheckAgreesHolds`,
`RemoveOnlyShrinksHolds`, `InsertKeepsOthersHolds`. The invariant is `TypeOK`, `WellCounted` (the nodes form a
finite tree and each but the root has a positive count), `NoPhantomPatterns` and
that the root is counted only for the empty pattern. It does not say that counts
are what the stored patterns add up to, because they are not (`PatternHeld`). That
no pattern appears out of nothing is an argument about one step: `insert` adds no
more to a node than to its one child on the path, and `remove` takes one from a node
for one it takes from that child, so no inner node but the root comes to count
more than its children when it did not before. `InsertKeepsOthers` is the same
bookkeeping the other way round: by how much a node's count exceeds its children's
shrinks with an `insert` only at the node above the last one, which gets one for the
two of its child, and at the root.

Only model-checked: all liveness (`Convergence`, `Delivered`, `LoopEnds`,
`Unblocked`, `AllLogged`, `Arrives`, `CallsReturn`, `RecvEnds`, `Teardown`), which is
beyond the prover. For `Broker`, `ReadLoop` and `Connection` the theorems above prove
what it rests on: that the tasks are not at rest with work left, and for the last two
that they cannot go on for ever without doing it.

## 5. What is not modelled

* `Connection` has one connection and one topic; what several connections do to
  each other is in `Broker`, topic events too. Its write loop has no interval:
  one with an interval, the default, does not end with its handler, so there the
  last two steps of `Teardown` are missing (`WriteLoopOpen`).
* Values inside a frame: a frame is a command or is not one. Formatting
  (`Command::log`, `Display`) is left out.
* A `bind` that fails, before there is any state; `Client::new` that cannot
  connect and panics.
* Argument parsing, logging set-up, the benchmarks and the Python example: I/O without state of the system.
* Topics are never removed from the `Bus`, in the code and in the model.

## 6. Plan

Done: `GlobTree` and `PatternStore`, `Broker` with `StateFeed`, `WriteLoop`,
`Metrics`, `ReadLoop`, `Connection` with `Pipe`; the proofs of all the safety
properties the runs check, and of the safety core of the liveness of `Broker`,
`ReadLoop` and `Connection`.

Possible extensions: a `Connection` with a write loop that has an interval, once
`ConnectionCloses` holds of it; several topics in `Connection`; rank arguments for
`WriteLoop` and `Metrics` like the ones above. An abstract outgoing channel between `Broker` and
`WriteLoop` would say little: what one takes from the queue and the other puts on
the wire is tied together already by `Conserved` and by the `Pipe` of `Connection`.

## 7. Running

In this directory: `tlc -config BrokerQueue.cfg MCBroker` (each run's module and
configuration are in `PROJECT.json`), `tlapm BrokerProofs.tla`.
