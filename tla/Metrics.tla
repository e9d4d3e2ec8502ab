------------------------------- MODULE Metrics ------------------------------
(***************************************************************************)
(* The metrics of the server: lbroker/src/metrics.rs, Server::register_    *)
(* metrics and the calls of the mutators in ConnectionHandler::run and     *)
(* forward_message_to_client (lbroker/src/server.rs).                      *)
(*                                                                         *)
(* Each metric is a task that owns a value and the receiving end of a      *)
(* bounded channel; the connection handlers hold mutators, which send to   *)
(* the channel and wait while it is full.  listen_and_log() runs listen()  *)
(* and a sleep in a select!; when the sleep wins, listen() is cancelled in *)
(* recv(), which loses nothing, and the metric is logged.                  *)
(***************************************************************************)
EXTENDS Integers, Sequences, SequencesExt, FiniteSets

CONSTANTS
    Conns,          \* connections that are ever accepted
    Throughputs,    \* the throughput metrics: commands, messages sent
    Cap,            \* items a metric's channel holds
    Modulus,        \* 2^64 in the code: the values are u64
    MaxUpdates      \* bound of the model: increments of a throughput metric

ASSUME MetricsAssumption ==
    /\ Cap \in Nat \ {0} /\ MaxUpdates \in Nat
    /\ IsFiniteSet(Conns)
    /\ Modulus \in Nat /\ Modulus > Cardinality(Conns)
    /\ Throughputs \cap {"new", "idle", "leaving", "gone"} = {}

VARIABLES
    pc,         \* where a connection's task stands; in Throughputs: it is
                \* about to increment that metric
    count,      \* Count.value, the number of connections
    changes,    \* the channel of the Count
    rate,       \* Throughput.value
    pending,    \* the channel of a Throughput; all items are 1
    logged,     \* history: sum of the values of a Throughput logged so far
    updates     \* history: calls of increment() that have returned

vars == <<pc, count, changes, rate, pending, logged, updates>>

handlers == <<pc>>
counts   == <<count, changes>>
rates    == <<rate, pending, logged, updates>>

Init ==
    /\ pc = [c \in Conns |-> "new"]
    /\ count = 0 /\ changes = <<>>
    /\ rate = [m \in Throughputs |-> 0]
    /\ pending = [m \in Throughputs |-> 0]
    /\ logged = [m \in Throughputs |-> 0]
    /\ updates = [m \in Throughputs |-> 0]

-----------------------------------------------------------------------------
(* The connection handlers                                                 *)

Goto(c, label) == pc' = [pc EXCEPT ![c] = label]

\* Fault: try_send(), whose error is ignored.
AddDropped(c) ==
    /\ pc[c] = "new"
    /\ changes' = IF Len(changes) < Cap THEN Append(changes, 1) ELSE changes
    /\ Goto(c, "idle")
    /\ UNCHANGED <<count, rates>>

\* run(): connection_count.add(1).await
Add(c) ==
    /\ pc[c] = "new"
    /\ Len(changes) < Cap
    /\ changes' = Append(changes, 1)
    /\ Goto(c, "idle")
    /\ UNCHANGED <<count, rates>>

\* A command or a message of a stream has arrived.
Work(c, m) ==
    /\ pc[c] = "idle"
    /\ updates[m] < MaxUpdates
    /\ Goto(c, m)
    /\ UNCHANGED <<counts, rates>>

\* Fault: a channel without a bound.
IncrementUnbounded(c, m) ==
    /\ pc[c] = m
    /\ pending' = [pending EXCEPT ![m] = @ + 1]
    /\ updates' = [updates EXCEPT ![m] = @ + 1]
    /\ Goto(c, "idle")
    /\ UNCHANGED <<counts, rate, logged>>

\* increment().await
Increment(c, m) ==
    /\ pc[c] = m
    /\ pending[m] < Cap
    /\ pending' = [pending EXCEPT ![m] = @ + 1]
    /\ updates' = [updates EXCEPT ![m] = @ + 1]
    /\ Goto(c, "idle")
    /\ UNCHANGED <<counts, rate, logged>>

\* The loop of run() breaks.
Leave(c) ==
    /\ pc[c] = "idle"
    /\ Goto(c, "leaving")
    /\ UNCHANGED <<counts, rates>>

\* connection_count.subtract(1).await
Subtract(c) ==
    /\ pc[c] = "leaving"
    /\ Len(changes) < Cap
    /\ changes' = Append(changes, -1)
    /\ Goto(c, "gone")
    /\ UNCHANGED <<count, rates>>

-----------------------------------------------------------------------------
(* The tasks of the metrics                                                *)

\* Fault: a negative item is not taken from the channel.
CountListenAddsOnly ==
    /\ changes # <<>> /\ Head(changes) > 0
    /\ count' = (count + Head(changes)) % Modulus
    /\ changes' = Tail(changes)
    /\ UNCHANGED <<handlers, rates>>

\* Count::listen; the arithmetic is that of u64.
CountListen ==
    /\ changes # <<>>
    /\ count' = (count + Head(changes)) % Modulus
    /\ changes' = Tail(changes)
    /\ UNCHANGED <<handlers, rates>>

\* Throughput::listen.  recv() and the increment are one step: there is no await
\* between them at which the sleep of listen_and_log could cut in, and that a
\* recv() that is cancelled has taken nothing is what tokio promises of it
\* (cancel safety), assumed here.
RateListen(m) ==
    /\ pending[m] > 0
    /\ pending' = [pending EXCEPT ![m] = @ - 1]
    /\ rate' = [rate EXCEPT ![m] = @ + 1]
    /\ UNCHANGED <<handlers, counts, logged, updates>>

\* Fault: the reset comes before the logging.
RateLogResetFirst(m) ==
    /\ rate' = [rate EXCEPT ![m] = 0]
    /\ UNCHANGED <<handlers, counts, pending, logged, updates>>

\* Throughput::log_metric, with its reset().  (Count::log_metric changes
\* nothing.)
RateLog(m) ==
    /\ logged' = [logged EXCEPT ![m] = @ + rate[m]]
    /\ rate' = [rate EXCEPT ![m] = 0]
    /\ UNCHANGED <<handlers, counts, pending, updates>>

-----------------------------------------------------------------------------
(* Specification                                                           *)

Await(c) == Add(c) \/ Subtract(c) \/ \E m \in Throughputs : Increment(c, m)

Next ==
    \/ \E c \in Conns :
          Await(c) \/ Leave(c) \/ \E m \in Throughputs : Work(c, m)
    \/ CountListen
    \/ \E m \in Throughputs : RateListen(m) \/ RateLog(m)

Spec == Init /\ [][Next]_vars

\* The tasks of the metrics are run and their sleeps end; senders that wait
\* for room are served in turn.
Fairness ==
    /\ WF_vars(CountListen)
    /\ \A m \in Throughputs : WF_vars(RateListen(m)) /\ WF_vars(RateLog(m))
    /\ \A c \in Conns : SF_vars(Await(c))

FairSpec == Spec /\ Fairness

-----------------------------------------------------------------------------
(* Properties                                                              *)

Waiting == {"new", "leaving"} \cup Throughputs

\* Types; the channels stay within their capacity.
TypeOK ==
    /\ pc \in [Conns -> Waiting \cup {"idle", "gone"}]
    /\ count \in 0 .. Modulus - 1
    /\ changes \in Seq({1, -1}) /\ Len(changes) <= Cap
    /\ rate \in [Throughputs -> Nat]
    /\ pending \in [Throughputs -> 0 .. Cap]
    /\ logged \in [Throughputs -> Nat] /\ updates \in [Throughputs -> Nat]

\* The connections that run() has counted and not yet discounted.
Counted == {c \in Conns : pc[c] \notin {"new", "gone"}}

\* The gauge and its channel together are the number of live connections, in
\* whatever order connections come and go and however long the channel makes
\* them wait: `value -= n` is never applied below zero, where it would panic
\* or wrap around.
CountAgrees ==
    count + FoldLeft(LAMBDA sum, i : sum + i, 0, changes) = Cardinality(Counted)

\* Every increment is in exactly one place, the channel, the running value or
\* a value that was logged: the reset of a value loses none and leaves none to be
\* logged twice.  (That the cancelled recv() loses none is tokio's promise.)
RatesAgree ==
    \A m \in Throughputs : logged[m] + rate[m] + pending[m] = updates[m]

\* A full metrics channel only delays a connection.
Unblocked ==
    \A c \in Conns, w \in Waiting : pc[c] = w ~> pc[c] # w

\* Every increment shows up in the log.
AllLogged ==
    \A m \in Throughputs : \A k \in 1 .. MaxUpdates : updates[m] >= k ~> logged[m] >= k

=============================================================================
