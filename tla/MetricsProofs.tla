---------------------------- MODULE MetricsProofs ---------------------------
(* Proofs about Metrics, for any number of connections and metrics and any *)
(* capacity of the channels.                                               *)
EXTENDS Metrics, Lemmas, FiniteSetTheorems, TLAPS

\* Arithmetic modulo Modulus makes sense: it is at least 1.
LEMMA ModulusIsPositive == Modulus \in Nat /\ Modulus > 0
  BY FS_CardinalityType, MetricsAssumption

\* The items of the counter's channel are numbers, also after one was taken
\* or added.
LEMMA ChangesAreNumbers ==
    ASSUME TypeOK
    PROVE  /\ changes # <<>> => Head(changes) \in {1, -1} /\ Tail(changes) \in Seq({1, -1})
           /\ changes # <<>> => Len(Tail(changes)) = Len(changes) - 1
           /\ Append(changes, 1) \in Seq({1, -1})
           /\ Append(changes, -1) \in Seq({1, -1})
  BY DEF TypeOK

\* The metrics start with empty channels and zero values.
LEMMA TypeInit == Init => TypeOK
  <1> SUFFICES ASSUME Init PROVE TypeOK
    OBVIOUS
  <1>1. count \in 0 .. Modulus - 1
    BY ModulusIsPositive DEF Init
  <1>2. changes \in Seq({1, -1}) /\ Len(changes) <= Cap
    BY MetricsAssumption DEF Init
  <1> QED
    BY <1>1, <1>2, MetricsAssumption DEF Init, TypeOK, Waiting

\* No step of a handler or of a metric breaks the types.
LEMMA TypeStep == TypeOK /\ [Next]_vars => TypeOK'
  <1> SUFFICES ASSUME TypeOK, [Next]_vars PROVE TypeOK'
    OBVIOUS
  <1> USE DEF TypeOK, Waiting, Goto, counts, rates, handlers
  <1>1. ASSUME NEW c \in Conns, Add(c) PROVE TypeOK'
    <2>1. changes' \in Seq({1, -1}) /\ Len(changes') <= Cap
      BY <1>1, ChangesAreNumbers, MetricsAssumption DEF Add
    <2>2. pc' \in [Conns -> Waiting \cup {"idle", "gone"}]
      BY <1>1 DEF Add
    <2> QED
      BY <1>1, <2>1, <2>2 DEF Add
  <1>2. ASSUME NEW c \in Conns, Subtract(c) PROVE TypeOK'
    <2>1. changes' \in Seq({1, -1}) /\ Len(changes') <= Cap
      BY <1>2, ChangesAreNumbers, MetricsAssumption DEF Subtract
    <2>2. pc' \in [Conns -> Waiting \cup {"idle", "gone"}]
      BY <1>2 DEF Subtract
    <2> QED
      BY <1>2, <2>1, <2>2 DEF Subtract
  <1>3. ASSUME NEW c \in Conns, NEW m \in Throughputs, Increment(c, m) PROVE TypeOK'
    <2>1. pending' \in [Throughputs -> 0 .. Cap] /\ updates' \in [Throughputs -> Nat]
      <3>1. pending[m] + 1 \in 0 .. Cap /\ updates[m] + 1 \in Nat
        BY <1>3, MetricsAssumption DEF Increment
      <3> QED
        BY <1>3, <3>1 DEF Increment
    <2>2. pc' \in [Conns -> Waiting \cup {"idle", "gone"}]
      BY <1>3 DEF Increment
    <2> QED
      BY <1>3, <2>1, <2>2 DEF Increment
  <1>4. ASSUME NEW c \in Conns, NEW m \in Throughputs, Work(c, m) PROVE TypeOK'
    <2>1. pc' \in [Conns -> Waiting \cup {"idle", "gone"}]
      BY <1>4 DEF Work
    <2> QED
      BY <1>4, <2>1 DEF Work
  <1>5. ASSUME NEW c \in Conns, Leave(c) PROVE TypeOK'
    BY <1>5 DEF Leave
  <1>6. CASE CountListen
    <2>1. (count + Head(changes)) % Modulus \in 0 .. Modulus - 1
      <3>1. count + Head(changes) \in Int
        BY <1>6, ChangesAreNumbers DEF CountListen
      <3> QED
        BY <3>1, ModulusIsPositive
    <2> QED
      BY <1>6, <2>1, ChangesAreNumbers, MetricsAssumption DEF CountListen
  <1>7. ASSUME NEW m \in Throughputs, RateListen(m) PROVE TypeOK'
    <2>1. pending[m] - 1 \in 0 .. Cap /\ rate[m] + 1 \in Nat
      BY <1>7, MetricsAssumption DEF RateListen
    <2>2. pending' \in [Throughputs -> 0 .. Cap] /\ rate' \in [Throughputs -> Nat]
      BY <1>7, <2>1 DEF RateListen
    <2> QED
      BY <1>7, <2>2 DEF RateListen
  <1>8. ASSUME NEW m \in Throughputs, RateLog(m) PROVE TypeOK'
    <2>1. logged' \in [Throughputs -> Nat] /\ rate' \in [Throughputs -> Nat]
      <3>1. logged[m] + rate[m] \in Nat
        OBVIOUS
      <3> QED
        BY <1>8, <3>1 DEF RateLog
    <2> QED
      BY <1>8, <2>1 DEF RateLog
  <1>9. CASE UNCHANGED vars
    BY <1>9 DEF vars
  <1> QED
    BY <1>1, <1>2, <1>3, <1>4, <1>5, <1>6, <1>7, <1>8, <1>9 DEF Next, Await

\* The types hold, and no handler overfills a metric's channel.
THEOREM TypesHold == Spec => []TypeOK
  BY TypeInit, TypeStep, PTL DEF Spec

\* increment(), listen() and log_metric() move an increment from one place to
\* the next.
LEMMA RatesStep == TypeOK /\ RatesAgree /\ [Next]_vars => RatesAgree'
  <1> SUFFICES ASSUME TypeOK, RatesAgree, [Next]_vars PROVE RatesAgree'
    OBVIOUS
  <1> USE DEF TypeOK, RatesAgree, counts, rates, handlers
  <1>1. ASSUME NEW c \in Conns, Add(c) \/ Subtract(c) \/ Leave(c) PROVE RatesAgree'
    BY <1>1 DEF Add, Subtract, Leave
  <1>2. ASSUME NEW c \in Conns, NEW m \in Throughputs, Increment(c, m) PROVE RatesAgree'
    <2> SUFFICES ASSUME NEW k \in Throughputs
                 PROVE  logged'[k] + rate'[k] + pending'[k] = updates'[k]
      OBVIOUS
    <2>1. logged[k] \in Nat /\ rate[k] \in Nat /\ pending[k] \in Nat /\ updates[k] \in Nat
      BY MetricsAssumption
    <2>2. logged[k] + rate[k] + pending[k] = updates[k]
      OBVIOUS
    <2>3. logged'[k] = logged[k] /\ rate'[k] = rate[k]
      BY <1>2 DEF Increment
    <2>4. CASE k = m
      <3>1. pending'[k] = pending[k] + 1 /\ updates'[k] = updates[k] + 1
        BY <1>2, <2>4 DEF Increment
      <3> QED
        BY <2>1, <2>2, <2>3, <3>1
    <2>5. CASE k # m
      <3>1. pending'[k] = pending[k] /\ updates'[k] = updates[k]
        BY <1>2, <2>5 DEF Increment
      <3> QED
        BY <2>2, <2>3, <3>1
    <2> QED
      BY <2>4, <2>5
  <1>3. ASSUME NEW c \in Conns, NEW m \in Throughputs, Work(c, m) PROVE RatesAgree'
    BY <1>3 DEF Work
  <1>4. CASE CountListen
    BY <1>4 DEF CountListen
  <1>5. ASSUME NEW m \in Throughputs, RateListen(m) PROVE RatesAgree'
    BY <1>5, MetricsAssumption DEF RateListen
  <1>6. ASSUME NEW m \in Throughputs, RateLog(m) PROVE RatesAgree'
    BY <1>6, MetricsAssumption DEF RateLog
  <1>7. CASE UNCHANGED vars
    BY <1>7 DEF vars
  <1> QED
    BY <1>1, <1>2, <1>3, <1>4, <1>5, <1>6, <1>7 DEF Next, Await

\* No increment() is lost or counted twice between a handler, the channel, the
\* running value and the log, wherever the sleep cancels listen().
THEOREM RatesAgreeHolds == Spec => []RatesAgree
  <1>1. Init => RatesAgree
    BY DEF Init, RatesAgree
  <1> QED
    BY <1>1, TypesHold, RatesStep, PTL DEF Spec

-----------------------------------------------------------------------------
(* The gauge                                                               *)

\* The values the gauge still goes through while it applies the changes of its
\* channel: from what it shows to the number of live connections, each a number
\* of connections that were live at some time.
IsCourse(h) ==
    /\ h \in [0 .. Len(changes) -> 0 .. Cardinality(Conns)]
    /\ h[0] = count /\ h[Len(changes)] = Cardinality(Counted)
    /\ \A i \in 1 .. Len(changes) : h[i] = h[i - 1] + changes[i]

\* The inductive invariant: CountAgrees alone does not say that the gauge is
\* never sent below zero on the way.
CountOnCourse == \E h : IsCourse(h)

\* There are no more live connections than connections.
LEMMA CountedIsFinite ==
    /\ IsFiniteSet(Counted) /\ Cardinality(Counted) \in 0 .. Cardinality(Conns)
    /\ Cardinality(Conns) \in Nat
  <1>1. IsFiniteSet(Conns) /\ Counted \in SUBSET Conns
    BY MetricsAssumption DEF Counted
  <1>2. IsFiniteSet(Counted) /\ Cardinality(Counted) <= Cardinality(Conns)
    BY <1>1, FS_Subset
  <1> QED
    BY <1>1, <1>2, FS_CardinalityType

\* As above, after a step.
LEMMA CountedStaysFinite == Cardinality(Counted') \in 0 .. Cardinality(Conns)
  <1>1. IsFiniteSet(Conns) /\ Counted' \in SUBSET Conns
    BY MetricsAssumption DEF Counted
  <1>2. IsFiniteSet(Counted') /\ Cardinality(Counted') <= Cardinality(Conns)
    BY <1>1, FS_Subset
  <1> QED
    BY <1>1, <1>2, FS_CardinalityType

\* A handler that comes or goes adds its change at the end of the course.
LEMMA CourseGrows ==
    ASSUME TypeOK, CountOnCourse, NEW d \in {1, -1}, changes' = Append(changes, d),
           count' = count, Cardinality(Counted') = Cardinality(Counted) + d
    PROVE  CountOnCourse'
  <1>1. PICK h : IsCourse(h)
    BY DEF CountOnCourse
  <1> DEFINE N == Len(changes)
  <1>k. PICK k : k = [i \in 0 .. N + 1 |-> IF i <= N THEN h[i] ELSE Cardinality(Counted')]
    OBVIOUS
  <1>2. /\ N \in Nat /\ changes \in Seq({1, -1}) /\ Len(changes') = N + 1
        /\ changes'[N + 1] = d /\ \A i \in 1 .. N : changes'[i] = changes[i]
    BY DEF TypeOK
  <1>3. k \in [0 .. N + 1 -> 0 .. Cardinality(Conns)]
    BY <1>k, <1>1, <1>2, CountedStaysFinite DEF IsCourse
  <1>4. k[0] = count' /\ k[N + 1] = Cardinality(Counted')
    BY <1>k, <1>1, <1>2 DEF IsCourse
  <1>5. ASSUME NEW i \in 1 .. N + 1 PROVE k[i] = k[i - 1] + changes'[i]
    <2>1. CASE i <= N
      BY <1>k, <1>1, <1>2, <2>1 DEF IsCourse
    <2>2. CASE i = N + 1
      BY <1>k, <1>1, <1>2, <2>2 DEF IsCourse
    <2> QED
      BY <1>2, <2>1, <2>2
  <1>6. IsCourse(k)'
    BY <1>2, <1>3, <1>4, <1>5 DEF IsCourse
  <1> QED
    BY <1>6 DEF CountOnCourse

\* listen() applies the next change without wrapping around.
LEMMA ListenIsExact ==
    ASSUME TypeOK, NEW h, IsCourse(h), CountListen
    PROVE  count' = h[1] /\ count' = count + Head(changes)
  <1>1. Len(changes) >= 1 /\ Head(changes) = changes[1] /\ Len(changes) \in Nat
    BY DEF TypeOK, CountListen
  <1>2. h[1] = count + Head(changes) /\ h[1] \in 0 .. Cardinality(Conns)
    BY <1>1 DEF IsCourse
  <1>3. h[1] % Modulus = h[1]
    BY <1>2, MetricsAssumption, CountedIsFinite
  <1> QED
    BY <1>2, <1>3 DEF CountListen

\* listen() goes one step along the course.
LEMMA CourseAdvances ==
    ASSUME TypeOK, CountOnCourse, CountListen
    PROVE  CountOnCourse'
  <1>1. PICK h : IsCourse(h)
    BY DEF CountOnCourse
  <1> DEFINE N == Len(changes)
  <1>k. PICK k : k = [i \in 0 .. N - 1 |-> h[i + 1]]
    OBVIOUS
  <1>2. /\ N \in Nat /\ N >= 1 /\ changes \in Seq({1, -1}) /\ changes' = Tail(changes)
        /\ Len(changes') = N - 1 /\ Head(changes) = changes[1]
        /\ \A i \in 1 .. N - 1 : changes'[i] = changes[i + 1]
    BY DEF TypeOK, CountListen
  <1>3. k \in [0 .. N - 1 -> 0 .. Cardinality(Conns)]
    BY <1>k, <1>1, <1>2 DEF IsCourse
  <1>4. Cardinality(Counted') = Cardinality(Counted)
    BY DEF CountListen, handlers, Counted
  <1>5. k[0] = count'
    BY <1>k, <1>1, <1>2, ListenIsExact
  <1>6. k[N - 1] = Cardinality(Counted')
    BY <1>k, <1>1, <1>2, <1>4 DEF IsCourse
  <1>7. ASSUME NEW i \in 1 .. N - 1 PROVE k[i] = k[i - 1] + changes'[i]
    BY <1>k, <1>1, <1>2 DEF IsCourse
  <1>8. IsCourse(k)'
    BY <1>2, <1>3, <1>5, <1>6, <1>7 DEF IsCourse
  <1> QED
    BY <1>8 DEF CountOnCourse

\* Every step keeps the gauge on course.
LEMMA CourseStep == TypeOK /\ CountOnCourse /\ [Next]_vars => CountOnCourse'
  <1> SUFFICES ASSUME TypeOK, CountOnCourse, [Next]_vars PROVE CountOnCourse'
    OBVIOUS
  <1>1. ASSUME NEW c \in Conns, Add(c) PROVE CountOnCourse'
    <2>1. c \notin Counted /\ Counted' = Counted \cup {c}
      BY <1>1 DEF Add, Goto, Counted, TypeOK
    <2>2. Cardinality(Counted') = Cardinality(Counted) + 1
      BY <2>1, CountedIsFinite, FS_AddElement
    <2> QED
      BY <1>1, <2>2, CourseGrows DEF Add
  <1>2. ASSUME NEW c \in Conns, Subtract(c) PROVE CountOnCourse'
    <2>1. c \in Counted /\ Counted' = Counted \ {c}
      BY <1>2 DEF Subtract, Goto, Counted, TypeOK
    <2>2. Cardinality(Counted') = Cardinality(Counted) + (-1)
      BY <2>1, CountedIsFinite, FS_RemoveElement
    <2> QED
      BY <1>2, <2>2, CourseGrows DEF Subtract
  <1>3. ASSUME UNCHANGED counts, Counted' = Counted PROVE CountOnCourse'
    BY <1>3 DEF CountOnCourse, IsCourse, counts
  <1>4. ASSUME NEW c \in Conns, NEW m \in Throughputs, Increment(c, m) \/ Work(c, m)
        PROVE  CountOnCourse'
    <2>1. m \notin {"new", "gone"}
      BY MetricsAssumption
    <2>2. Counted' = Counted
      BY <1>4, <2>1 DEF Increment, Work, Goto, Counted, TypeOK
    <2> QED
      BY <1>3, <1>4, <2>2 DEF Increment, Work
  <1>5. ASSUME NEW c \in Conns, Leave(c) PROVE CountOnCourse'
    <2>1. Counted' = Counted
      BY <1>5 DEF Leave, Goto, Counted, TypeOK
    <2> QED
      BY <1>3, <1>5, <2>1 DEF Leave
  <1>6. CASE CountListen
    BY <1>6, CourseAdvances
  <1>7. ASSUME NEW m \in Throughputs, RateListen(m) \/ RateLog(m) PROVE CountOnCourse'
    BY <1>3, <1>7 DEF RateListen, RateLog, handlers, Counted
  <1>8. CASE UNCHANGED vars
    BY <1>3, <1>8 DEF vars, counts, Counted
  <1> QED
    BY <1>1, <1>2, <1>4, <1>5, <1>6, <1>7, <1>8 DEF Next, Await

\* The gauge is on course in every reachable state.
LEMMA OnCourse == Spec => []CountOnCourse
  <1>1. Init => CountOnCourse
    <2> SUFFICES ASSUME Init PROVE CountOnCourse
      OBVIOUS
    <2>1. Counted = {} /\ Cardinality(Counted) = 0 /\ Len(changes) = 0 /\ count = 0
      BY FS_EmptySet DEF Init, Counted
    <2>2. IsCourse([i \in 0 .. 0 |-> 0])
      BY <2>1, CountedIsFinite DEF IsCourse
    <2> QED
      BY <2>2 DEF CountOnCourse
  <1> QED
    BY <1>1, CourseStep, TypesHold, PTL DEF Spec

\* The gauge and the changes in its channel always add up to the number of
\* live connections, in whatever order connections come and go, and listen()
\* never takes the u64 below zero.
THEOREM CountAgreesHolds == Spec => []CountAgrees
  <1>1. Spec => []CountOnCourse
    BY OnCourse
  <1>2. TypeOK /\ CountOnCourse => CountAgrees
    <2> SUFFICES ASSUME TypeOK, NEW h, IsCourse(h) PROVE CountAgrees
      BY DEF CountOnCourse
    <2>1. changes \in Seq(Int) /\ h \in [0 .. Len(changes) -> Int]
      BY CountedIsFinite DEF TypeOK, IsCourse
    <2>2. h[0] + FoldLeft(LAMBDA sum, i : sum + i, 0, changes) = h[Len(changes)]
      BY <2>1, SumOfSteps DEF IsCourse
    <2> QED
      BY <2>2 DEF IsCourse, CountAgrees
  <1> QED
    BY <1>1, <1>2, TypesHold, PTL

\* The u64 of the gauge is always changed by exactly the item that listen()
\* took: `value -= n` neither panics nor wraps around, `value += n` neither.
THEOREM GaugeNeverWraps ==
    Spec => [][CountListen => count' = count + Head(changes)]_vars
  <1>1. TypeOK /\ CountOnCourse => [CountListen => count' = count + Head(changes)]_vars
    BY ListenIsExact DEF CountOnCourse
  <1> QED
    BY <1>1, OnCourse, TypesHold, PTL DEF Spec

=============================================================================
