-------------------------- MODULE ConsumerTheorems --------------------------
(***************************************************************************)
(* A consumer in POP mode and the pool that runs its callbacks, for any    *)
(* messages, batch sizes, thresholds, retry budgets, workers and sizes.    *)
(*                                                                         *)
(* A delivery is one row, and a row is in one place: with the pop loop of  *)
(* the generation that popped it or with one batch of the executor.  That  *)
(* is what the counter of unacknowledged rows counts.                      *)
(*                                                                         *)
(* A queued task has a worker that will look at the queue again: whoever   *)
(* has seen it empty was there before the task, and the notification that  *)
(* follows the task finds them enrolled.                                   *)
(***************************************************************************)
EXTENDS PopConsumer, Sequences, FiniteSetTheorems, TLAPS

CONSTANTS
    \* ConsumeExecutor
    Task, Worker, CoreSize, MaxSize

VARIABLES
    \* ConsumeExecutor
    core, max, queue, shutdown, wpc, signal, submitting, jobs, resizing, spc, asignal

Ex == INSTANCE ConsumeExecutor WITH tasks <- jobs

Stored == [st : {"ready", "out", "gone"}, pops : 0..MaxPops, over : BOOLEAN]

Shape ==
    /\ broker \in [Msg -> Stored]
    /\ gens \in 0..MaxChurn + 1 /\ owner \in 0..gens
    /\ pq \in [Gen -> [wait : Int, dropped : BOOLEAN]]
    /\ loop \in [Gen -> [pc : {"none", "top", "answer"}, rows : SUBSET Row]]
    /\ tasks \subseteq [gen : Gen, pc : {"queued", "listening"}, rows : SUBSET Row]
    /\ rpcs \subseteq [kind : {"ack", "change"}, row : Row]

(* A message that is ready may be popped once more.                        *)
Poppable == \A m \in Msg : broker[m].st = "ready" => broker[m].pops < MaxPops

(* An ack is on its way only for a message that is done with.              *)
AcksDone == \A r \in rpcs : r.kind = "ack" => r.row[1] \in done

OneEach(S) == \A r, q \in S : r[1] = q[1] => r = q

(* Rows are deliveries made, one of each message in an answer.             *)
Delivered ==
    /\ \A g \in Gen : OneEach(loop[g].rows) /\ \A r \in loop[g].rows : r[2] <= broker[r[1]].pops
    /\ \A t \in tasks : \A r \in t.rows : r[2] <= broker[r[1]].pops

(* A row is in one place.                                                  *)
Apart ==
    /\ \A t, u \in tasks : t.gen = u.gen /\ t # u => t.rows \cap u.rows = {}
    /\ \A t \in tasks : t.rows \cap loop[t.gen].rows = {}
    /\ \A t \in tasks : t.rows # {} /\ Cardinality(t.rows) <= ConsumeBatch

(* An answer under way was asked for below the threshold.                  *)
Asked(g) ==
    /\ loop[g].pc = "answer" => pq[g].wait <= Threshold /\ Cardinality(loop[g].rows) <= PopBatch
    /\ pq[g].wait <= Threshold + PopBatch

Debts == DebtExact /\ \A g \in Gen : ~pq[g].dropped => Asked(g)

-----------------------------------------------------------------------------
(* There are finitely many deliveries, so sets of them can be counted.     *)
LEMMA RowsFinite ==
    ASSUME BoundAssumption
    PROVE  /\ IsFiniteSet(Row)
           /\ \A S \in SUBSET Row : IsFiniteSet(S) /\ Cardinality(S) \in Nat
<1>1. MaxPops \in Int /\ 1 \in Int
  BY DEF BoundAssumption
<1>2. IsFiniteSet(1..MaxPops) /\ IsFiniteSet(Msg)
  BY <1>1, FS_Interval, Zenon DEF BoundAssumption
<1>3. IsFiniteSet(Row)
  BY <1>2, FS_Product, Zenon DEF Row
<1> QED BY <1>3, FS_Subset, FS_CardinalityType, Zenon

(* A delivery is a message and the number of its pop.                      *)
LEMMA RowIs ==
    ASSUME BoundAssumption, NEW r \in Row
    PROVE  r[1] \in Msg /\ r[1] \in Nat /\ r[2] \in 1..MaxPops /\ r = <<r[1], r[2]>>
<1>1. r[1] \in Msg /\ r[2] \in 1..MaxPops /\ r = <<r[1], r[2]>>
  BY DEF Row
<1> QED BY <1>1, Zenon DEF BoundAssumption

(* Division with remainder.                                                *)
LEMMA Quotient ==
    ASSUME NEW n \in Nat, NEW m \in Nat, m > 0
    PROVE  /\ n \div m \in Nat /\ m * (n \div m) \in Nat
           /\ m * (n \div m) <= n /\ n < m * (n \div m) + m
<1>1. /\ n \div m \in Nat /\ n % m \in 0..m - 1
      /\ n = m * (n \div m) + (n % m)
  BY Z3
<1>2. m * (n \div m) \in Nat
  BY <1>1, Z3
<1> QED BY <1>1, <1>2

(* The rows of an answer, in order, have different numbers before them.    *)
LEMMA BeforeCounts ==
    ASSUME BoundAssumption, NEW S \in SUBSET Row, OneEach(S)
    PROVE  /\ \A r \in S : Before(S, r) \in Nat
           /\ \A r, q \in S : Before(S, r) = Before(S, q) => r = q
<1> DEFINE Below(r) == {x \in S : x[1] < r[1]}
<1>1. \A r \in S : Below(r) \in SUBSET Row /\ Below(r) \in SUBSET S
  OBVIOUS
<1>2. \A r \in S : IsFiniteSet(Below(r)) /\ Cardinality(Below(r)) \in Nat
  BY <1>1, RowsFinite, Zenon
<1>3. \A r \in S : r[1] \in Nat
  BY RowIs, Zenon
<1>4. ASSUME NEW r \in S, NEW q \in S, r[1] < q[1]
      PROVE  Cardinality(Below(r)) # Cardinality(Below(q))
  <2>1. Below(r) \in SUBSET Below(q) /\ r \in Below(q) /\ r \notin Below(r)
    BY <1>3, <1>4
  <2> QED BY <1>2, <2>1, FS_Subset, Zenon
<1>5. \A r \in S : Before(S, r) = Cardinality(Below(r))
  BY Zenon DEF Before
<1> HIDE DEF Below
<1>6. ASSUME NEW r \in S, NEW q \in S, Before(S, r) = Before(S, q) PROVE r = q
  <2>1. ~(r[1] < q[1]) /\ ~(q[1] < r[1])
    BY <1>4, <1>5, <1>6, Zenon
  <2>2. r[1] = q[1]
    BY <1>3, <2>1
  <2> QED BY <2>2, Zenon DEF OneEach
<1> QED BY <1>2, <1>5, <1>6, Zenon

(* What prepare_pop_batch_for_delivery submits: every row in one batch of  *)
(* at most ConsumeBatch.                                                   *)
LEMMA BatchesSplit ==
    ASSUME BoundAssumption, NEW g \in Gen, NEW S \in SUBSET Row, OneEach(S)
    PROVE  /\ Batches(g, S) \subseteq [gen : Gen, pc : {"queued", "listening"}, rows : SUBSET Row]
           /\ \A b \in Batches(g, S) :
                 b.gen = g /\ b.rows \subseteq S /\ b.rows # {} /\ Cardinality(b.rows) <= ConsumeBatch
           /\ \A b, c \in Batches(g, S) : b # c => b.rows \cap c.rows = {}
           /\ \A r \in S : \E b \in Batches(g, S) : r \in b.rows
<1> DEFINE B(r) == Before(S, r)
           P(i) == {r \in S : B(r) \div ConsumeBatch = i}
           I == {B(r) \div ConsumeBatch : r \in S}
           T(i) == [gen |-> g, pc |-> "queued", rows |-> P(i)]
<1>0. Batches(g, S) = {T(i) : i \in I}
  BY Zenon DEF Batches
<1>1. /\ \A r \in S : B(r) \in Nat
      /\ \A r, q \in S : B(r) = B(q) => r = q
  BY BeforeCounts, Zenon
<1> HIDE DEF B
<1>2. ConsumeBatch \in Nat /\ ConsumeBatch > 0
  BY DEF BoundAssumption
<1>3. ASSUME NEW i \in I PROVE P(i) # {} /\ P(i) \subseteq S /\ Cardinality(P(i)) <= ConsumeBatch
  <2>1. PICK r \in S : i = B(r) \div ConsumeBatch
    BY <1>3, Zenon
  <2> DEFINE lo == ConsumeBatch * i
             hi == lo + ConsumeBatch - 1
             f == [x \in P(i) |-> B(x)]
  <2>2. lo \in Nat
    BY <1>1, <1>2, <2>1, Quotient, Zenon
  <2>3. \A x \in P(i) : lo <= B(x) /\ B(x) < lo + ConsumeBatch
    BY <1>1, <1>2, Quotient, Zenon
  <2> HIDE DEF lo
  <2>4. \A x \in P(i) : B(x) \in lo..hi
    BY <1>1, <1>2, <2>2, <2>3
  <2>5. f \in Injection(P(i), lo..hi)
    BY <1>1, <2>4, Zenon DEF Injection, IsInjective
  <2>6. lo \in Int /\ hi \in Int
    BY <1>2, <2>2
  <2>7. IsFiniteSet(lo..hi) /\ Cardinality(lo..hi) = IF lo > hi THEN 0 ELSE hi - lo + 1
    BY <2>6, FS_Interval, Zenon
  <2>8. Cardinality(P(i)) <= Cardinality(lo..hi)
    BY <2>5, <2>7, FS_Injection, ZenonT(40)
  <2>9. Cardinality(lo..hi) = ConsumeBatch
    BY <1>2, <2>2, <2>7
  <2>10. r \in P(i) /\ P(i) \subseteq S
    BY <2>1, Zenon
  <2> QED BY <2>8, <2>9, <2>10, Zenon
<1>4. \A i, j \in I : i # j => P(i) \cap P(j) = {}
  BY Zenon
<1>5. \A r \in S : \E i \in I : r \in P(i)
  BY Zenon
<1> HIDE DEF P, I
<1>6. \A i \in I : T(i).gen = g /\ T(i).rows = P(i)
  BY Zenon
<1>7. \A i \in I : T(i) \in [gen : Gen, pc : {"queued", "listening"}, rows : SUBSET Row]
  BY <1>3
<1> HIDE DEF T
<1>8. \A i, j \in I : T(i) # T(j) => i # j
  BY Zenon
<1>9. Batches(g, S) \subseteq [gen : Gen, pc : {"queued", "listening"}, rows : SUBSET Row]
  BY <1>0, <1>7, Zenon
<1>10. \A b \in Batches(g, S) :
          b.gen = g /\ b.rows \subseteq S /\ b.rows # {} /\ Cardinality(b.rows) <= ConsumeBatch
  BY <1>0, <1>3, <1>6, Zenon
<1>11. \A b, c \in Batches(g, S) : b # c => b.rows \cap c.rows = {}
  BY <1>0, <1>4, <1>6, <1>8, Zenon
<1>12. \A r \in S : \E b \in Batches(g, S) : r \in b.rows
  BY <1>0, <1>5, <1>6, Zenon
<1> QED BY <1>9, <1>10, <1>11, <1>12, Zenon

-----------------------------------------------------------------------------
(* Acks and changes of the invisible time of rows are requests.            *)
LEMMA RpcsOfRows ==
    ASSUME NEW S \in SUBSET Row
    PROVE  /\ Acks(S) \subseteq [kind : {"ack", "change"}, row : Row]
           /\ Changes(S) \subseteq [kind : {"ack", "change"}, row : Row]
           /\ \A r \in Acks(S) : r.row \in S
           /\ \A r \in Changes(S) : r.kind = "change"
<1>1. \A r \in S : /\ [kind |-> "ack", row |-> r] \in [kind : {"ack", "change"}, row : Row]
                   /\ [kind |-> "change", row |-> r] \in [kind : {"ack", "change"}, row : Row]
                   /\ [kind |-> "ack", row |-> r].row = r
                   /\ [kind |-> "change", row |-> r].kind = "change"
  OBVIOUS
<1>2. /\ \A r \in Acks(S) : \E q \in S : r = [kind |-> "ack", row |-> q]
      /\ \A r \in Changes(S) : \E q \in S : r = [kind |-> "change", row |-> q]
  BY Zenon DEF Acks, Changes
<1> QED BY <1>1, <1>2

(* The result of a batch, as far as requests and history go.               *)
LEMMA Processed ==
    ASSUME NEW t, t.rows \in SUBSET Row, NEW k, NEW old \in BOOLEAN, ProcessResult(t, k, old)
    PROVE  /\ rpcs' \subseteq rpcs \cup [kind : {"ack", "change"}, row : Row]
           /\ done \subseteq done'
           /\ \A r \in rpcs' : r.kind = "ack" => r \in rpcs \/ r.row[1] \in done'
           /\ DecFound(t)
<1> DEFINE rest == t.rows \ Acked(t, k)
           drop == {r \in rest : r[2] - 1 >= Budget /\ old}
<1>1. /\ rpcs' = rpcs \cup Acks(Acked(t, k) \cup drop) \cup Changes(rest \ drop)
      /\ done' = done \cup {r[1] : r \in Accepted(t, k) \cup drop}
      /\ DecFound(t)
  BY Zenon DEF ProcessResult
<1>2. Acked(t, k) = Accepted(t, k) /\ Accepted(t, k) \subseteq t.rows /\ drop \subseteq t.rows
  BY Zenon DEF Acked, Accepted
<1> HIDE DEF drop
<1>3. Acked(t, k) \cup drop \in SUBSET Row /\ rest \ drop \in SUBSET Row
  BY <1>2, Zenon
<1> HIDE DEF rest
<1>4. /\ Acks(Acked(t, k) \cup drop) \subseteq [kind : {"ack", "change"}, row : Row]
      /\ Changes(rest \ drop) \subseteq [kind : {"ack", "change"}, row : Row]
      /\ \A r \in Acks(Acked(t, k) \cup drop) : r.row \in Acked(t, k) \cup drop
      /\ \A r \in Changes(rest \ drop) : r.kind = "change"
  BY <1>3, RpcsOfRows, Zenon
<1>5. rpcs' \subseteq rpcs \cup [kind : {"ack", "change"}, row : Row]
  BY <1>1, <1>4, Zenon
<1>6. ASSUME NEW r \in rpcs', r.kind = "ack", r \notin rpcs PROVE r.row[1] \in done'
  <2>1. r.row \in Accepted(t, k) \cup drop
    BY <1>1, <1>2, <1>4, <1>6
  <2> QED BY <1>1, <2>1, Zenon
<1> QED BY <1>1, <1>5, <1>6, Zenon

(* What the broker may change of a message.                                *)
LEMMA BrokerSets ==
    ASSUME broker \in [Msg -> Stored], NEW m \in Msg, NEW x \in Stored,
           x.pops = broker[m].pops, broker' = [broker EXCEPT ![m] = x]
    PROVE  /\ broker' \in [Msg -> Stored]
           /\ \A n \in Msg : broker'[n].pops = broker[n].pops
           /\ \A n \in Msg : n # m => broker'[n] = broker[n]
           /\ broker'[m] = x
  BY Zenon

(* The state keeps its shape.                                              *)
LEMMA ShapeStep ==
    ASSUME BoundAssumption, Shape, Poppable, Delivered, [Next]_vars
    PROVE  Shape' /\ Poppable' /\ \A m \in Msg : broker[m].pops <= broker'[m].pops
<1>m. MaxPops \in Nat /\ MaxPops > 0 /\ MaxChurn \in Nat
  BY DEF BoundAssumption
<1>p. \A m \in Msg : broker[m].pops \in 0..MaxPops
  BY DEF Shape, Stored
<1>1. ASSUME NEW m \in Msg, InvisibleTimeEnds(m) \/ Revive(m)
      PROVE  Shape' /\ Poppable' /\ \A n \in Msg : broker[n].pops <= broker'[n].pops
  <2>1. UNCHANGED <<owner, gens, pq, loop, tasks, rpcs>>
    BY <1>1, Zenon DEF InvisibleTimeEnds, Revive
  <2>a. broker \in [Msg -> Stored] /\ broker[m] \in Stored
    BY Zenon DEF Shape
  <2>b. PICK x \in Stored : /\ broker' = [broker EXCEPT ![m] = x] /\ x.pops = broker[m].pops
                            /\ x.st = broker[m].st \/ broker[m].pops < MaxPops
    <3>1. CASE InvisibleTimeEnds(m)
      <4>1. broker' = [broker EXCEPT ![m] = [broker[m] EXCEPT !.over = TRUE]]
        BY <3>1 DEF InvisibleTimeEnds
      <4>2. /\ [broker[m] EXCEPT !.over = TRUE] \in Stored
            /\ [broker[m] EXCEPT !.over = TRUE].pops = broker[m].pops
            /\ [broker[m] EXCEPT !.over = TRUE].st = broker[m].st
        BY <2>a DEF Stored
      <4> QED BY <4>1, <4>2, Zenon
    <3>2. CASE Revive(m)
      <4>1. /\ broker' = [broker EXCEPT ![m] = [broker[m] EXCEPT !.st = "ready", !.over = FALSE]]
            /\ broker[m].pops < MaxPops
        BY <2>a, <3>2 DEF Revive
      <4>2. /\ [broker[m] EXCEPT !.st = "ready", !.over = FALSE] \in Stored
            /\ [broker[m] EXCEPT !.st = "ready", !.over = FALSE].pops = broker[m].pops
        BY <2>a DEF Stored
      <4> QED BY <4>1, <4>2, Zenon
    <3> QED BY <1>1, <3>1, <3>2, Zenon
  <2>2. /\ broker' \in [Msg -> Stored]
        /\ \A n \in Msg : broker'[n].pops = broker[n].pops
        /\ \A n \in Msg : n # m => broker'[n] = broker[n]
        /\ broker'[m] = x
    BY <2>a, <2>b, BrokerSets, Zenon
  <2>3. \A n \in Msg : broker'[n].st = broker[n].st \/ broker[n].pops < MaxPops
    BY <2>b, <2>2, Zenon
  <2>4. Poppable'
    BY <2>2, <2>3, Zenon DEF Poppable
  <2>5. \A n \in Msg : broker[n].pops <= broker'[n].pops
    BY <1>m, <1>p, <2>2
  <2> QED BY <2>1, <2>2, <2>4, <2>5, Zenon DEF Shape
<1>2. ASSUME UNCHANGED broker PROVE Poppable' /\ \A n \in Msg : broker[n].pops <= broker'[n].pops
  <2>1. \A n \in Msg : broker[n].pops <= broker'[n].pops
    BY <1>m, <1>p, <1>2
  <2> QED BY <1>2, <2>1, Zenon DEF Poppable
<1>3. CASE Assign
  <2>1. /\ gens < MaxChurn + 1 /\ gens' = gens + 1 /\ owner' = gens + 1
        /\ loop' = [loop EXCEPT ![gens + 1].pc = "top"]
        /\ UNCHANGED <<broker, pq, tasks, rpcs>>
    BY <1>3, Zenon DEF Assign
  <2>2. loop' \in [Gen -> [pc : {"none", "top", "answer"}, rows : SUBSET Row]]
    BY <2>1, ZenonT(40) DEF Shape
  <2>3. gens' \in 0..MaxChurn + 1 /\ owner' \in 0..gens'
    BY <1>m, <2>1 DEF Shape
  <2> QED BY <1>2, <2>1, <2>2, <2>3, Zenon DEF Shape
<1>4. CASE Retire
  <2>1. /\ owner' = 0 /\ pq' = [pq EXCEPT ![owner].dropped = TRUE]
        /\ UNCHANGED <<broker, gens, loop, tasks, rpcs>>
    BY <1>4, Zenon DEF Retire
  <2>2. pq' \in [Gen -> [wait : Int, dropped : BOOLEAN]]
    BY <2>1, ZenonT(40) DEF Shape
  <2>3. owner' \in 0..gens'
    BY <1>m, <2>1 DEF Shape
  <2> QED BY <1>2, <2>1, <2>2, <2>3, Zenon DEF Shape
<1>5. ASSUME NEW r \in rpcs, Rpc(r)
      PROVE  Shape' /\ Poppable' /\ \A n \in Msg : broker[n].pops <= broker'[n].pops
  <2>1. rpcs' \subseteq rpcs /\ UNCHANGED <<owner, gens, pq, loop, tasks>>
    BY <1>5, Zenon DEF Rpc
  <2>2. CASE UNCHANGED broker
    BY <1>2, <2>1, <2>2, Zenon DEF Shape
  <2>3. CASE broker' # broker
    <3> DEFINE m == r.row[1]
    <3>1. m \in Msg /\ broker \in [Msg -> Stored] /\ broker[m] \in Stored
      <4>1. r.row \in Row
        BY <1>5, Zenon DEF Shape
      <4> QED BY <4>1, RowIs, Zenon DEF Shape
    <3>a. \/ broker' = [broker EXCEPT ![m] = [broker[m] EXCEPT !.st = "gone"]]
          \/ broker' = [broker EXCEPT ![m] = [broker[m] EXCEPT !.over = FALSE]]
      BY <1>5, <2>3 DEF Rpc
    <3> HIDE DEF m
    <3>b. /\ [broker[m] EXCEPT !.st = "gone"] \in Stored /\ [broker[m] EXCEPT !.over = FALSE] \in Stored
          /\ [broker[m] EXCEPT !.st = "gone"].pops = broker[m].pops
          /\ [broker[m] EXCEPT !.over = FALSE].pops = broker[m].pops
          /\ [broker[m] EXCEPT !.st = "gone"].st = "gone"
          /\ [broker[m] EXCEPT !.over = FALSE].st = broker[m].st
      BY <3>1 DEF Stored
    <3>2. broker' \in [Msg -> Stored] /\ \A n \in Msg : broker'[n].pops = broker[n].pops
      BY <3>1, <3>a, <3>b, BrokerSets, Zenon
    <3>3. \A n \in Msg : broker'[n].pops = broker[n].pops /\ broker'[n].st \in {broker[n].st, "gone"}
      <4>1. \A n \in Msg : n # m => broker'[n] = broker[n]
        BY <3>1, <3>a, Zenon
      <4>2. broker'[m].st \in {broker[m].st, "gone"}
        BY <3>1, <3>a, <3>b, BrokerSets, Zenon
      <4> QED BY <3>2, <4>1, <4>2, Zenon
    <3>4. \A n \in Msg : broker[n].pops <= broker'[n].pops
      BY <1>m, <1>p, <3>3
    <3>5. Poppable'
      BY <3>3, Zenon DEF Poppable
    <3> QED BY <2>1, <3>2, <3>4, <3>5, Zenon DEF Shape
  <2> QED BY <2>2, <2>3, Zenon
<1>6. ASSUME NEW g \in Gen, Pop(g)
      PROVE  Shape' /\ Poppable' /\ \A n \in Msg : broker[n].pops <= broker'[n].pops
  <2>1. PICK S \in SUBSET Ready :
           /\ broker' = [m \in Msg |-> IF m \in S
                THEN [st |-> "out", pops |-> broker[m].pops + 1, over |-> FALSE]
                ELSE broker[m]]
           /\ \/ loop' = [loop EXCEPT ![g] =
                            [pc |-> "answer", rows |-> {<<m, broker[m].pops + 1>> : m \in S}]]
              \/ UNCHANGED loop
    BY <1>6, Zenon DEF Pop
  <2>2. UNCHANGED <<owner, gens, pq, tasks, rpcs>>
    BY <1>6, Zenon DEF Pop
  <2>3. \A m \in S : m \in Msg /\ broker[m].pops + 1 \in 1..MaxPops /\ broker[m].pops + 1 \in 0..MaxPops
    BY <1>m, <1>p, <2>1 DEF Ready, Poppable
  <2>4. {<<m, broker[m].pops + 1>> : m \in S} \subseteq Row
    BY <2>3 DEF Row
  <2>5. loop' \in [Gen -> [pc : {"none", "top", "answer"}, rows : SUBSET Row]]
    <3> DEFINE R == {<<m, broker[m].pops + 1>> : m \in S}
    <3>1. /\ R \subseteq Row
          /\ UNCHANGED loop \/ loop' = [loop EXCEPT ![g] = [pc |-> "answer", rows |-> R]]
      BY <2>1, <2>4, Zenon
    <3> HIDE DEF R
    <3> QED BY <3>1 DEF Shape
  <2>6. \A m \in S : [st |-> "out", pops |-> broker[m].pops + 1, over |-> FALSE]
                     \in Stored
    BY <2>3 DEF Stored
  <2>7. broker' \in [Msg -> Stored]
    BY <2>1, <2>6, Zenon DEF Shape
  <2>8. \A m \in Msg : \/ broker'[m] = broker[m]
                       \/ broker'[m].st = "out" /\ broker'[m].pops = broker[m].pops + 1
    BY <2>1
  <2>9. Poppable'
    BY <2>8, Zenon DEF Poppable
  <2>10. \A m \in Msg : broker[m].pops <= broker'[m].pops
    BY <1>m, <1>p, <2>8
  <2> QED BY <2>2, <2>5, <2>7, <2>9, <2>10, Zenon DEF Shape
<1>7. ASSUME NEW g \in Gen, PopEnds(g)
      PROVE  Shape' /\ Poppable' /\ \A n \in Msg : broker[n].pops <= broker'[n].pops
  <2>1. loop' = [loop EXCEPT ![g] = NoLoop] /\ UNCHANGED <<broker, owner, gens, pq, tasks, rpcs>>
    BY <1>7, Zenon DEF PopEnds
  <2>2. loop' \in [Gen -> [pc : {"none", "top", "answer"}, rows : SUBSET Row]]
    BY <2>1 DEF Shape, NoLoop
  <2> QED BY <1>2, <2>1, <2>2, Zenon DEF Shape
<1>8. ASSUME NEW g \in Gen, PopAnswer(g)
      PROVE  Shape' /\ Poppable' /\ \A n \in Msg : broker[n].pops <= broker'[n].pops
  <2>1. UNCHANGED <<broker, owner, gens>>
    BY <1>8, Zenon DEF PopAnswer
  <2>2. loop' \in [Gen -> [pc : {"none", "top", "answer"}, rows : SUBSET Row]]
    <3>1. \/ loop' = [loop EXCEPT ![g] = NoLoop]
          \/ loop' = [loop EXCEPT ![g] = [NoLoop EXCEPT !.pc = "top"]]
      BY <1>8, Zenon DEF PopAnswer
    <3> QED BY <3>1 DEF Shape, NoLoop
  <2>3. CASE UNCHANGED <<pq, tasks, rpcs>>
    BY <1>2, <2>1, <2>2, <2>3, Zenon DEF Shape
  <2>4. CASE ~UNCHANGED <<pq, tasks, rpcs>>
    <3> DEFINE S == loop[g].rows
               n == Cardinality(S)
               k == Cardinality(Refused(S))
    <3>1. /\ pq' = [pq EXCEPT ![g].wait = @ + n - k]
          /\ rpcs' = rpcs \cup Acks(Refused(S))
          /\ tasks' = tasks \cup Batches(g, S \ Refused(S))
      BY <1>8, <2>4, Zenon DEF PopAnswer
    <3>2. S \in SUBSET Row /\ Refused(S) \in SUBSET Row /\ S \ Refused(S) \in SUBSET Row
          /\ OneEach(S \ Refused(S))
      BY Zenon DEF Shape, Refused, Delivered, OneEach
    <3>3. n \in Nat /\ k \in Nat
      BY <3>2, RowsFinite, Zenon
    <3> HIDE DEF n, k
    <3>4. pq' \in [Gen -> [wait : Int, dropped : BOOLEAN]]
      BY <3>1, <3>3 DEF Shape
    <3>5. rpcs' \subseteq [kind : {"ack", "change"}, row : Row]
      BY <3>1, <3>2, RpcsOfRows, Zenon DEF Shape
    <3>6. tasks' \subseteq [gen : Gen, pc : {"queued", "listening"}, rows : SUBSET Row]
      <4> DEFINE K == S \ Refused(S)
      <4>1. K \in SUBSET Row /\ OneEach(K) /\ tasks' = tasks \cup Batches(g, K)
        BY <3>1, <3>2, Zenon
      <4> HIDE DEF K
      <4>2. Batches(g, K) \subseteq [gen : Gen, pc : {"queued", "listening"}, rows : SUBSET Row]
        BY <4>1, BatchesSplit, Zenon
      <4> QED BY <4>1, <4>2, Zenon DEF Shape
    <3> QED BY <1>2, <2>1, <2>2, <3>4, <3>5, <3>6, Zenon DEF Shape
  <2> QED BY <2>3, <2>4, Zenon
<1>9. ASSUME NEW t \in tasks, DecFound(t) PROVE pq' \in [Gen -> [wait : Int, dropped : BOOLEAN]]
  <2> DEFINE n == Cardinality(t.rows)
  <2>1. n \in Nat
    BY RowsFinite, Zenon DEF Shape
  <2>2. pq' = [pq EXCEPT ![t.gen].wait = @ - n]
    BY <1>9, Zenon DEF DecFound
  <2> HIDE DEF n
  <2> QED BY <2>1, <2>2, SMTT(30) DEF Shape
<1>10. ASSUME NEW t \in tasks, Run(t)
       PROVE  Shape' /\ Poppable' /\ \A n \in Msg : broker[n].pops <= broker'[n].pops
  <2>1. UNCHANGED <<broker, owner, gens, loop, rpcs>> /\ (UNCHANGED pq \/ DecFound(t))
    BY <1>10, Zenon DEF Run
  <2>2. tasks' \subseteq tasks \cup {[t EXCEPT !.pc = "listening"]}
    BY <1>10, Zenon DEF Run
  <2>3. [t EXCEPT !.pc = "listening"] \in [gen : Gen, pc : {"queued", "listening"}, rows : SUBSET Row]
    BY SMTT(30) DEF Shape
  <2> QED BY <1>2, <1>9, <2>1, <2>2, <2>3, Zenon DEF Shape
<1>11. ASSUME NEW t \in tasks, NEW k \in 0..ConsumeBatch, NEW old \in BOOLEAN, Listened(t, k, old)
       PROVE  Shape' /\ Poppable' /\ \A n \in Msg : broker[n].pops <= broker'[n].pops
  <2>1. /\ UNCHANGED <<broker, owner, gens, loop>> /\ tasks' \subseteq tasks
        /\ ProcessResult(t, k, old) \/ (DecFound(t) /\ UNCHANGED rpcs)
    BY <1>11, Zenon DEF Listened
  <2>2. t.rows \in SUBSET Row
    BY Zenon DEF Shape
  <2>3. DecFound(t) /\ rpcs' \subseteq [kind : {"ack", "change"}, row : Row]
    <3>1. CASE ProcessResult(t, k, old)
      <4>1. DecFound(t) /\ rpcs' \subseteq rpcs \cup [kind : {"ack", "change"}, row : Row]
        BY <2>2, <3>1, Processed, Zenon
      <4> QED BY <4>1, Zenon DEF Shape
    <3> QED BY <2>1, <3>1, Zenon DEF Shape
  <2> QED BY <1>2, <1>9, <2>1, <2>3, Zenon DEF Shape
<1>12. CASE UNCHANGED vars
  BY <1>2, <1>12, Zenon DEF Shape, vars
<1> QED BY <1>1, <1>3, <1>4, <1>5, <1>6, <1>7, <1>8, <1>10, <1>11, <1>12, Zenon
        DEF Next, BrokerStep, LoopStep, TaskStep

-----------------------------------------------------------------------------
(* The broker forgets what is done with and nothing else.                  *)
LEMMA DoneStep ==
    ASSUME BoundAssumption, Shape, AcksDone, GoneIsDone, [Next]_vars
    PROVE  AcksDone' /\ GoneIsDone'
<1>a. SUFFICES /\ done \subseteq done'
               /\ \A r \in rpcs' : r.kind = "ack" => r \in rpcs \/ r.row[1] \in done'
               /\ \A m \in Msg : broker'[m].st = "gone" => broker[m].st = "gone" \/ m \in done
  BY Zenon DEF AcksDone, GoneIsDone
<1>1. ASSUME NEW m \in Msg, InvisibleTimeEnds(m) \/ Revive(m)
      PROVE  \A n \in Msg : broker'[n].st = "gone" => broker[n].st = "gone"
  <2>1. broker \in [Msg -> Stored] /\ broker[m] \in Stored
    BY Zenon DEF Shape
  <2>2. \/ broker' = [broker EXCEPT ![m] = [broker[m] EXCEPT !.over = TRUE]]
        \/ broker' = [broker EXCEPT ![m] = [broker[m] EXCEPT !.st = "ready", !.over = FALSE]]
    BY <1>1, <2>1 DEF InvisibleTimeEnds, Revive
  <2>3. /\ [broker[m] EXCEPT !.over = TRUE].st = broker[m].st
        /\ [broker[m] EXCEPT !.st = "ready", !.over = FALSE].st = "ready"
    BY <2>1 DEF Stored
  <2> QED BY <2>1, <2>2, <2>3, Zenon
<1>2. ASSUME NEW m \in Msg, InvisibleTimeEnds(m) \/ Revive(m) PROVE UNCHANGED <<rpcs, done>>
  BY <1>2, Zenon DEF InvisibleTimeEnds, Revive
<1>3. ASSUME NEW r \in rpcs, Rpc(r)
      PROVE  /\ done' = done /\ rpcs' \subseteq rpcs
             /\ \A m \in Msg : broker'[m].st = "gone" => broker[m].st = "gone" \/ m \in done
  <2>1. done' = done /\ rpcs' \subseteq rpcs
    BY <1>3, Zenon DEF Rpc
  <2> DEFINE m == r.row[1]
  <2>2. m \in Msg /\ broker \in [Msg -> Stored] /\ broker[m] \in Stored
    <3>1. r.row \in Row
      BY <1>3, Zenon DEF Shape
    <3> QED BY <3>1, RowIs, Zenon DEF Shape
  <2>3. \/ UNCHANGED broker
        \/ r.kind = "ack" /\ broker' = [broker EXCEPT ![m] = [broker[m] EXCEPT !.st = "gone"]]
        \/ broker' = [broker EXCEPT ![m] = [broker[m] EXCEPT !.over = FALSE]]
    BY <1>3 DEF Rpc
  <2>4. r.kind = "ack" => m \in done
    BY <1>3, Zenon DEF AcksDone
  <2> HIDE DEF m
  <2>5. [broker[m] EXCEPT !.over = FALSE].st = broker[m].st
    BY <2>2 DEF Stored
  <2>6. ASSUME NEW n \in Msg, broker'[n].st = "gone" PROVE broker[n].st = "gone" \/ n \in done
    <3>1. CASE n = m
      BY <2>2, <2>3, <2>4, <2>5, <2>6, <3>1, Zenon
    <3>2. CASE n # m
      BY <2>2, <2>3, <2>6, <3>2, Zenon
    <3> QED BY <3>1, <3>2, Zenon
  <2> QED BY <2>1, <2>6, Zenon
<1>4. ASSUME NEW g \in Gen, Pop(g)
      PROVE  /\ UNCHANGED <<rpcs, done>>
             /\ \A m \in Msg : broker'[m].st = "gone" => broker[m].st = "gone"
  <2>1. UNCHANGED <<rpcs, done>>
    BY <1>4, Zenon DEF Pop
  <2>2. PICK S \in SUBSET Ready :
           broker' = [m \in Msg |-> IF m \in S
                THEN [st |-> "out", pops |-> broker[m].pops + 1, over |-> FALSE]
                ELSE broker[m]]
    BY <1>4, Zenon DEF Pop
  <2>3. \A m \in Msg : broker'[m] = broker[m] \/ broker'[m].st = "out"
    BY <2>2
  <2> QED BY <2>1, <2>3, Zenon
<1>5. ASSUME NEW g \in Gen, PopAnswer(g)
      PROVE  /\ UNCHANGED broker /\ done \subseteq done'
             /\ \A r \in rpcs' : r \in rpcs \/ r.row[1] \in done'
  <2>1. UNCHANGED broker
    BY <1>5, Zenon DEF PopAnswer
  <2>2. CASE UNCHANGED <<rpcs, done>>
    BY <2>1, <2>2, Zenon
  <2>3. CASE ~UNCHANGED <<rpcs, done>>
    <3> DEFINE S == Refused(loop[g].rows)
    <3>1. rpcs' = rpcs \cup Acks(S) /\ done' = done \cup {r[1] : r \in S}
      BY <1>5, <2>3, Zenon DEF PopAnswer
    <3>2. S \in SUBSET Row
      BY Zenon DEF Shape, Refused
    <3> HIDE DEF S
    <3>3. \A r \in Acks(S) : r.row \in S
      BY <3>2, RpcsOfRows, Zenon
    <3>4. \A r \in Acks(S) : r.row[1] \in done'
      BY <3>1, <3>3, Zenon
    <3> QED BY <2>1, <3>1, <3>4, Zenon
  <2> QED BY <2>2, <2>3, Zenon
<1>6. ASSUME NEW t \in tasks, NEW k \in 0..ConsumeBatch, NEW old \in BOOLEAN, Listened(t, k, old)
      PROVE  /\ UNCHANGED broker /\ done \subseteq done'
             /\ \A r \in rpcs' : r.kind = "ack" => r \in rpcs \/ r.row[1] \in done'
  <2>1. UNCHANGED broker /\ (ProcessResult(t, k, old) \/ UNCHANGED <<rpcs, done>>)
    BY <1>6, Zenon DEF Listened
  <2>2. t.rows \in SUBSET Row
    BY Zenon DEF Shape
  <2>3. CASE ProcessResult(t, k, old)
    BY <2>1, <2>2, <2>3, Processed, Zenon
  <2> QED BY <2>1, <2>3, Zenon
<1>7. CASE \/ Assign \/ Retire \/ UNCHANGED vars \/ \E t \in tasks : Run(t)
           \/ \E g \in Gen : PopEnds(g)
  <2>1. UNCHANGED <<broker, rpcs, done>>
    BY <1>7, Zenon DEF Assign, Retire, vars, Run, PopEnds
  <2> QED BY <2>1, Zenon
<1>8. CASE BrokerStep \/ \E g \in Gen : Pop(g)
  BY <1>1, <1>2, <1>4, <1>8, Zenon DEF BrokerStep
<1>9. CASE (\E r \in rpcs : Rpc(r)) \/ (\E g \in Gen : PopAnswer(g))
  BY <1>3, <1>5, <1>9, Zenon
<1>10. CASE \E t \in tasks : \E k \in 0..ConsumeBatch, old \in BOOLEAN : Listened(t, k, old)
  BY <1>6, <1>10, Zenon
<1> QED BY <1>7, <1>8, <1>9, <1>10, Zenon DEF Next, LoopStep, TaskStep

-----------------------------------------------------------------------------
(* A row stays in one place, and is one the broker has made.               *)
LEMMA RowsStep ==
    ASSUME BoundAssumption, Shape, Shape', Delivered, Apart, [Next]_vars,
           \A m \in Msg : broker[m].pops <= broker'[m].pops
    PROVE  Delivered' /\ Apart'
<1>s. /\ \A g \in Gen : loop[g].rows \subseteq Row
      /\ \A t \in tasks : t.gen \in Gen /\ t.rows \subseteq Row
  BY DEF Shape
<1>p. \A m \in Msg : broker[m].pops \in Int /\ broker'[m].pops \in Int
  BY DEF Shape, Stored
<1>d. ASSUME NEW r \in Row, r[2] <= broker[r[1]].pops PROVE r[2] <= broker'[r[1]].pops
  <2>1. r[1] \in Msg /\ r[2] \in Int
    <3>1. r[1] \in Msg /\ r[2] \in 1..MaxPops
      BY RowIs, Zenon
    <3> QED BY <3>1
  <2> QED BY <1>p, <1>d, <2>1, SMTT(30)
<1>1. ASSUME \A g \in Gen : loop'[g].rows \in {{}, loop[g].rows},
             \A t \in tasks' : t \in tasks
      PROVE  Delivered' /\ Apart'
  <2>1. Delivered'
    <3>1. ASSUME NEW g \in Gen
          PROVE  OneEach(loop'[g].rows) /\ \A r \in loop'[g].rows : r[2] <= broker'[r[1]].pops
      <4>1. CASE loop'[g].rows = {}
        BY <4>1, Zenon DEF OneEach
      <4>2. CASE loop'[g].rows = loop[g].rows
        BY <1>s, <1>d, <4>2, Zenon DEF Delivered
      <4> QED BY <1>1, <4>1, <4>2, Zenon
    <3>2. \A t \in tasks' : \A r \in t.rows : r[2] <= broker'[r[1]].pops
      BY <1>s, <1>d, <1>1, Zenon DEF Delivered
    <3> QED BY <3>1, <3>2, Zenon DEF Delivered, OneEach
  <2>2. Apart'
    <3>1. \A t \in tasks' : t.rows \cap loop'[t.gen].rows = {}
      BY <1>s, <1>1, Zenon DEF Apart
    <3> QED BY <1>1, <3>1, Zenon DEF Apart
  <2> QED BY <2>1, <2>2
<1>2. ASSUME NEW t \in tasks, Run(t) PROVE Delivered' /\ Apart'
  <2> DEFINE u == [t EXCEPT !.pc = "listening"]
  <2>1. UNCHANGED loop /\ (tasks' = tasks \ {t} \/ tasks' = (tasks \ {t}) \cup {u})
    BY <1>2, Zenon DEF Run
  <2>2. CASE tasks' = tasks \ {t}
    BY <1>1, <2>1, <2>2, Zenon
  <2>3. CASE tasks' = (tasks \ {t}) \cup {u}
    <3>1. u.gen = t.gen /\ u.rows = t.rows
      BY DEF Shape
    <3> HIDE DEF u
    <3>2. \A x \in tasks' : x = u \/ (x \in tasks /\ x # t)
      BY <2>3, Zenon
    <3>3. Delivered'
      <4>1. \A x \in tasks' : \A r \in x.rows : r[2] <= broker'[r[1]].pops
        BY <1>s, <1>d, <3>1, <3>2, Zenon DEF Delivered
      <4>2. \A g \in Gen : \A r \in loop[g].rows : r[2] <= broker'[r[1]].pops
        BY <1>s, <1>d, Zenon DEF Delivered
      <4> QED BY <2>1, <4>1, <4>2, Zenon DEF Delivered, OneEach
    <3>4. \A x, y \in tasks' : x.gen = y.gen /\ x # y => x.rows \cap y.rows = {}
      <4>1. \A y \in tasks : y # t /\ y.gen = t.gen => t.rows \cap y.rows = {} /\ y.rows \cap t.rows = {}
        BY Zenon DEF Apart
      <4>2. \A x, y \in tasks : x.gen = y.gen /\ x # y => x.rows \cap y.rows = {}
        BY Zenon DEF Apart
      <4> QED BY <3>1, <3>2, <4>1, <4>2, Zenon
    <3>5. \A x \in tasks' : /\ x.rows \cap loop'[x.gen].rows = {}
                            /\ x.rows # {} /\ Cardinality(x.rows) <= ConsumeBatch
      BY <2>1, <3>1, <3>2, Zenon DEF Apart
    <3> QED BY <3>3, <3>4, <3>5, Zenon DEF Apart
  <2> QED BY <2>1, <2>2, <2>3, Zenon
<1>3. ASSUME NEW g \in Gen, Pop(g) PROVE Delivered' /\ Apart'
  <2>1. PICK S \in SUBSET Ready :
           /\ broker' = [m \in Msg |-> IF m \in S
                THEN [st |-> "out", pops |-> broker[m].pops + 1, over |-> FALSE]
                ELSE broker[m]]
           /\ \/ loop' = [loop EXCEPT ![g] =
                            [pc |-> "answer", rows |-> {<<m, broker[m].pops + 1>> : m \in S}]]
              \/ UNCHANGED loop
    BY <1>3, Zenon DEF Pop
  <2>2. UNCHANGED tasks
    BY <1>3, Zenon DEF Pop
  <2> DEFINE P == {<<m, broker[m].pops + 1>> : m \in S}
  <2>3. CASE UNCHANGED loop
    BY <1>1, <2>2, <2>3, Zenon
  <2>4. CASE loop' = [loop EXCEPT ![g] = [pc |-> "answer", rows |-> P]]
    <3>1. loop'[g].rows = P /\ \A h \in Gen : h # g => loop'[h] = loop[h]
      BY <2>4 DEF Shape
    <3>2. \A r \in P : /\ r[1] \in S /\ r[1] \in Msg /\ r[2] = broker[r[1]].pops + 1
                       /\ r = <<r[1], broker[r[1]].pops + 1>>
      BY DEF Ready
    <3> HIDE DEF P
    <3>3. \A m \in S : broker'[m].pops = broker[m].pops + 1
      BY <2>1 DEF Ready
    <3>4. \A r \in P : r[2] <= broker'[r[1]].pops /\ ~(r[2] <= broker[r[1]].pops)
      BY <1>p, <3>2, <3>3
    <3>5. OneEach(P)
      BY <3>2, Zenon DEF OneEach
    <3>6. Delivered'
      <4>1. \A t \in tasks' : \A r \in t.rows : r[2] <= broker'[r[1]].pops
        BY <1>s, <1>d, <2>2, Zenon DEF Delivered
      <4>2. \A h \in Gen : h # g => \A r \in loop'[h].rows : r[2] <= broker'[r[1]].pops
        BY <1>s, <1>d, <3>1, Zenon DEF Delivered
      <4>3. \A h \in Gen : OneEach(loop'[h].rows)
        BY <3>1, <3>5, Zenon DEF Delivered
      <4> QED BY <3>1, <3>4, <4>1, <4>2, <4>3, Zenon DEF Delivered, OneEach
    <3>7. Apart'
      <4>1. \A t \in tasks : t.rows \cap P = {}
        BY <3>4, Zenon DEF Delivered
      <4>2. \A t \in tasks : t.rows \cap loop'[t.gen].rows = {}
        BY <1>s, <3>1, <4>1, Zenon DEF Apart
      <4> QED BY <2>2, <4>2, Zenon DEF Apart
    <3> QED BY <3>6, <3>7, SMTT(30)
  <2> QED BY <2>1, <2>3, <2>4, Zenon
<1>4. ASSUME NEW g \in Gen, PopAnswer(g) PROVE Delivered' /\ Apart'
  <2>1. loop' = [loop EXCEPT ![g] = NoLoop] \/ loop' = [loop EXCEPT ![g] = [NoLoop EXCEPT !.pc = "top"]]
    BY <1>4, Zenon DEF PopAnswer
  <2>2. loop'[g].rows = {} /\ \A h \in Gen : h # g => loop'[h] = loop[h]
    <3>1. NoLoop.rows = {} /\ [NoLoop EXCEPT !.pc = "top"].rows = {}
      BY DEF NoLoop
    <3> QED BY <2>1, <3>1, Zenon DEF Shape
  <2>3. CASE UNCHANGED tasks
    BY <1>1, <2>2, <2>3, Zenon
  <2>4. CASE ~UNCHANGED tasks
    <3> DEFINE K == loop[g].rows \ Refused(loop[g].rows)
    <3>1. tasks' = tasks \cup Batches(g, K)
      BY <1>4, <2>4, Zenon DEF PopAnswer
    <3>2. K \in SUBSET Row /\ OneEach(K) /\ K \subseteq loop[g].rows
      BY <1>s, Zenon DEF Delivered, OneEach
    <3> HIDE DEF K
    <3>3. /\ \A b \in Batches(g, K) :
                b.gen = g /\ b.rows \subseteq K /\ b.rows # {} /\ Cardinality(b.rows) <= ConsumeBatch
          /\ \A b, c \in Batches(g, K) : b # c => b.rows \cap c.rows = {}
      BY <3>2, BatchesSplit, Zenon
    <3>4. Delivered'
      <4>1. \A r \in loop[g].rows : r[2] <= broker'[r[1]].pops
        BY <1>s, <1>d, Zenon DEF Delivered
      <4>2. \A t \in tasks : \A r \in t.rows : r[2] <= broker'[r[1]].pops
        BY <1>s, <1>d, Zenon DEF Delivered
      <4>3. \A t \in tasks' : \A r \in t.rows : r[2] <= broker'[r[1]].pops
        BY <3>1, <3>2, <3>3, <4>1, <4>2, Zenon
      <4>4. \A h \in Gen : h # g => \A r \in loop'[h].rows : r[2] <= broker'[r[1]].pops
        BY <1>s, <1>d, <2>2, Zenon DEF Delivered
      <4>5. \A h \in Gen : OneEach(loop'[h].rows)
        BY <2>2, Zenon DEF Delivered, OneEach
      <4> QED BY <2>2, <4>3, <4>4, <4>5, Zenon DEF Delivered, OneEach
    <3>5. \A t \in tasks, b \in Batches(g, K) :
             t.gen = b.gen => t.rows \cap b.rows = {} /\ b.rows \cap t.rows = {}
      BY <3>2, <3>3, Zenon DEF Apart
    <3>6. \A t, u \in tasks' : t.gen = u.gen /\ t # u => t.rows \cap u.rows = {}
      <4>1. \A t, u \in tasks : t.gen = u.gen /\ t # u => t.rows \cap u.rows = {}
        BY Zenon DEF Apart
      <4> QED BY <3>1, <3>3, <3>5, <4>1, Zenon
    <3>7. \A t \in tasks' : t.rows \cap loop'[t.gen].rows = {}
      <4>1. \A t \in tasks : t.rows \cap loop'[t.gen].rows = {}
        BY <1>s, <2>2, Zenon DEF Apart
      <4> QED BY <2>2, <3>1, <3>3, <4>1, Zenon
    <3>8. \A t \in tasks' : t.rows # {} /\ Cardinality(t.rows) <= ConsumeBatch
      BY <3>1, <3>3, Zenon DEF Apart
    <3> QED BY <3>4, <3>6, <3>7, <3>8, Zenon DEF Apart
  <2> QED BY <2>3, <2>4, Zenon
<1>5. ASSUME NEW g \in Gen, PopEnds(g) PROVE Delivered' /\ Apart'
  <2>1. loop' = [loop EXCEPT ![g] = NoLoop] /\ UNCHANGED tasks
    BY <1>5, Zenon DEF PopEnds
  <2>2. loop'[g].rows = {} /\ \A h \in Gen : h # g => loop'[h] = loop[h]
    BY <2>1 DEF Shape, NoLoop
  <2> QED BY <1>1, <2>1, <2>2, Zenon
<1>6. CASE Assign
  <2>1. loop' = [loop EXCEPT ![gens + 1].pc = "top"] /\ UNCHANGED tasks
    BY <1>6, Zenon DEF Assign
  <2>2. \A h \in Gen : loop'[h].rows = loop[h].rows
    BY <2>1 DEF Shape
  <2> QED BY <1>1, <2>1, <2>2, Zenon
<1>7. CASE \/ BrokerStep \/ Retire \/ (\E r \in rpcs : Rpc(r)) \/ UNCHANGED vars
           \/ \E t \in tasks : \E k \in 0..ConsumeBatch, old \in BOOLEAN : Listened(t, k, old)
  <2>1. UNCHANGED loop /\ tasks' \subseteq tasks
    BY <1>7, Zenon DEF BrokerStep, InvisibleTimeEnds, Revive, Retire, Rpc, vars, Listened
  <2> QED BY <1>1, <2>1, Zenon
<1> QED BY <1>2, <1>3, <1>4, <1>5, <1>6, <1>7, Zenon DEF Next, LoopStep, TaskStep

-----------------------------------------------------------------------------
(* The smaller of two numbers.                                             *)
LEMMA MinOfTwo ==
    ASSUME NEW a \in Nat, NEW b \in Nat
    PROVE  Min({a, b}) <= a
<1>1. \E x \in {a, b} : \A y \in {a, b} : x =< y
  <2>1. CASE a =< b
    BY <2>1
  <2>2. CASE b =< a
    BY <2>2
  <2> QED BY <2>1, <2>2
<1> QED BY <1>1 DEF Min

(* The counter of unacknowledged rows follows the executor.                *)
LEMMA DebtStep ==
    ASSUME BoundAssumption, Shape, Shape', Delivered, Apart, Debts, [Next]_vars
    PROVE  Debts'
<1>b. Threshold \in Nat /\ PopBatch \in Nat
  BY DEF BoundAssumption
<1>s. /\ \A g \in Gen : loop[g].rows \in SUBSET Row /\ pq[g].wait \in Int /\ pq'[g].wait \in Int
      /\ \A t \in tasks : t.gen \in Gen /\ t.rows \in SUBSET Row
  BY DEF Shape
<1>o. \A g \in Gen : Owed(g) \in SUBSET Row
  BY <1>s, Zenon DEF Owed
<1>f. \A S \in SUBSET Row : IsFiniteSet(S) /\ Cardinality(S) \in Nat
  BY RowsFinite, Zenon
<1>g. SUFFICES ASSUME NEW g \in Gen, ~pq'[g].dropped
               PROVE  pq'[g].wait = Cardinality(Owed(g)') /\ Asked(g)'
  BY Zenon DEF Debts, DebtExact
<1>0. ~pq[g].dropped => pq[g].wait = Cardinality(Owed(g)) /\ Asked(g)
  BY Zenon DEF Debts, DebtExact
<1>1. ASSUME Owed(g)' = Owed(g), UNCHANGED pq, loop'[g].pc = "answer" => loop'[g] = loop[g]
      PROVE  pq'[g].wait = Cardinality(Owed(g)') /\ Asked(g)'
  <2>1. ~pq[g].dropped
    BY <1>g, <1>1, Zenon
  <2> QED BY <1>0, <1>1, <2>1, Zenon DEF Asked
<1>2. ASSUME UNCHANGED tasks PROVE Owed(g)' = Owed(g)
  BY <1>2, Zenon DEF Owed
<1>3. ASSUME NEW t \in tasks, tasks' = tasks \ {t}
      PROVE  /\ t.rows \subseteq Owed(t.gen)
             /\ g # t.gen => Owed(g)' = Owed(g)
             /\ g = t.gen => Owed(g)' = Owed(g) \ t.rows
  <2>1. t.rows \subseteq Owed(t.gen)
    BY Zenon DEF Owed
  <2>2. ASSUME g # t.gen PROVE Owed(g)' = Owed(g)
    BY <1>3, <2>2, Zenon DEF Owed
  <2>3. ASSUME g = t.gen PROVE Owed(g)' = Owed(g) \ t.rows
    <3>1. \A u \in tasks : u.gen = g /\ u # t => u.rows \cap t.rows = {}
      BY <2>3, Zenon DEF Apart
    <3>2. \A r : r \in Owed(g)' <=> \E u \in tasks : u # t /\ u.gen = g /\ r \in u.rows
      BY <1>3, Zenon DEF Owed
    <3>3. \A r : r \in Owed(g) <=> \E u \in tasks : u.gen = g /\ r \in u.rows
      BY Zenon DEF Owed
    <3> QED BY <3>1, <3>2, <3>3, Zenon
  <2> QED BY <2>1, <2>2, <2>3, Zenon
<1>4. ASSUME NEW t \in tasks, tasks' = tasks \ {t}, DecFound(t), UNCHANGED loop
      PROVE  pq'[g].wait = Cardinality(Owed(g)') /\ Asked(g)'
  <2> DEFINE n == Cardinality(t.rows)
  <2>1. n \in Nat /\ pq' = [pq EXCEPT ![t.gen].wait = @ - n]
    BY <1>4, <1>s, <1>f, Zenon DEF DecFound
  <2>2. /\ g # t.gen => pq'[g] = pq[g]
        /\ g = t.gen => pq'[g].wait = pq[g].wait - n /\ pq'[g].dropped = pq[g].dropped
    <3> HIDE DEF n
    <3> QED BY <2>1 DEF Shape
  <2>3. CASE g # t.gen
    <3>1. Owed(g)' = Owed(g) /\ ~pq[g].dropped /\ pq'[g] = pq[g]
      BY <1>3, <1>4, <1>g, <2>2, <2>3, Zenon
    <3> QED BY <1>0, <1>4, <3>1, Zenon DEF Asked
  <2>4. CASE g = t.gen
    <3>1. /\ Owed(g)' = Owed(g) \ t.rows /\ t.rows \subseteq Owed(g) /\ ~pq[g].dropped
          /\ pq'[g].wait = pq[g].wait - n
      BY <1>3, <1>4, <1>g, <2>2, <2>4, Zenon
    <3>2. Cardinality(Owed(g) \ t.rows) = Cardinality(Owed(g)) - Cardinality(Owed(g) \cap t.rows)
      BY <1>o, <1>f, FS_Difference, Zenon
    <3>3. Owed(g) \cap t.rows = t.rows
      BY <3>1, Zenon
    <3>4. pq'[g].wait = Cardinality(Owed(g)')
      BY <1>0, <1>f, <1>o, <3>1, <3>2, <3>3, SMTT(30)
    <3>5. pq[g].wait <= Threshold => pq'[g].wait <= Threshold
      BY <1>b, <1>s, <2>1, <3>1, SMTT(30)
    <3>6. pq[g].wait <= Threshold + PopBatch => pq'[g].wait <= Threshold + PopBatch
      BY <1>b, <1>s, <2>1, <3>1
    <3> QED BY <1>0, <1>4, <3>1, <3>4, <3>5, <3>6, Zenon DEF Asked
  <2> QED BY <2>3, <2>4, Zenon
<1>5. ASSUME NEW t \in tasks, Run(t) PROVE pq'[g].wait = Cardinality(Owed(g)') /\ Asked(g)'
  <2> DEFINE u == [t EXCEPT !.pc = "listening"]
  <2>1. UNCHANGED loop
    BY <1>5, Zenon DEF Run
  <2>2. CASE pq[t.gen].dropped
    <3>1. tasks' = tasks \ {t} /\ UNCHANGED pq
      BY <1>5, <2>2, Zenon DEF Run
    <3>2. g # t.gen
      BY <1>g, <2>2, <3>1, Zenon
    <3> QED BY <1>1, <1>3, <2>1, <3>1, <3>2, Zenon
  <2>3. CASE DecFound(t) /\ tasks' = tasks \ {t}
    BY <1>4, <2>1, <2>3, Zenon
  <2>4. CASE tasks' = (tasks \ {t}) \cup {u} /\ UNCHANGED pq
    <3>1. u.gen = t.gen /\ u.rows = t.rows
      BY DEF Shape
    <3> HIDE DEF u
    <3>2. \A r : r \in Owed(g)' <=> \E x \in tasks' : x.gen = g /\ r \in x.rows
      BY Zenon DEF Owed
    <3>3. \A r : r \in Owed(g) <=> \E x \in tasks : x.gen = g /\ r \in x.rows
      BY Zenon DEF Owed
    <3>4. \A r : (\E x \in tasks' : x.gen = g /\ r \in x.rows)
                 <=> (\E x \in tasks : x.gen = g /\ r \in x.rows)
      BY <2>4, <3>1, Zenon
    <3>5. Owed(g)' = Owed(g)
      BY <3>2, <3>3, <3>4, Zenon
    <3> QED BY <1>1, <2>1, <2>4, <3>5, Zenon
  <2> QED BY <1>5, <2>2, <2>3, <2>4, Zenon DEF Run
<1>6. ASSUME NEW t \in tasks, NEW k \in 0..ConsumeBatch, NEW old \in BOOLEAN, Listened(t, k, old)
      PROVE  pq'[g].wait = Cardinality(Owed(g)') /\ Asked(g)'
  BY <1>4, <1>6, Zenon DEF Listened, ProcessResult
<1>7. ASSUME NEW h \in Gen, Pop(h) PROVE pq'[g].wait = Cardinality(Owed(g)') /\ Asked(g)'
  <2>1. PICK S \in SUBSET Ready :
           /\ Cardinality(S) = Min({PopBatch, Cardinality(Ready)})
           /\ \/ loop' = [loop EXCEPT ![h] =
                            [pc |-> "answer", rows |-> {<<m, broker[m].pops + 1>> : m \in S}]]
              \/ UNCHANGED loop
    BY <1>7, Zenon DEF Pop
  <2>2. UNCHANGED <<pq, tasks>> /\ ~(pq[h].wait > Threshold)
    BY <1>7, Zenon DEF Pop, FlowControlHit
  <2> DEFINE P == {<<m, broker[m].pops + 1>> : m \in S}
  <2>3. CASE UNCHANGED loop \/ g # h
    <3>1. loop'[g] = loop[g]
      BY <2>1, <2>3, Zenon DEF Shape
    <3> QED BY <1>1, <1>2, <2>2, <3>1, Zenon
  <2>4. CASE loop' = [loop EXCEPT ![h] = [pc |-> "answer", rows |-> P]] /\ g = h
    <3>1. loop'[g].rows = P
      BY <2>4, SMTT(30) DEF Shape
    <3>2. \A r \in P : r[1] \in S /\ r = <<r[1], broker[r[1]].pops + 1>>
      OBVIOUS
    <3> HIDE DEF P
    <3>3. IsFiniteSet(Ready)
      BY FS_Subset, Zenon DEF Ready, BoundAssumption
    <3>4. IsFiniteSet(S) /\ Cardinality(Ready) \in Nat /\ Cardinality(S) \in Nat
      BY <2>1, <3>3, FS_Subset, FS_CardinalityType, Zenon
    <3>5. Cardinality(S) <= PopBatch
      BY <1>b, <2>1, <3>4, MinOfTwo, Zenon
    <3> DEFINE f == [r \in P |-> r[1]]
    <3>6. f \in Injection(P, S)
      BY <3>2, Zenon DEF Injection, IsInjective
    <3>7. IsFiniteSet(P) /\ Cardinality(P) <= Cardinality(S)
      BY <3>4, <3>6, FS_Injection, Zenon
    <3>8. Cardinality(P) \in Nat
      BY <3>7, FS_CardinalityType, Zenon
    <3>9. Cardinality(P) <= PopBatch
      BY <1>b, <3>4, <3>5, <3>7, <3>8, SMTT(30)
    <3>10. pq'[g].wait <= Threshold /\ pq'[g].wait <= Threshold + PopBatch
      BY <1>b, <1>s, <2>2, <2>4, SMTT(30)
    <3>11. pq'[g].wait = Cardinality(Owed(g)')
      BY <1>0, <1>2, <1>g, <2>2, Zenon
    <3> QED BY <3>1, <3>9, <3>10, <3>11, Zenon DEF Asked
  <2> QED BY <2>1, <2>3, <2>4, Zenon
<1>8. ASSUME NEW h \in Gen, PopAnswer(h) PROVE pq'[g].wait = Cardinality(Owed(g)') /\ Asked(g)'
  <2>1. loop' = [loop EXCEPT ![h] = NoLoop] \/ loop' = [loop EXCEPT ![h] = [NoLoop EXCEPT !.pc = "top"]]
    BY <1>8, Zenon DEF PopAnswer
  <2>2. loop'[h].pc # "answer" /\ (g # h => loop'[g] = loop[g])
    <3>1. NoLoop.pc # "answer" /\ [NoLoop EXCEPT !.pc = "top"].pc # "answer"
      BY DEF NoLoop
    <3> QED BY <2>1, <3>1, Zenon DEF Shape
  <2>3. CASE UNCHANGED <<pq, tasks>>
    BY <1>1, <1>2, <2>2, <2>3, Zenon
  <2>4. CASE ~UNCHANGED <<pq, tasks>>
    <3> DEFINE S == loop[h].rows
               K == S \ Refused(S)
               n == Cardinality(S)
               k == Cardinality(Refused(S))
    <3>1. /\ loop[h].pc = "answer" /\ pq' = [pq EXCEPT ![h].wait = @ + n - k]
          /\ tasks' = tasks \cup Batches(h, K)
      BY <1>8, <2>4, Zenon DEF PopAnswer
    <3>2. K \in SUBSET Row /\ OneEach(K) /\ K \subseteq S /\ S \in SUBSET Row
          /\ Refused(S) \in SUBSET Row /\ S \cap Refused(S) = Refused(S)
      BY <1>s, Zenon DEF Delivered, OneEach, Refused
    <3>3. n \in Nat /\ k \in Nat /\ Cardinality(K) = n - k
      <4>1. n \in Nat /\ k \in Nat /\ IsFiniteSet(S)
        BY <1>f, <3>2, Zenon
      <4>2. Cardinality(K) = n - Cardinality(S \cap Refused(S))
        BY <4>1, FS_Difference, Zenon
      <4> QED BY <3>2, <4>1, <4>2, Zenon
    <3>4. /\ \A b \in Batches(h, K) : b.gen = h /\ b.rows \subseteq K
          /\ \A r \in K : \E b \in Batches(h, K) : r \in b.rows
      <4> HIDE DEF K
      <4> QED BY <3>2, BatchesSplit, ZenonT(40)
    <3>5. /\ g # h => pq'[g] = pq[g]
          /\ g = h => pq'[g].wait = pq[g].wait + n - k /\ pq'[g].dropped = pq[g].dropped
      <4> HIDE DEF n, k
      <4> QED BY <3>1, <3>3 DEF Shape
    <3>6. \A r : r \in Owed(g)' <=> \E x \in tasks' : x.gen = g /\ r \in x.rows
      BY Zenon DEF Owed
    <3>7. \A r : r \in Owed(g) <=> \E x \in tasks : x.gen = g /\ r \in x.rows
      BY Zenon DEF Owed
    <3>8. CASE g # h
      <4>1. Owed(g)' = Owed(g)
        BY <3>1, <3>4, <3>6, <3>7, <3>8, Zenon
      <4>2. ~pq[g].dropped
        BY <1>g, <3>5, <3>8, Zenon
      <4> QED BY <1>0, <2>2, <3>5, <3>8, <4>1, <4>2, Zenon DEF Asked
    <3>9. CASE g = h
      <4>1. ~pq[g].dropped /\ pq'[g].wait = pq[g].wait + n - k
        BY <1>g, <3>5, <3>9, Zenon
      <4>2. Owed(g)' = Owed(g) \cup K
        BY <3>1, <3>4, <3>6, <3>7, <3>9, Zenon
      <4>3. Owed(g) \cap K = {}
        BY <3>2, <3>7, <3>9, Zenon DEF Apart
      <4>4. /\ IsFiniteSet(Owed(g)) /\ IsFiniteSet(K) /\ Cardinality(Owed(g)) \in Nat
            /\ Cardinality({}) = 0
        BY <1>f, <1>o, <3>2, FS_EmptySet, Zenon
      <4>5. Cardinality(Owed(g) \cup K)
              = Cardinality(Owed(g)) + Cardinality(K) - Cardinality(Owed(g) \cap K)
        BY <4>4, FS_Union, Zenon
      <4>6. pq[g].wait = Cardinality(Owed(g)) /\ pq[g].wait <= Threshold /\ n <= PopBatch
        BY <1>0, <3>1, <3>9, <4>1, Zenon DEF Asked
      <4> HIDE DEF n, k, K
      <4>7. pq'[g].wait = Cardinality(Owed(g)')
        <5>1. /\ Cardinality(Owed(g)') = Cardinality(Owed(g)) + Cardinality(K) - 0
              /\ pq'[g].wait = Cardinality(Owed(g)) + n - k
          BY <4>1, <4>2, <4>3, <4>4, <4>5, <4>6, Zenon
        <5> QED BY <3>3, <4>4, <5>1
      <4>8. pq'[g].wait <= Threshold + PopBatch
        BY <1>b, <1>s, <3>3, <4>1, <4>6, SMTT(30)
      <4> QED BY <2>2, <3>9, <4>7, <4>8, Zenon DEF Asked
    <3> QED BY <3>8, <3>9, Zenon
  <2> QED BY <2>3, <2>4, Zenon
<1>9. ASSUME NEW h \in Gen, PopEnds(h) PROVE pq'[g].wait = Cardinality(Owed(g)') /\ Asked(g)'
  <2>1. loop' = [loop EXCEPT ![h] = NoLoop] /\ UNCHANGED <<pq, tasks>> /\ NoLoop.pc = "none"
    BY <1>9 DEF PopEnds, NoLoop
  <2>2. loop'[g].pc = "answer" => loop'[g] = loop[g]
    BY <2>1, Zenon DEF Shape
  <2> QED BY <1>1, <1>2, <2>1, <2>2, Zenon
<1>10. CASE Assign
  <2>1. loop' = [loop EXCEPT ![gens + 1].pc = "top"] /\ UNCHANGED <<pq, tasks>>
    BY <1>10, Zenon DEF Assign
  <2>2. loop'[g].pc = "answer" => loop'[g] = loop[g]
    BY <2>1 DEF Shape
  <2> QED BY <1>1, <1>2, <2>1, <2>2, Zenon
<1>11. CASE Retire
  <2>1. pq' = [pq EXCEPT ![owner].dropped = TRUE] /\ UNCHANGED <<loop, tasks>>
    BY <1>11, Zenon DEF Retire
  <2>2. pq'[g] = pq[g] \/ pq'[g].dropped
    BY <2>1 DEF Shape
  <2> QED BY <1>0, <1>2, <1>g, <2>1, <2>2, Zenon DEF Asked
<1>12. CASE BrokerStep \/ (\E r \in rpcs : Rpc(r)) \/ UNCHANGED vars
  <2>1. UNCHANGED <<pq, loop, tasks>>
    BY <1>12, Zenon DEF BrokerStep, InvisibleTimeEnds, Revive, Rpc, vars
  <2> QED BY <1>1, <1>2, <2>1, Zenon
<1> QED BY <1>5, <1>6, <1>7, <1>8, <1>9, <1>10, <1>11, <1>12, Zenon DEF Next, LoopStep, TaskStep

-----------------------------------------------------------------------------
PopInv == Shape /\ Poppable /\ AcksDone /\ GoneIsDone /\ Delivered /\ Apart /\ Debts

(* The invariant holds before anything was popped.                         *)
LEMMA PopStarts ==
    ASSUME BoundAssumption, Init
    PROVE  PopInv
<1>1. Shape
  <2>1. MaxPops \in Nat /\ MaxChurn \in Nat
    BY DEF BoundAssumption
  <2>2. broker \in [Msg -> Stored]
    BY <2>1 DEF Init, Stored
  <2>3. pq \in [Gen -> [wait : Int, dropped : BOOLEAN]]
    BY DEF Init
  <2>4. loop \in [Gen -> [pc : {"none", "top", "answer"}, rows : SUBSET Row]]
    BY DEF Init, NoLoop
  <2>5. gens \in 0..MaxChurn + 1 /\ owner \in 0..gens
    BY <2>1 DEF Init
  <2> QED BY <2>2, <2>3, <2>4, <2>5, Zenon DEF Init, Shape
<1>2. \A m \in Msg : broker[m].st = "ready" /\ broker[m].pops = 0
  BY DEF Init
<1>3. Poppable /\ GoneIsDone
  BY <1>2 DEF Poppable, GoneIsDone, BoundAssumption
<1>4. \A g \in Gen : loop[g].rows = {} /\ loop[g].pc = "none" /\ pq[g].wait = 0
  BY DEF Init, NoLoop
<1>5. tasks = {} /\ rpcs = {}
  BY Zenon DEF Init
<1>6. AcksDone /\ Delivered /\ Apart
  BY <1>4, <1>5, Zenon DEF AcksDone, Delivered, Apart, OneEach
<1>7. Debts
  <2>1. \A g \in Gen : Owed(g) = {}
    BY <1>5, Zenon DEF Owed
  <2>2. \A g \in Gen : pq[g].wait = Cardinality(Owed(g))
    BY <1>4, <2>1, FS_EmptySet, Zenon
  <2>3. 0 <= Threshold + PopBatch
    BY DEF BoundAssumption
  <2> QED BY <1>4, <2>2, <2>3, Zenon DEF Debts, DebtExact, Asked
<1> QED BY <1>1, <1>3, <1>6, <1>7, Zenon DEF PopInv

(* It holds in every reachable state.                                      *)
LEMMA PopHeld == ASSUME BoundAssumption PROVE Spec => []PopInv
<1>1. Init => PopInv
  BY PopStarts, Zenon
<1>2. ASSUME PopInv, [Next]_vars PROVE PopInv'
  <2>0. Shape /\ Poppable /\ AcksDone /\ GoneIsDone /\ Delivered /\ Apart /\ Debts
    BY <1>2, Zenon DEF PopInv
  <2>1. Shape' /\ Poppable' /\ \A m \in Msg : broker[m].pops <= broker'[m].pops
    BY <1>2, <2>0, ShapeStep, Zenon
  <2>2. AcksDone' /\ GoneIsDone'
    BY <1>2, <2>0, DoneStep, Zenon
  <2>3. Delivered' /\ Apart'
    BY <1>2, <2>0, <2>1, RowsStep, Zenon
  <2>4. Debts'
    BY <1>2, <2>0, <2>1, DebtStep, Zenon
  <2> QED BY <2>1, <2>2, <2>3, <2>4, Zenon DEF PopInv
<1>3. PopInv /\ [Next]_vars => PopInv'
  BY <1>2, Zenon
<1> QED BY <1>1, <1>3, PTL DEF Spec

(* The state keeps its types, and no batch given to pop_executor is empty  *)
(* or longer than consume_message_batch_max_size.                          *)
THEOREM PopTypes == ASSUME BoundAssumption PROVE Spec => []TypeOK
<1>1. ASSUME PopInv PROVE TypeOK
  <2>1. \A m \in Msg : broker[m].st \in {"ready", "out", "gone"} /\ broker[m].pops \in 0..MaxPops
    BY <1>1 DEF PopInv, Shape, Stored
  <2>2. \A g \in Gen : loop[g].rows \subseteq Row /\ pq[g].wait \in Int
    BY <1>1 DEF PopInv, Shape
  <2>3. \A t \in tasks : t.rows \subseteq Row /\ t.rows # {} /\ Cardinality(t.rows) <= ConsumeBatch
    BY <1>1, Zenon DEF PopInv, Shape, Apart
  <2> QED BY <1>1, <2>1, <2>2, <2>3, Zenon DEF PopInv, Shape, TypeOK
<1> QED BY <1>1, PopHeld, PTL

(* The broker deletes a message only when it was accepted, filtered out or *)
(* out of retries, whatever acks and changes of the invisible time are     *)
(* lost, late or overtaken by the next delivery.                           *)
THEOREM AckedOnlyWhenDone == ASSUME BoundAssumption PROVE Spec => []GoneIsDone
<1>1. PopInv => GoneIsDone
  BY Zenon DEF PopInv
<1> QED BY <1>1, PopHeld, PTL

(* wait_ack_msg_count of a queue that was not dropped is the number of     *)
(* rows its loop and its batches still hold: it is never negative, and     *)
(* exceeds pop_threshold_for_queue by one answer of the broker at most.    *)
THEOREM DebtCounted == ASSUME BoundAssumption PROVE Spec => [](DebtExact /\ DebtBounded)
<1>1. ASSUME PopInv PROVE DebtExact /\ DebtBounded
  <2>1. DebtExact /\ \A g \in Gen : ~pq[g].dropped => pq[g].wait <= Threshold + PopBatch
    BY <1>1, Zenon DEF PopInv, Debts, Asked
  <2> QED BY <2>1, Zenon DEF DebtExact, DebtBounded
<1> QED BY <1>1, PopHeld, PTL

-----------------------------------------------------------------------------
(* The pool of consume callbacks.                                          *)

(* The pool counts with the operators it brings along.                     *)
LEMMA Counting ==
    \A S : Ex!Cardinality(S) = Cardinality(S) /\ Ex!IsFiniteSet(S) = IsFiniteSet(S)
BY Zenon DEF Ex!Cardinality, Cardinality, Ex!IsFiniteSet, IsFiniteSet

PoolAssumption == Ex!SizeAssumption /\ Ex!WorkerAssumption

Word == {"new", "queued", "done", "rejected"}

PoolTypes ==
    /\ queue \in Seq(Task) /\ wpc \in [Worker -> Ex!Stage]
    /\ signal \subseteq Worker /\ submitting \subseteq Task
    /\ jobs \in [Task -> Word \cup Worker]
    /\ shutdown \in BOOLEAN /\ resizing \in BOOLEAN /\ asignal \in BOOLEAN
    /\ spc \in {"up", "closed", "top", "look", "sleep", "returned"}

Sizes == core \in CoreSize /\ max \in Nat /\ core =< max /\ Ex!Workers =< Ex!Max({max, 1})

(* A task is where its entry says, and a queue that is not empty has       *)
(* workers, started or planned.                                            *)
Placed ==
    /\ \A t \in Task : jobs[t] = "queued" => \E i \in 1..Len(queue) : queue[i] = t
    /\ \A t \in Task, w \in Worker : jobs[t] = w => wpc[w] = "run"
    /\ queue # <<>> => Ex!Alive # {}

(* Once await_termination saw no worker there is none.                     *)
Closing == (spc # "up" => shutdown) /\ (spc = "returned" => Ex!Alive = {})

PoolInv == PoolTypes /\ Placed /\ Ex!QueueAttended /\ Closing

-----------------------------------------------------------------------------
(* The larger and the smaller of a few numbers.                            *)
LEMMA MaxOfTwo ==
    ASSUME NEW a \in Int, NEW b \in Int
    PROVE  Ex!Max({a, b}) \in {a, b} /\ Ex!Max({a, b}) >= a /\ Ex!Max({a, b}) >= b
<1>1. \E x \in {a, b} : \A y \in {a, b} : x >= y
  <2>1. CASE a >= b
    BY <2>1
  <2>2. CASE b >= a
    BY <2>2
  <2> QED BY <2>1, <2>2
<1> QED BY <1>1 DEF Ex!Max

(* The smallest of three.                                                  *)
LEMMA LeastOfThree ==
    ASSUME NEW a \in Int, NEW b \in Int, NEW c \in Int
    PROVE  Ex!Min({a, b, c}) \in Int /\ Ex!Min({a, b, c}) <= c
<1>1. \E x \in {a, b, c} : \A y \in {a, b, c} : x =< y
  <2>1. CASE a =< b /\ a =< c
    BY <2>1
  <2>2. CASE b =< a /\ b =< c
    BY <2>2
  <2>3. CASE c =< a /\ c =< b
    BY <2>3
  <2> QED BY <2>1, <2>2, <2>3
<1> QED BY <1>1 DEF Ex!Min

(* plan_spawn_locked adds k workers.                                       *)
LEMMA Planned ==
    ASSUME PoolAssumption, wpc \in [Worker -> Ex!Stage], NEW k \in Nat, Ex!Plan(k)
    PROVE  /\ wpc' \in [Worker -> Ex!Stage]
           /\ \A w \in Worker : wpc[w] # "none" => wpc'[w] = wpc[w]
           /\ \A w \in Worker : wpc[w] = "none" => wpc'[w] \in {"none", "planned"}
           /\ Ex!Workers' = Ex!Workers + k /\ (k > 0 => Ex!Alive' # {})
           /\ k = 0 => wpc' = wpc
<1>1. PICK S \in SUBSET {w \in Worker : wpc[w] = "none"} :
         /\ Cardinality(S) = k
         /\ wpc' = [w \in Worker |-> IF w \in S THEN "planned" ELSE wpc[w]]
  BY Counting, Zenon DEF Ex!Plan
<1>2. wpc' \in [Worker -> Ex!Stage]
  BY <1>1, Zenon DEF Ex!Stage
<1>3. /\ \A w \in Worker : wpc[w] # "none" => wpc'[w] = wpc[w]
      /\ \A w \in Worker : wpc[w] = "none" => wpc'[w] \in {"none", "planned"}
  BY <1>1, Zenon
<1>4. Ex!Alive' = Ex!Alive \cup S /\ Ex!Alive \cap S = {}
  BY <1>1 DEF Ex!Alive
<1>5. IsFiniteSet(S) /\ IsFiniteSet(Ex!Alive)
  BY Counting, FS_Subset, Zenon DEF Ex!Alive, PoolAssumption, Ex!WorkerAssumption
<1>6. Cardinality(Ex!Alive) \in Nat /\ Cardinality({}) = 0
  BY <1>5, FS_CardinalityType, FS_EmptySet, Zenon
<1>7. Ex!Workers' = Ex!Workers + k
  <2>1. Cardinality(Ex!Alive \cup S)
           = Cardinality(Ex!Alive) + Cardinality(S) - Cardinality(Ex!Alive \cap S)
    BY <1>5, FS_Union, Zenon
  <2>2. Ex!Workers' = Cardinality(Ex!Alive \cup S) /\ Cardinality(Ex!Alive \cap S) = 0
    BY <1>4, <1>6, Counting, Zenon DEF Ex!Workers
  <2>3. Ex!Workers = Cardinality(Ex!Alive)
    BY Counting, Zenon DEF Ex!Workers
  <2> QED BY <1>1, <1>6, <2>1, <2>2, <2>3, SMTT(30)
<1>8. k > 0 => Ex!Alive' # {}
  <2>1. k > 0 => S # {}
    BY <1>1, <1>6
  <2> QED BY <1>4, <2>1, Zenon
<1>9. ASSUME k = 0 PROVE wpc' = wpc
  <2>1. S = {}
    BY <1>1, <1>5, <1>9, FS_EmptySet, Zenon
  <2> QED BY <1>1, <2>1, Zenon
<1> QED BY <1>2, <1>3, <1>7, <1>8, <1>9, Zenon

(* What is not a plan leaves the workers or retires one.                   *)
LEMMA Moved ==
    ASSUME wpc \in [Worker -> Ex!Stage], NEW w \in Worker, NEW s \in Ex!Stage, Ex!Goto(w, s)
    PROVE  /\ wpc' \in [Worker -> Ex!Stage] /\ wpc'[w] = s
           /\ \A v \in Worker : v # w => wpc'[v] = wpc[v]
  BY Zenon DEF Ex!Goto

(* A worker that is started or wakes is as alive as before.                *)
LEMMA Woken ==
    ASSUME wpc \in [Worker -> Ex!Stage], Ex!SpawnAndNotify
    PROVE  /\ wpc' \in [Worker -> Ex!Stage] /\ Ex!Alive' = Ex!Alive
           /\ signal' \subseteq signal \cup Worker
           /\ \A w \in Worker : wpc'[w] # "planned" /\ (wpc'[w] = "sleep" => w \in signal')
           /\ \A w \in Worker : wpc[w] = "run" => wpc'[w] = "run"
<1>1. \A w \in Worker : wpc'[w] = IF wpc[w] = "planned" THEN "top" ELSE wpc[w]
  BY Zenon DEF Ex!SpawnAndNotify
<1>2. wpc' \in [Worker -> Ex!Stage]
  BY Zenon DEF Ex!SpawnAndNotify, Ex!Stage
<1>3. Ex!Alive' = Ex!Alive
  BY <1>1 DEF Ex!Alive
<1> QED BY <1>1, <1>2, <1>3 DEF Ex!SpawnAndNotify

(* set_core_pool_size starts as many workers as there are tasks for, none  *)
(* after shutdown.                                                         *)
LEMMA TopUpBounds ==
    ASSUME PoolAssumption, NEW n \in CoreSize, queue \in Seq(Task), Ex!Workers \in Nat,
           core \in Nat, max \in Nat
    PROVE  /\ Ex!TopUp(n) \in Nat /\ (shutdown => Ex!TopUp(n) = 0)
           /\ Ex!TopUp(n) = 0 \/ Ex!TopUp(n) + Ex!Workers =< Ex!Max({max, n})
<1>1. n \in Nat /\ Len(queue) \in Nat
  BY DEF PoolAssumption, Ex!SizeAssumption
<1>2. Ex!Max({max, n}) \in Nat
  <2>1. max \in Int /\ n \in Int
    BY <1>1
  <2>2. Ex!Max({max, n}) \in {max, n}
    BY <2>1, MaxOfTwo, Zenon
  <2> QED BY <1>1, <2>2, Zenon
<1> DEFINE m == Ex!Min({n - core, Len(queue), Ex!Max({max, n}) - Ex!Workers})
<1>3. m \in Int /\ m <= Ex!Max({max, n}) - Ex!Workers
  <2>1. n - core \in Int /\ Len(queue) \in Int /\ Ex!Max({max, n}) - Ex!Workers \in Int
    BY <1>1, <1>2
  <2> QED BY <2>1, LeastOfThree, Zenon
<1>4. Ex!TopUp(n) = IF n > core /\ ~shutdown THEN Ex!Max({0, m}) ELSE 0
  BY Zenon DEF Ex!TopUp
<1> HIDE DEF m
<1>5. Ex!Max({0, m}) \in {0, m} /\ Ex!Max({0, m}) >= 0
  <2>1. 0 \in Int /\ m \in Int
    BY <1>3
  <2> QED BY <2>1, MaxOfTwo, Zenon
<1>6. Ex!TopUp(n) = 0 \/ (Ex!TopUp(n) = m /\ m >= 0)
  BY <1>4, <1>5, Zenon
<1>7. shutdown => Ex!TopUp(n) = 0
  BY <1>4, Zenon
<1> QED BY <1>2, <1>3, <1>6, <1>7, SMTT(30)

-----------------------------------------------------------------------------
(* Every step of the pool keeps its invariant.                             *)
LEMMA PoolStep ==
    ASSUME PoolAssumption, PoolInv, Sizes, [Ex!Next]_Ex!vars
    PROVE  PoolInv'
<1>0. PoolTypes /\ Placed /\ Ex!QueueAttended /\ Closing
  BY Zenon DEF PoolInv
<1>n. Worker \cap Word = {} /\ IsFiniteSet(Worker)
  BY Counting, Zenon DEF PoolAssumption, Ex!WorkerAssumption, Word
<1>w. \A w \in Worker : w \notin Word
  BY <1>n, Zenon
<1>m. (Ex!Workers = 0 <=> Ex!Alive = {}) /\ Ex!Workers \in Nat
  <2>1. IsFiniteSet(Ex!Alive)
    BY <1>n, FS_Subset, Zenon DEF Ex!Alive
  <2> QED BY <2>1, Counting, FS_EmptySet, FS_CardinalityType, Zenon DEF Ex!Workers
<1>1. ASSUME NEW t \in Task, Ex!SubmitRejected(t) PROVE PoolInv'
  <2>1. /\ shutdown /\ jobs[t] = "new" /\ jobs' = [jobs EXCEPT ![t] = "rejected"]
        /\ UNCHANGED <<queue, shutdown, wpc, signal, submitting, resizing, spc, asignal>>
    BY <1>1, Zenon DEF Ex!SubmitRejected
  <2>2. PoolTypes'
    BY <1>0, <2>1, Zenon DEF PoolTypes, Word
  <2>3. \A u \in Task : jobs'[u] = jobs[u] \/ jobs'[u] = "rejected"
    BY <1>0, <2>1, Zenon DEF PoolTypes
  <2>4. Ex!Alive' = Ex!Alive
    BY <2>1, Zenon DEF Ex!Alive
  <2>5. Placed'
    <3>1. \A u \in Task, w \in Worker : jobs'[u] = w => jobs[u] = w
      BY <1>w, <2>3 DEF Word
    <3>2. \A u \in Task : jobs'[u] = "queued" => jobs[u] = "queued"
      BY <2>3, Zenon
    <3> QED BY <1>0, <2>1, <2>4, <3>1, <3>2, Zenon DEF Placed
  <2> QED BY <1>0, <2>1, <2>2, <2>4, <2>5, Zenon DEF PoolInv, Ex!QueueAttended, Closing
<1>2. ASSUME NEW t \in Task, Ex!Submit(t) PROVE PoolInv'
  <2> DEFINE k == IF Ex!SpawnDue THEN 1 ELSE 0
  <2>1. /\ ~shutdown /\ jobs[t] = "new" /\ jobs' = [jobs EXCEPT ![t] = "queued"]
        /\ queue' = Append(queue, t) /\ Ex!Plan(k) /\ submitting' = submitting \cup {t}
        /\ UNCHANGED <<shutdown, signal, resizing, spc, asignal>>
    BY <1>2, Zenon DEF Ex!Submit
  <2>2. k \in Nat /\ (k = 0 => Ex!Workers # 0)
    BY DEF Ex!SpawnDue
  <2> HIDE DEF k
  <2>3. /\ wpc' \in [Worker -> Ex!Stage]
        /\ \A w \in Worker : wpc[w] # "none" => wpc'[w] = wpc[w]
        /\ (k > 0 => Ex!Alive' # {}) /\ (k = 0 => wpc' = wpc)
    BY <1>0, <2>1, <2>2, Planned, Zenon DEF PoolTypes
  <2>4. Ex!Alive' # {}
    <3>1. CASE k = 0
      <4>1. Ex!Alive' = Ex!Alive
        BY <2>3, <3>1, Zenon DEF Ex!Alive
      <4> QED BY <1>m, <2>2, <3>1, <4>1, Zenon
    <3>2. CASE k > 0
      BY <2>3, <3>2, Zenon
    <3> QED BY <2>2, <3>1, <3>2
  <2>5. spc = "up" /\ spc' = "up"
    BY <1>0, <2>1, Zenon DEF Closing
  <2>6. queue' \in Seq(Task) /\ Len(queue') = Len(queue) + 1 /\ Len(queue) \in Nat
        /\ queue'[Len(queue) + 1] = t /\ \A i \in 1..Len(queue) : queue'[i] = queue[i]
    BY <1>0, <2>1 DEF PoolTypes
  <2>7. PoolTypes'
    BY <1>0, <2>1, <2>3, <2>6, Zenon DEF PoolTypes, Word
  <2>8. jobs'[t] = "queued" /\ \A u \in Task : u # t => jobs'[u] = jobs[u]
    BY <1>0, <2>1, Zenon DEF PoolTypes
  <2>9. ASSUME NEW u \in Task, jobs'[u] = "queued" PROVE \E i \in 1..Len(queue') : queue'[i] = u
    <3>1. CASE u = t
      BY <2>6, <3>1
    <3>2. CASE u # t
      <4>1. PICK i \in 1..Len(queue) : queue[i] = u
        BY <1>0, <2>8, <2>9, <3>2, Zenon DEF Placed
      <4>2. i \in 1..Len(queue') /\ queue'[i] = u
        BY <2>6, <4>1
      <4> QED BY <4>2, Zenon
    <3> QED BY <3>1, <3>2, Zenon
  <2>10. ASSUME NEW u \in Task, NEW w \in Worker, jobs'[u] = w PROVE wpc'[w] = "run"
    <3>1. u # t /\ jobs[u] = w
      BY <1>n, <2>8, <2>10, Zenon DEF Word
    <3> QED BY <1>0, <2>3, <3>1, Zenon DEF Placed
  <2>11. Placed'
    BY <2>4, <2>9, <2>10, Zenon DEF Placed
  <2> QED BY <2>1, <2>5, <2>7, <2>11, Zenon DEF PoolInv, Ex!QueueAttended, Closing
<1>3. ASSUME NEW n \in CoreSize, Ex!SetCorePoolSize(n) PROVE PoolInv'
  <2>1. /\ Ex!Plan(Ex!TopUp(n))
        /\ UNCHANGED <<queue, shutdown, signal, submitting, jobs, spc, asignal>>
        /\ resizing' = TRUE
    BY <1>3, Zenon DEF Ex!SetCorePoolSize
  <2>2. Ex!TopUp(n) \in Nat /\ (shutdown => Ex!TopUp(n) = 0)
    <3>1. core \in Nat /\ max \in Nat
      BY Zenon DEF Sizes, PoolAssumption, Ex!SizeAssumption
    <3> QED BY <1>0, <1>m, <3>1, TopUpBounds, Zenon DEF PoolTypes
  <2>3. /\ wpc' \in [Worker -> Ex!Stage]
        /\ \A w \in Worker : wpc[w] # "none" => wpc'[w] = wpc[w]
        /\ Ex!TopUp(n) = 0 => wpc' = wpc
    BY <1>0, <2>1, <2>2, Planned, Zenon DEF PoolTypes
  <2>4. Ex!Alive \subseteq Ex!Alive' /\ (shutdown => Ex!Alive' = Ex!Alive)
    BY <2>2, <2>3 DEF Ex!Alive
  <2>5. PoolTypes'
    BY <1>0, <2>1, <2>3, Zenon DEF PoolTypes
  <2>6. Placed'
    BY <1>0, <2>1, <2>3, <2>4 DEF Placed
  <2>7. Ex!QueueAttended'
    <3>1. \A w \in Ex!Alive : w \in Ex!Alive' /\ wpc'[w] = wpc[w]
      BY <2>3, <2>4, Zenon DEF Ex!Alive
    <3> QED BY <1>0, <2>1, <3>1, Zenon DEF Ex!QueueAttended
  <2> QED BY <1>0, <2>1, <2>4, <2>5, <2>6, <2>7, Zenon DEF PoolInv, Closing
<1>4. ASSUME Ex!SpawnAndNotify, UNCHANGED <<queue, shutdown, jobs, spc, asignal>>,
             submitting' \subseteq submitting, resizing' \in BOOLEAN
      PROVE  PoolInv'
  <2>1. /\ wpc' \in [Worker -> Ex!Stage] /\ Ex!Alive' = Ex!Alive
        /\ signal' \subseteq signal \cup Worker
        /\ \A w \in Worker : wpc'[w] # "planned" /\ (wpc'[w] = "sleep" => w \in signal')
        /\ \A w \in Worker : wpc[w] = "run" => wpc'[w] = "run"
    BY <1>0, <1>4, Woken, Zenon DEF PoolTypes
  <2>2. PoolTypes'
    BY <1>0, <1>4, <2>1, Zenon DEF PoolTypes
  <2>3. Placed'
    BY <1>0, <1>4, <2>1, Zenon DEF Placed
  <2>4. Ex!QueueAttended'
    <3>1. Ex!Alive \subseteq Worker
      BY Zenon DEF Ex!Alive
    <3>2. queue' # <<>> => \E w \in Ex!Alive' : w \in Worker
      BY <1>0, <1>4, <2>1, <3>1, Zenon DEF Placed
    <3> QED BY <2>1, <3>2, Zenon DEF Ex!QueueAttended
  <2> QED BY <1>0, <1>4, <2>1, <2>2, <2>3, <2>4, Zenon DEF PoolInv, Closing
<1>5. ASSUME NEW w \in Worker, NEW s \in Ex!Stage \ {"none", "planned", "run", "last"},
             Ex!Goto(w, s),
             wpc[w] \in {"top", "look", "sleep", "idle"},
             s = "sleep" => queue = <<>>, signal' \subseteq Worker,
             signal \ {w} \subseteq signal',
             UNCHANGED <<queue, shutdown, submitting, jobs, resizing, spc, asignal>>
      PROVE  PoolInv'
  <2>1. /\ wpc' \in [Worker -> Ex!Stage] /\ wpc'[w] = s
        /\ \A v \in Worker : v # w => wpc'[v] = wpc[v]
    BY <1>0, <1>5, Moved, Zenon DEF PoolTypes
  <2>2. Ex!Alive' = Ex!Alive
    BY <1>5, <2>1 DEF Ex!Alive, Ex!Stage
  <2>3. PoolTypes'
    BY <1>0, <1>5, <2>1, Zenon DEF PoolTypes
  <2>4. Placed'
    <3>1. \A v \in Worker : wpc[v] = "run" => wpc'[v] = "run"
      BY <1>5, <2>1, Zenon
    <3> QED BY <1>0, <1>5, <2>2, <3>1, ZenonT(60) DEF Placed
  <2>5. Ex!QueueAttended'
    <3>1. ASSUME NEW v \in Ex!Alive, wpc[v] # "planned", wpc[v] = "sleep" => v \in signal,
                 queue' # <<>>
          PROVE  wpc'[v] # "planned" /\ (wpc'[v] = "sleep" => v \in signal')
      BY <1>5, <2>1, <3>1, Zenon DEF Ex!Alive
    <3> QED BY <1>0, <1>5, <2>2, <3>1, Zenon DEF Ex!QueueAttended
  <2> QED BY <1>0, <1>5, <2>2, <2>3, <2>4, <2>5, Zenon DEF PoolInv, Closing
<1>6. ASSUME NEW w \in Worker, Ex!Retire(w), queue = <<>>, wpc[w] \in {"look", "idle"},
             UNCHANGED <<queue, shutdown, signal, submitting, jobs, resizing, spc, asignal>>
      PROVE  PoolInv'
  <2> DEFINE s == IF Ex!Alive = {w} THEN "last" ELSE "none"
  <2>1. s \in {"last", "none"} /\ s \in Ex!Stage /\ Ex!Goto(w, s)
    BY <1>6, Zenon DEF Ex!Retire, Ex!Stage
  <2> HIDE DEF s
  <2>2. /\ wpc' \in [Worker -> Ex!Stage] /\ wpc'[w] = s
        /\ \A v \in Worker : v # w => wpc'[v] = wpc[v]
    BY <1>0, <2>1, Moved, Zenon DEF PoolTypes
  <2>3. w \in Ex!Alive /\ Ex!Alive' \subseteq Ex!Alive
    BY <1>6, <2>1, <2>2, Zenon DEF Ex!Alive
  <2>4. PoolTypes'
    BY <1>0, <1>6, <2>2, Zenon DEF PoolTypes
  <2>5. Placed'
    <3>1. \A v \in Worker : wpc[v] = "run" => wpc'[v] = "run"
      BY <1>6, <2>2, Zenon
    <3> QED BY <1>0, <1>6, <3>1, ZenonT(40) DEF Placed
  <2> QED BY <1>0, <1>6, <2>3, <2>4, <2>5, Zenon DEF PoolInv, Ex!QueueAttended, Closing
<1>7. ASSUME NEW w \in Worker, Ex!Enroll(w) PROVE PoolInv'
  <2>1. "look" \in Ex!Stage \ {"none", "planned", "run", "last"} /\ signal \subseteq Worker
    BY <1>0, Zenon DEF Ex!Stage, PoolTypes
  <2> QED BY <1>5, <1>7, <2>1, Zenon DEF Ex!Enroll
<1>8. ASSUME NEW w \in Worker, Ex!Wake(w) PROVE PoolInv'
  <2>1. "top" \in Ex!Stage \ {"none", "planned", "run", "last"} /\ signal \subseteq Worker
    BY <1>0, Zenon DEF Ex!Stage, PoolTypes
  <2> QED BY <1>5, <1>8, <2>1, Zenon DEF Ex!Wake
<1>9. ASSUME NEW w \in Worker, Ex!KeepAliveEnds(w) PROVE PoolInv'
  <2>1. "idle" \in Ex!Stage \ {"none", "planned", "run", "last"} /\ signal \subseteq Worker
    BY <1>0, Zenon DEF Ex!Stage, PoolTypes
  <2> QED BY <1>5, <1>9, <2>1, Zenon DEF Ex!KeepAliveEnds
<1>10. ASSUME NEW w \in Worker, Ex!IdleCheck(w) PROVE PoolInv'
  <2>1. "top" \in Ex!Stage \ {"none", "planned", "run", "last"} /\ signal \subseteq Worker
    BY <1>0, Zenon DEF Ex!Stage, PoolTypes
  <2>2. CASE Ex!OverCore
    BY <1>6, <1>10, <2>2, Zenon DEF Ex!IdleCheck, Ex!OverCore
  <2>3. CASE ~Ex!OverCore
    BY <1>5, <1>10, <2>1, <2>3, Zenon DEF Ex!IdleCheck
  <2> QED BY <2>2, <2>3, Zenon
<1>11. ASSUME NEW w \in Worker, Ex!Look(w) PROVE PoolInv'
  <2>1. wpc[w] = "look" /\ UNCHANGED <<shutdown, signal, submitting, resizing, spc, asignal>>
    BY <1>11, Zenon DEF Ex!Look
  <2>2. CASE Ex!ExitDue /\ Ex!Retire(w) /\ UNCHANGED <<queue, jobs>>
    BY <1>6, <2>1, <2>2, Zenon DEF Ex!ExitDue
  <2>3. CASE queue = <<>> /\ Ex!Goto(w, "sleep") /\ UNCHANGED <<queue, jobs>>
    <3>1. "sleep" \in Ex!Stage \ {"none", "planned", "run", "last"} /\ signal \subseteq Worker
      BY <1>0, Zenon DEF Ex!Stage, PoolTypes
    <3> QED BY <1>5, <2>1, <2>3, <3>1, Zenon
  <2>4. CASE /\ queue # <<>> /\ queue' = Tail(queue) /\ Ex!Goto(w, "run")
             /\ jobs' = [jobs EXCEPT ![Head(queue)] = w]
    <3>1. "run" \in Ex!Stage
      BY Zenon DEF Ex!Stage
    <3>2. /\ wpc' \in [Worker -> Ex!Stage] /\ wpc'[w] = "run"
          /\ \A v \in Worker : v # w => wpc'[v] = wpc[v]
      BY <1>0, <2>4, <3>1, Moved, Zenon DEF PoolTypes
    <3>3. w \in Ex!Alive /\ w \in Ex!Alive'
      BY <2>1, <3>2, Zenon DEF Ex!Alive
    <3>4. /\ queue' \in Seq(Task) /\ Head(queue) = queue[1] /\ Head(queue) \in Task
          /\ Len(queue') = Len(queue) - 1 /\ Len(queue) \in Nat
          /\ \A i \in 1..Len(queue') : queue'[i] = queue[i + 1]
      BY <1>0, <2>4 DEF PoolTypes
    <3>5. PoolTypes'
      BY <1>0, <2>1, <2>4, <3>2, <3>4, Zenon DEF PoolTypes
    <3>6. jobs'[Head(queue)] = w /\ \A u \in Task : u # Head(queue) => jobs'[u] = jobs[u]
      BY <1>0, <2>4, <3>4, Zenon DEF PoolTypes
    <3>7. ASSUME NEW u \in Task, jobs'[u] = "queued"
          PROVE  \E i \in 1..Len(queue') : queue'[i] = u
      <4>1. u # queue[1] /\ jobs[u] = "queued"
        BY <1>w, <3>4, <3>6, <3>7, SMTT(30) DEF Word
      <4>2. PICK i \in 1..Len(queue) : queue[i] = u
        BY <1>0, <4>1, Zenon DEF Placed
      <4>3. i # 1
        BY <4>1, <4>2, Zenon
      <4>4. i - 1 \in 1..Len(queue') /\ queue'[i - 1] = u
        BY <3>4, <4>2, <4>3
      <4> QED BY <4>4, Zenon
    <3>8. ASSUME NEW u \in Task, NEW v \in Worker, jobs'[u] = v PROVE wpc'[v] = "run"
      BY <1>0, <3>2, <3>6, <3>8, Zenon DEF Placed
    <3>9. Placed' /\ Ex!QueueAttended' /\ Closing'
      BY <1>0, <2>1, <3>2, <3>3, <3>7, <3>8, Zenon DEF Placed, Ex!QueueAttended, Closing
    <3> QED BY <3>5, <3>9, Zenon DEF PoolInv
  <2> QED BY <1>11, <2>2, <2>3, <2>4, Zenon DEF Ex!Look
<1>12. ASSUME NEW w \in Worker, Ex!TaskEnds(w) PROVE PoolInv'
  <2>1. /\ wpc[w] = "run" /\ Ex!Goto(w, "top") /\ "top" \in Ex!Stage
        /\ jobs' = [t \in Task |-> IF jobs[t] = w THEN "done" ELSE jobs[t]]
        /\ UNCHANGED <<queue, shutdown, signal, submitting, resizing, spc, asignal>>
    BY <1>12, Zenon DEF Ex!TaskEnds, Ex!Stage
  <2>2. /\ wpc' \in [Worker -> Ex!Stage] /\ wpc'[w] = "top"
        /\ \A v \in Worker : v # w => wpc'[v] = wpc[v]
    BY <1>0, <2>1, Moved, Zenon DEF PoolTypes
  <2>3. w \in Ex!Alive /\ w \in Ex!Alive'
    BY <2>1, <2>2, Zenon DEF Ex!Alive
  <2>4. \A t \in Task : jobs'[t] = IF jobs[t] = w THEN "done" ELSE jobs[t]
    BY <2>1, Zenon
  <2>5. PoolTypes'
    BY <1>0, <2>1, <2>2, Zenon DEF PoolTypes, Word
  <2>6. Placed'
    <3>1. \A t \in Task : jobs'[t] = "queued" => jobs[t] = "queued"
      BY <2>4, Zenon
    <3>2. \A t \in Task, v \in Worker : jobs'[t] = v => jobs[t] = v /\ v # w
      BY <1>w, <2>4 DEF Word
    <3>3. \A t \in Task, v \in Worker : jobs'[t] = v => wpc'[v] = "run"
      BY <1>0, <2>2, <3>2, ZenonT(40) DEF Placed
    <3>4. \A t \in Task : jobs'[t] = "queued" => \E i \in 1..Len(queue') : queue'[i] = t
      BY <1>0, <2>1, <3>1, Zenon DEF Placed
    <3> QED BY <2>3, <3>3, <3>4, Zenon DEF Placed
  <2> QED BY <1>0, <2>1, <2>2, <2>3, <2>5, <2>6, Zenon DEF PoolInv, Ex!QueueAttended, Closing
<1>13. ASSUME NEW w \in Worker, Ex!LastOut(w) PROVE PoolInv'
  <2>1. /\ wpc[w] = "last" /\ Ex!Goto(w, "none") /\ "none" \in Ex!Stage /\ asignal' \in BOOLEAN
        /\ UNCHANGED <<queue, shutdown, signal, submitting, jobs, resizing, spc>>
    BY <1>13, Zenon DEF Ex!LastOut, Ex!Stage
  <2>2. /\ wpc' \in [Worker -> Ex!Stage] /\ wpc'[w] = "none"
        /\ \A v \in Worker : v # w => wpc'[v] = wpc[v]
    BY <1>0, <2>1, Moved, Zenon DEF PoolTypes
  <2>3. Ex!Alive' = Ex!Alive /\ \A v \in Ex!Alive : wpc'[v] = wpc[v]
    BY <2>1, <2>2 DEF Ex!Alive
  <2>4. PoolTypes'
    BY <1>0, <2>1, <2>2, Zenon DEF PoolTypes
  <2>5. Placed'
    <3>1. \A v \in Worker : wpc[v] = "run" => wpc'[v] = "run"
      BY <2>1, <2>2, Zenon
    <3> QED BY <1>0, <2>1, <2>3, <3>1, Zenon DEF Placed
  <2>6. Ex!QueueAttended'
    BY <1>0, <2>1, <2>3, Zenon DEF Ex!QueueAttended
  <2> QED BY <1>0, <2>1, <2>3, <2>4, <2>5, <2>6, Zenon DEF PoolInv, Closing
<1>14. ASSUME UNCHANGED <<queue, wpc, submitting, jobs, resizing>>, asignal' \in BOOLEAN,
              signal \subseteq signal', signal' \subseteq Worker,
              spc' \in {"up", "closed", "top", "look", "sleep", "returned"},
              shutdown' \in BOOLEAN,
              Closing'
       PROVE  PoolInv'
  <2>1. Ex!Alive' = Ex!Alive
    BY <1>14, Zenon DEF Ex!Alive
  <2>2. PoolTypes'
    BY <1>0, <1>14, Zenon DEF PoolTypes
  <2>3. Placed'
    BY <1>0, <1>14, <2>1, Zenon DEF Placed
  <2>4. Ex!QueueAttended'
    BY <1>0, <1>14, <2>1, Zenon DEF Ex!QueueAttended
  <2> QED BY <1>14, <2>2, <2>3, <2>4, Zenon DEF PoolInv
<1>15. CASE Ex!Shutdown \/ Ex!AwaitStep
  <2>1. /\ UNCHANGED <<queue, wpc, submitting, jobs, resizing>> /\ asignal' \in BOOLEAN
        /\ signal \subseteq signal' /\ signal' \subseteq Worker
        /\ spc' \in {"up", "closed", "top", "look", "sleep", "returned"} /\ shutdown' \in BOOLEAN
    BY <1>0, <1>15, Zenon DEF PoolTypes, Ex!Shutdown, Ex!AwaitStep, Ex!ShutdownNotify,
       Ex!AwaitEnroll,
                              Ex!AwaitLook, Ex!AwaitWake
  <2>2. Ex!Alive' = Ex!Alive
    BY <2>1, Zenon DEF Ex!Alive
  <2>3. shutdown' \/ (shutdown' = shutdown /\ spc # "up")
    BY <1>15, Zenon DEF Ex!Shutdown, Ex!AwaitStep, Ex!ShutdownNotify, Ex!AwaitEnroll,
       Ex!AwaitLook, Ex!AwaitWake
  <2>4. spc' = "returned" => Ex!Alive = {}
    BY <1>m, <1>15, Zenon DEF Ex!Shutdown, Ex!AwaitStep, Ex!ShutdownNotify, Ex!AwaitEnroll,
       Ex!AwaitLook, Ex!AwaitWake
  <2>5. Closing'
    BY <1>0, <2>2, <2>3, <2>4, Zenon DEF Closing
  <2> QED BY <1>14, <2>1, <2>5, Zenon
<1>16. CASE UNCHANGED Ex!vars
  <2>1. UNCHANGED <<queue, shutdown, wpc, signal, submitting, jobs, resizing, spc, asignal>>
    BY <1>16, Zenon DEF Ex!vars
  <2>2. Ex!Alive' = Ex!Alive
    BY <2>1, Zenon DEF Ex!Alive
  <2> QED BY <1>0, <1>14, <2>1, <2>2, Zenon DEF Closing, PoolTypes
<1>17. ASSUME NEW t \in Task, Ex!SubmitEnds(t) PROVE PoolInv'
  <2>1. resizing \in BOOLEAN /\ submitting' \subseteq submitting
    BY <1>0, <1>17, Zenon DEF PoolTypes, Ex!SubmitEnds
  <2> QED BY <1>4, <1>17, <2>1, Zenon DEF Ex!SubmitEnds
<1>18. CASE Ex!SetCorePoolSizeEnds
  <2>1. resizing' \in BOOLEAN /\ submitting' \subseteq submitting
    BY <1>18, Zenon DEF Ex!SetCorePoolSizeEnds
  <2> QED BY <1>4, <1>18, <2>1, Zenon DEF Ex!SetCorePoolSizeEnds
<1> QED BY <1>1, <1>2, <1>3, <1>7, <1>8, <1>9, <1>10, <1>11, <1>12, <1>13, <1>15, <1>16, <1>17,
           <1>18, ZenonT(40) DEF Ex!Next, Ex!WorkerStep

(* No step exceeds the sizes: a plan is made for one more worker below the *)
(* core size, or for the room that set_core_pool_size has computed.        *)
LEMMA SizesStep ==
    ASSUME PoolAssumption, PoolInv, Sizes, [Ex!Next]_Ex!vars
    PROVE  Sizes'
<1>0. PoolTypes /\ core \in Nat /\ CoreSize \subseteq Nat
  BY Zenon DEF PoolInv, Sizes, PoolAssumption, Ex!SizeAssumption
<1>1. IsFiniteSet(Ex!Alive) /\ Ex!Workers \in Nat
  <2>1. IsFiniteSet(Ex!Alive)
    BY Counting, FS_Subset, Zenon DEF Ex!Alive, PoolAssumption, Ex!WorkerAssumption
  <2> QED BY <2>1, Counting, FS_CardinalityType, Zenon DEF Ex!Workers
<1>2. ASSUME Ex!Alive' \subseteq Ex!Alive, UNCHANGED <<core, max>> PROVE Sizes'
  <2>1. Cardinality(Ex!Alive') <= Cardinality(Ex!Alive) /\ Cardinality(Ex!Alive') \in Nat
    BY <1>1, <1>2, FS_Subset, FS_CardinalityType, Zenon
  <2>2. Ex!Workers' <= Ex!Workers /\ Ex!Workers' \in Nat
    BY <2>1, Counting, Zenon DEF Ex!Workers
  <2>3. Ex!Max({max, 1}) \in Int
    <3>1. max \in Int /\ 1 \in Int
      BY DEF Sizes
    <3> QED BY <3>1, MaxOfTwo, Zenon
  <2> QED BY <1>1, <1>2, <2>2, <2>3, SMTT(30) DEF Sizes
<1>3. ASSUME NEW w \in Worker, NEW s \in Ex!Stage, Ex!Goto(w, s), UNCHANGED <<core, max>>,
             w \in Ex!Alive \/ s = "none"
      PROVE  Sizes'
  <2>1. wpc'[w] = s /\ \A v \in Worker : v # w => wpc'[v] = wpc[v]
    BY <1>0, <1>3, Moved, Zenon DEF PoolTypes
  <2>2. Ex!Alive' \subseteq Ex!Alive
    BY <1>3, <2>1 DEF Ex!Alive
  <2> QED BY <1>2, <1>3, <2>2, Zenon
<1>4. ASSUME NEW w \in Worker, Ex!Retire(w), UNCHANGED <<core, max>>, w \in Ex!Alive PROVE Sizes'
  <2>1. PICK s \in {"none", "last"} : Ex!Goto(w, s)
    BY <1>4, Zenon DEF Ex!Retire
  <2>2. s \in Ex!Stage
    BY <2>1, Zenon DEF Ex!Stage
  <2> QED BY <1>3, <1>4, <2>1, <2>2, Zenon
<1>5. ASSUME NEW k \in Nat, Ex!Plan(k), core' \in CoreSize, max' \in Nat, core' =< max',
             Ex!Workers + k =< Ex!Max({max', 1})
      PROVE  Sizes'
  <2>1. Ex!Workers' = Ex!Workers + k
    BY <1>0, <1>5, Planned, Zenon DEF PoolTypes
  <2> QED BY <1>5, <2>1, Zenon DEF Sizes
<1>6. ASSUME NEW t \in Task, Ex!Submit(t) PROVE Sizes'
  <2> DEFINE k == IF Ex!SpawnDue THEN 1 ELSE 0
  <2>1. Ex!Plan(k) /\ UNCHANGED <<core, max>>
    BY <1>6, Zenon DEF Ex!Submit
  <2>2. max \in Int /\ 1 \in Int
    BY DEF Sizes
  <2>3. Ex!Max({max, 1}) \in {max, 1} /\ Ex!Max({max, 1}) >= max /\ Ex!Max({max, 1}) >= 1
    BY <2>2, MaxOfTwo, Zenon
  <2>4. Ex!Max({max, 1}) \in Int
    BY <2>2, <2>3, Zenon
  <2>5. k \in Nat /\ Ex!Workers + k =< Ex!Max({max, 1})
    BY <1>0, <1>1, <2>2, <2>3, <2>4, SMTT(30) DEF Sizes, Ex!SpawnDue
  <2>6. core' \in CoreSize /\ max' \in Nat /\ core' =< max' /\ Ex!Workers + k =< Ex!Max({max', 1})
    BY <2>1, <2>5, Zenon DEF Sizes
  <2> HIDE DEF k
  <2> QED BY <1>5, <2>1, <2>5, <2>6, Zenon
<1>7. ASSUME NEW n \in CoreSize, Ex!SetCorePoolSize(n) PROVE Sizes'
  <2>1. Ex!Plan(Ex!TopUp(n)) /\ core' = n /\ max' = Ex!Max({max, n})
    BY <1>7, Zenon DEF Ex!SetCorePoolSize
  <2>2. n \in Nat /\ n \in Int /\ max \in Nat /\ max \in Int
    BY <1>0 DEF Sizes
  <2>3. max' \in {max, n} /\ max' >= max /\ max' >= n
    BY <2>1, <2>2, MaxOfTwo, Zenon
  <2>4. max' \in Nat /\ 1 \in Int /\ max' \in Int
    BY <2>2, <2>3, SMTT(30)
  <2>5. Ex!Max({max', 1}) \in {max', 1} /\ Ex!Max({max', 1}) >= max' /\ Ex!Max({max', 1}) >= 1
    BY <2>4, MaxOfTwo, Zenon
  <2>6. Ex!Max({max, 1}) \in {max, 1}
    BY <2>2, <2>4, MaxOfTwo, Zenon
  <2>7. Ex!TopUp(n) \in Nat /\ (Ex!TopUp(n) = 0 \/ Ex!TopUp(n) + Ex!Workers =< max')
    BY <1>0, <1>1, <2>1, <2>2, TopUpBounds, Zenon DEF PoolTypes
  <2>8. Ex!Workers =< Ex!Max({max, 1})
    BY Zenon DEF Sizes
  <2>9. Ex!Max({max', 1}) \in Int /\ Ex!Max({max, 1}) \in Int /\ Ex!Max({max, 1}) =< Ex!Max({max', 1})
    BY <2>2, <2>3, <2>4, <2>5, <2>6, SMTT(30)
  <2>10. Ex!Workers + Ex!TopUp(n) =< Ex!Max({max', 1})
    BY <1>1, <2>4, <2>5, <2>7, <2>8, <2>9, SMTT(30)
  <2>11. core' \in CoreSize /\ core' =< max'
    BY <2>1, <2>2, <2>3, <2>4, SMTT(30)
  <2> QED BY <1>5, <2>1, <2>4, <2>7, <2>10, <2>11, Zenon
<1>8. ASSUME Ex!SpawnAndNotify, UNCHANGED <<core, max>> PROVE Sizes'
  <2>1. Ex!Alive' = Ex!Alive
    BY <1>0, <1>8, Woken, Zenon DEF PoolTypes
  <2> QED BY <1>2, <1>8, <2>1, Zenon
<1>9. ASSUME UNCHANGED <<core, max, wpc>> PROVE Sizes'
  <2>1. Ex!Alive' = Ex!Alive
    BY <1>9, Zenon DEF Ex!Alive
  <2> QED BY <1>2, <1>9, <2>1, Zenon
<1>10. ASSUME NEW w \in Worker, Ex!Look(w) PROVE Sizes'
  <2>1. w \in Ex!Alive /\ UNCHANGED <<core, max>> /\ "run" \in Ex!Stage /\ "sleep" \in Ex!Stage
    BY <1>10, Zenon DEF Ex!Look, Ex!Alive, Ex!Stage
  <2>2. Ex!Retire(w) \/ Ex!Goto(w, "run") \/ Ex!Goto(w, "sleep")
    BY <1>10, Zenon DEF Ex!Look
  <2> QED BY <1>3, <1>4, <2>1, <2>2, Zenon
<1>11. ASSUME NEW w \in Worker, Ex!IdleCheck(w) PROVE Sizes'
  <2>1. w \in Ex!Alive /\ UNCHANGED <<core, max>> /\ "top" \in Ex!Stage
    BY <1>11, Zenon DEF Ex!IdleCheck, Ex!Alive, Ex!Stage
  <2>2. Ex!Retire(w) \/ Ex!Goto(w, "top")
    BY <1>11, Zenon DEF Ex!IdleCheck
  <2> QED BY <1>3, <1>4, <2>1, <2>2, Zenon
<1>12. ASSUME NEW w \in Worker,
              Ex!Enroll(w) \/ Ex!Wake(w) \/ Ex!KeepAliveEnds(w) \/ Ex!TaskEnds(w) \/ Ex!LastOut(w)
       PROVE  Sizes'
  <2>1. UNCHANGED <<core, max>>
    BY <1>12, Zenon DEF Ex!Enroll, Ex!Wake, Ex!KeepAliveEnds, Ex!TaskEnds, Ex!LastOut
  <2>2. \E s \in Ex!Stage : Ex!Goto(w, s) /\ (w \in Ex!Alive \/ s = "none")
    BY <1>12, Zenon DEF Ex!Enroll, Ex!Wake, Ex!KeepAliveEnds, Ex!TaskEnds, Ex!LastOut, Ex!Alive,
       Ex!Stage
  <2> QED BY <1>3, <2>1, <2>2, Zenon
<1>13. CASE Ex!Shutdown \/ Ex!AwaitStep \/ UNCHANGED Ex!vars \/ \E t \in Task : Ex!SubmitRejected(t)
  <2>1. UNCHANGED <<core, max, wpc>>
    BY <1>13, Zenon DEF Ex!Shutdown, Ex!AwaitStep, Ex!ShutdownNotify, Ex!AwaitEnroll,
       Ex!AwaitLook, Ex!AwaitWake,
                        Ex!SubmitRejected, Ex!vars
  <2> QED BY <1>9, <2>1, Zenon
<1>14. CASE Ex!SetCorePoolSizeEnds \/ \E t \in Task : Ex!SubmitEnds(t)
  BY <1>8, <1>14, Zenon DEF Ex!SetCorePoolSizeEnds, Ex!SubmitEnds
<1> QED BY <1>6, <1>7, <1>10, <1>11, <1>12, <1>13, <1>14, Zenon DEF Ex!Next, Ex!WorkerStep

-----------------------------------------------------------------------------
(* A new pool has no worker and no task.                                   *)
LEMMA PoolStarts ==
    ASSUME PoolAssumption, Ex!Init
    PROVE  PoolInv /\ Sizes
<1>1. Ex!Alive = {} /\ queue = <<>> /\ spc = "up"
  BY DEF Ex!Init, Ex!Alive
<1>2. PoolTypes
  <2>1. queue \in Seq(Task)
    BY <1>1
  <2>2. wpc \in [Worker -> Ex!Stage]
    BY Zenon DEF Ex!Init, Ex!Stage
  <2>3. jobs \in [Task -> Word \cup Worker]
    BY Zenon DEF Ex!Init, Word
  <2> QED BY <2>1, <2>2, <2>3, Zenon DEF Ex!Init, PoolTypes
<1>3. Placed
  <2>1. \A t \in Task : jobs[t] = "new"
    BY Zenon DEF Ex!Init
  <2>2. \A w \in Worker : w # "new"
    BY DEF PoolAssumption, Ex!WorkerAssumption
  <2> QED BY <1>1, <2>1, <2>2, Zenon DEF Placed
<1>4. core \in CoreSize /\ core \in Nat /\ core \in Int /\ MaxSize \in Nat /\ MaxSize \in Int
  BY DEF Ex!Init, PoolAssumption, Ex!SizeAssumption
<1>5. max \in {core, MaxSize} /\ core =< max
  <2>1. Ex!Max({core, MaxSize}) \in {core, MaxSize} /\ Ex!Max({core, MaxSize}) >= core
    BY <1>4, MaxOfTwo, Zenon
  <2> QED BY <1>4, <2>1 DEF Ex!Init
<1>6. Ex!Workers =< Ex!Max({max, 1})
  <2>1. Ex!Workers = 0
    BY <1>1, Counting, FS_EmptySet, Zenon DEF Ex!Workers
  <2>2. max \in Int /\ 1 \in Int
    BY <1>4, <1>5
  <2>3. Ex!Max({max, 1}) \in {max, 1} /\ Ex!Max({max, 1}) >= 1
    BY <2>2, MaxOfTwo, Zenon
  <2> QED BY <2>1, <2>2, <2>3
<1> QED BY <1>1, <1>2, <1>3, <1>4, <1>5, <1>6, Zenon DEF PoolInv, Sizes, Ex!QueueAttended, Closing

(* Both invariants hold in every reachable state.                          *)
LEMMA PoolHeld == ASSUME PoolAssumption PROVE Ex!Spec => [](PoolInv /\ Sizes)
<1>1. Ex!Init => PoolInv /\ Sizes
  BY PoolStarts, Zenon
<1>2. (PoolInv /\ Sizes) /\ [Ex!Next]_Ex!vars => (PoolInv /\ Sizes)'
  BY PoolStep, SizesStep, Zenon
<1> QED BY <1>1, <1>2, PTL DEF Ex!Spec

(* The counters of State keep their types, and workers never exceeds       *)
(* max_pool_size, however submit, set_core_pool_size and retiring workers  *)
(* interleave: the one worker a pool of core size 0 needs is the only      *)
(* exception.                                                              *)
THEOREM PoolSized == ASSUME PoolAssumption PROVE Ex!Spec => []Ex!TypeOK
<1>1. PoolInv /\ Sizes => Ex!TypeOK
  BY Zenon DEF PoolInv, PoolTypes, Sizes, Ex!TypeOK, Word
<1> QED BY <1>1, PoolHeld, PTL

(* No wakeup is lost between take_task's look at the queue and its sleep,  *)
(* and no idle timeout takes the last worker away: a queued task always    *)
(* has a worker about to look, or a submit about to wake or start one.     *)
THEOREM NoTaskStranded == ASSUME PoolAssumption PROVE Ex!Spec => []Ex!QueueAttended
<1>1. PoolInv /\ Sizes => Ex!QueueAttended
  BY Zenon DEF PoolInv
<1> QED BY <1>1, PoolHeld, PTL

(* await_termination returns only when every task that submit accepted has *)
(* been run to its end.                                                    *)
THEOREM ShutdownDrains == ASSUME PoolAssumption PROVE Ex!Spec => []Ex!DrainedAtReturn
<1>1. ASSUME PoolInv PROVE Ex!DrainedAtReturn
  <2>1. SUFFICES ASSUME spc = "returned", NEW t \in Task
                 PROVE  jobs[t] \in {"new", "done", "rejected"}
    BY Zenon DEF Ex!DrainedAtReturn
  <2>2. Ex!Alive = {} /\ queue = <<>>
    BY <1>1, <2>1, Zenon DEF PoolInv, Closing, Placed
  <2>3. jobs[t] # "queued"
    <3>1. Len(queue) = 0
      BY <2>2
    <3> QED BY <1>1, <3>1 DEF PoolInv, Placed
  <2>4. jobs[t] \notin Worker
    <3>1. \A w \in Worker : wpc[w] # "run"
      BY <2>2 DEF Ex!Alive
    <3> QED BY <1>1, <3>1, Zenon DEF PoolInv, Placed
  <2> QED BY <1>1, <2>3, <2>4, Zenon DEF PoolInv, PoolTypes, Word
<1> QED BY <1>1, PoolHeld, PTL
=============================================================================
