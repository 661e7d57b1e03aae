---------------------------- MODULE PopConsumer ----------------------------
(***************************************************************************)
(* One queue of a push consumer in POP mode with a concurrent listener     *)
(* (client/consumer.rs): a pop loop per ownership token takes messages the *)
(* broker hides for an invisible time, an executor hands them to the       *)
(* listener, and each is acked or has its invisible time changed by an RPC *)
(* nobody waits for.  What is neither comes back after its invisible time. *)
(*                                                                         *)
(* A delivery of a message is the pair of the message and the number of    *)
(* times it was popped, which stands for its POP_CK.                       *)
(***************************************************************************)
EXTENDS Integers, FiniteSetsExt

CONSTANTS
    Msg,          \* messages, as numbers: a batch keeps their order
    Filtered,     \* messages the client-side filter removes
    PopBatch,     \* pop_batch_nums
    ConsumeBatch, \* consume_message_batch_max_size
    Threshold,    \* pop_threshold_for_queue
    Budget,       \* max_reconsume_times
    MaxPops,      \* bound on the deliveries of one message
    MaxChurn,     \* bound on how often the queue is taken away
    Fault         \* "rpc": RPCs may fail or get lost

BoundAssumption ==
    /\ Msg \subseteq Nat /\ IsFiniteSet(Msg) /\ Filtered \subseteq Msg
    /\ {PopBatch, ConsumeBatch, MaxPops} \subseteq Nat \ {0} /\ Threshold \in Nat
    /\ Budget \in Nat /\ MaxChurn \in Nat

Gen == 1..MaxChurn + 1
Row == Msg \X (1..MaxPops)

VARIABLES
    broker,  \* of every message: where it is, pops so far, invisible time over
    owner,   \* queue_owners: the generation that owns the queue, 0 for none
    gens,    \* generations so far
    pq,      \* of every generation: its PopProcessQueue
    loop,    \* of every generation: its pop loop
    tasks,   \* batches given to pop_executor
    rpcs,    \* acks and changes of the invisible time under way
    done     \* history: messages accepted, filtered out or out of retries

vars == <<broker, owner, gens, pq, loop, tasks, rpcs, done>>

NoLoop == [pc |-> "none", rows |-> {}]

Init ==
    /\ broker = [m \in Msg |-> [st |-> "ready", pops |-> 0, over |-> FALSE]]
    /\ owner = 0 /\ gens = 0
    /\ pq = [g \in Gen |-> [wait |-> 0, dropped |-> FALSE]]
    /\ loop = [g \in Gen |-> NoLoop]
    /\ tasks = {} /\ rpcs = {} /\ done = {}

-----------------------------------------------------------------------------
(* The broker *)

Current(row) == broker[row[1]].st = "out" /\ broker[row[1]].pops = row[2]

(* The invisible time of a delivery ends, then the message is ready again. *)
InvisibleTimeEnds(m) ==
    /\ broker[m].st = "out" /\ ~broker[m].over
    /\ broker' = [broker EXCEPT ![m].over = TRUE]
    /\ UNCHANGED <<owner, gens, pq, loop, tasks, rpcs, done>>

Revive(m) ==
    /\ broker[m].st = "out" /\ broker[m].over /\ broker[m].pops < MaxPops
    /\ broker' = [broker EXCEPT ![m].st = "ready", ![m].over = FALSE]
    /\ UNCHANGED <<owner, gens, pq, loop, tasks, rpcs, done>>

(* ACK_MESSAGE and CHANGE_MESSAGE_INVISIBLETIME; those for a delivery that *)
(* is over have no effect.                                                 *)
Rpc(r) ==
    /\ r \in rpcs
    /\ rpcs' = rpcs \ {r}
    /\ LET m == r.row[1]
       IN \/ /\ Current(r.row)
             /\ broker' = IF r.kind = "ack" THEN [broker EXCEPT ![m].st = "gone"]
                          ELSE [broker EXCEPT ![m].over = FALSE]
          \/ ~Current(r.row) /\ UNCHANGED broker
          \/ "rpc" \in Fault /\ UNCHANGED broker
    /\ UNCHANGED <<owner, gens, pq, loop, tasks, done>>

-----------------------------------------------------------------------------
(* Rebalancing *)

Assign ==
    /\ owner = 0 /\ gens < MaxChurn + 1
    /\ gens' = gens + 1 /\ owner' = gens + 1
    /\ loop' = [loop EXCEPT ![gens + 1].pc = "top"]
    /\ UNCHANGED <<broker, pq, tasks, rpcs, done>>

(* retire_queue_locked                                                     *)
Retire ==
    /\ owner # 0 /\ gens < MaxChurn + 1
    /\ owner' = 0
    /\ pq' = [pq EXCEPT ![owner].dropped = TRUE]
    /\ UNCHANGED <<broker, gens, loop, tasks, rpcs, done>>

-----------------------------------------------------------------------------
(* run_queue_pop_loop *)

FlowControlHit(g) == pq[g].wait > Threshold

Ready == {m \in Msg : broker[m].st = "ready"}

(* pop_message: the broker hides what it returns, whether or not the       *)
(* answer arrives.                                                         *)
Pop(g) ==
    /\ loop[g].pc = "top" /\ owner = g /\ ~pq[g].dropped
    /\ ~FlowControlHit(g)
    /\ \E S \in SUBSET Ready :
          /\ Cardinality(S) = Min({PopBatch, Cardinality(Ready)}) /\ S # {}
          /\ broker' = [m \in Msg |-> IF m \in S
                THEN [st |-> "out", pops |-> broker[m].pops + 1, over |-> FALSE]
                ELSE broker[m]]
          /\ \/ loop' = [loop EXCEPT ![g] =
                            [pc |-> "answer", rows |-> {<<m, broker[m].pops + 1>> : m \in S}]]
             \/ "rpc" \in Fault /\ UNCHANGED loop
    /\ UNCHANGED <<owner, gens, pq, tasks, rpcs, done>>

PopEnds(g) ==
    /\ loop[g].pc = "top" /\ (owner # g \/ pq[g].dropped)
    /\ loop' = [loop EXCEPT ![g] = NoLoop]
    /\ UNCHANGED <<broker, owner, gens, pq, tasks, rpcs, done>>

Before(S, row) == Cardinality({r \in S : r[1] < row[1]})

(* Consecutive batches of at most ConsumeBatch rows.                       *)
Batches(g, kept) ==
    {[gen |-> g, pc |-> "queued",
      rows |-> {r \in kept : Before(kept, r) \div ConsumeBatch = i}] :
        i \in {Before(kept, r) \div ConsumeBatch : r \in kept}}

Acks(S) == {[kind |-> "ack", row |-> r] : r \in S}
Changes(S) == {[kind |-> "change", row |-> r] : r \in S}

(* Rows the filter removes and rows past the retry budget.                 *)
Refused(S) == {r \in S : r[1] \in Filtered \/ r[2] - 1 > Budget}

(* Faulty: rows acked at once stay in the debt.                            *)
PopAnswerKeepsDebt(g) ==
    /\ loop[g].pc = "answer"
    /\ \/ /\ owner # g \/ pq[g].dropped
          /\ loop' = [loop EXCEPT ![g] = NoLoop]
          /\ UNCHANGED <<pq, tasks, rpcs, done>>
       \/ /\ owner = g /\ ~pq[g].dropped
          /\ LET S == loop[g].rows
                 gone == Refused(S)
             IN /\ pq' = [pq EXCEPT ![g].wait = @ + Cardinality(S)]
                /\ rpcs' = rpcs \cup Acks(gone)
                /\ done' = done \cup {r[1] : r \in gone}
                /\ tasks' = tasks \cup Batches(g, S \ gone)
          /\ loop' = [loop EXCEPT ![g] = [NoLoop EXCEPT !.pc = "top"]]
    /\ UNCHANGED <<broker, owner, gens>>
(* The answer: discarded when the queue was lost meanwhile, else counted,  *)
(* filtered (prepare_pop_batch_for_delivery) and submitted.                *)
PopAnswer(g) ==
    /\ loop[g].pc = "answer"
    /\ \/ /\ owner # g \/ pq[g].dropped
          /\ loop' = [loop EXCEPT ![g] = NoLoop]
          /\ UNCHANGED <<pq, tasks, rpcs, done>>
       \/ /\ owner = g /\ ~pq[g].dropped
          /\ LET S == loop[g].rows
                 gone == Refused(S)
             IN /\ pq' = [pq EXCEPT ![g].wait = @ + Cardinality(S) - Cardinality(gone)]
                /\ rpcs' = rpcs \cup Acks(gone)
                /\ done' = done \cup {r[1] : r \in gone}
                /\ tasks' = tasks \cup Batches(g, S \ gone)
          /\ loop' = [loop EXCEPT ![g] = [NoLoop EXCEPT !.pc = "top"]]
    /\ UNCHANGED <<broker, owner, gens>>

-----------------------------------------------------------------------------
(* consume_pop_batch *)

(* is_pop_timeout, by the first row of the batch.                          *)
TimedOut(t) ==
    LET first == CHOOSE r \in t.rows : \A q \in t.rows : r[1] <= q[1]
    IN ~Current(first) \/ broker[first[1]].over

DecFound(t) == pq' = [pq EXCEPT ![t.gen].wait = @ - Cardinality(t.rows)]

(* Faulty: a batch that is late before the listener sees it stays in the   *)
(* debt.                                                                   *)
RunKeepsDebt(t) ==
    /\ t \in tasks /\ t.pc = "queued"
    /\ tasks' = (tasks \ {t}) \cup IF pq[t.gen].dropped \/ TimedOut(t) THEN {}
                                    ELSE {[t EXCEPT !.pc = "listening"]}
    /\ UNCHANGED <<broker, owner, gens, pq, loop, rpcs, done>>
Run(t) ==
    /\ t \in tasks /\ t.pc = "queued"
    /\ \/ pq[t.gen].dropped /\ tasks' = tasks \ {t} /\ UNCHANGED pq
       \/ /\ ~pq[t.gen].dropped /\ TimedOut(t)
          /\ DecFound(t) /\ tasks' = tasks \ {t}
       \/ /\ ~pq[t.gen].dropped /\ ~TimedOut(t)
          /\ tasks' = (tasks \ {t}) \cup {[t EXCEPT !.pc = "listening"]}
          /\ UNCHANGED pq
    /\ UNCHANGED <<broker, owner, gens, loop, rpcs, done>>

(* The first k rows; k = 0 for RECONSUME_LATER.                            *)
Accepted(t, k) == {r \in t.rows : Before(t.rows, r) < k}

Acked(t, k) == Accepted(t, k)

(* Rows out of retries: check_need_ack_or_delay acks those that are also   *)
(* old, and gives the others another invisible time like the rest.         *)
ProcessResult(t, k, old) ==
    LET rest == t.rows \ Acked(t, k)
        drop == {r \in rest : r[2] - 1 >= Budget /\ old}
    IN /\ rpcs' = rpcs \cup Acks(Acked(t, k) \cup drop) \cup Changes(rest \ drop)
       /\ done' = done \cup {r[1] : r \in Accepted(t, k) \cup drop}
       /\ DecFound(t)

(* The listener returns; the result of a batch that is late or whose queue *)
(* was lost is not looked at.                                              *)
Listened(t, k, old) ==
    /\ t \in tasks /\ t.pc = "listening" /\ k <= Cardinality(t.rows)
    /\ tasks' = tasks \ {t}
    /\ \/ ~pq[t.gen].dropped /\ ~TimedOut(t) /\ ProcessResult(t, k, old)
       \/ /\ pq[t.gen].dropped \/ TimedOut(t)
          /\ DecFound(t) /\ UNCHANGED <<rpcs, done>>
    /\ UNCHANGED <<broker, owner, gens, loop>>

-----------------------------------------------------------------------------
BrokerStep == \E m \in Msg : InvisibleTimeEnds(m) \/ Revive(m)
LoopStep(g) == Pop(g) \/ PopEnds(g) \/ PopAnswer(g)
TaskStep(t) == Run(t) \/ \E k \in 0..ConsumeBatch, old \in BOOLEAN : Listened(t, k, old)

Next ==
    \/ BrokerStep \/ Assign \/ Retire
    \/ \E r \in rpcs : Rpc(r)
    \/ \E g \in Gen : LoopStep(g)
    \/ \E t \in tasks : TaskStep(t)

Spec == Init /\ [][Next]_vars

-----------------------------------------------------------------------------
(* The debt, the loops and the tasks hold what the code can put there.     *)
TypeOK ==
    /\ owner \in 0..gens
    /\ \A m \in Msg : broker[m].st \in {"ready", "out", "gone"} /\ broker[m].pops \in 0..MaxPops
    /\ \A g \in Gen : loop[g].rows \subseteq Row /\ pq[g].wait \in Int
    /\ \A t \in tasks : t.rows \subseteq Row /\ t.rows # {} /\ Cardinality(t.rows) <= ConsumeBatch

Owed(g) == UNION {t.rows : t \in {u \in tasks : u.gen = g}}

(* wait_ack_counter of a process queue in use is the number of rows the    *)
(* executor still has to answer for, whatever became of the others: late,  *)
(* filtered, accepted, refused.  A row not counted back would stop the     *)
(* queue for good, one counted twice would switch flow control off.        *)
DebtExact == \A g \in Gen : ~pq[g].dropped => pq[g].wait = Cardinality(Owed(g))

(* Flow control: no more rows than the threshold and one batch are with    *)
(* the executor for the queue in use.                                      *)
DebtBounded ==
    \A g \in Gen : ~pq[g].dropped => Cardinality(Owed(g)) <= Threshold + PopBatch

(* At least once: the broker forgets a message only after a listener       *)
(* accepted it, the filter removed it or it ran out of retries, however    *)
(* late the acks are and whoever pops it meanwhile.                        *)
GoneIsDone == \A m \in Msg : broker[m].st = "gone" => m \in done

(* No message is left lying: each is acked in the end or has been          *)
(* delivered as often as the bound lets it, though the queue moves, rows   *)
(* are late and the listener may refuse every one.                         *)
NoneForgotten == <>[](\A m \in Msg : broker[m].st = "gone" \/ broker[m].pops = MaxPops)
=============================================================================
