----------------------------- MODULE AsyncSend -----------------------------
(***************************************************************************)
(* The asynchronous send of a producer (client/producer.rs): jobs go       *)
(* through a bounded channel to a pool (AsyncSenderExecutor), pass the two *)
(* back-pressure gates, send, retry in the response callback               *)
(* (AsyncSendChain) and end in complete_async, which returns the permits   *)
(* and calls the user's callback.  A batch is sent inside its job.         *)
(*                                                                         *)
(* A gate is used by what FairSemaphore promises: waiters are served in    *)
(* order of arrival and may leave when their time is up.  An attempt has   *)
(* one outcome, which is what RemotingClient promises.                     *)
(***************************************************************************)
EXTENDS Integers, Sequences, FiniteSets, SequencesExt, FiniteSetsExt

CONSTANTS
    Send,         \* the sends
    Batch,        \* those that carry a batch
    Size,         \* bytes of every send
    QueueCap,     \* capacity of the executor's channel
    Workers,      \* async_sender_worker_count
    NumTotal,     \* values of back_pressure_for_async_send_num
    SizeTotal,    \* back_pressure_for_async_send_size
    Retries,      \* retry_times_when_send_async_failed
    Backpressure, \* enable_backpressure_for_async_mode
    MaxStarts     \* bound on start

SendAssumption == Batch \subseteq Send /\ Size \in [Send -> Nat \ {0}]
BoundAssumption ==
    /\ {QueueCap, Workers, SizeTotal, MaxStarts} \subseteq Nat \ {0}
    /\ NumTotal \subseteq Nat \ {0} /\ \E most \in NumTotal : \A n \in NumTotal : n <= most
    /\ Retries \in Nat /\ Backpressure \in BOOLEAN

Exec == 1..MaxStarts

VARIABLES
    started,   \* the producer runs: it has a client and an executor
    exec,      \* generation of the current executor
    chan,      \* of every executor: jobs in its channel
    hand,      \* of every executor: the job its dispatcher has taken
    busy,      \* of every executor: sends whose job holds an allowance
    pc,        \* progress of every send
    tries,     \* AsyncSendChain.times
    total,     \* the number gate: its size,
    num,       \* who holds a permit of it,
    numQ,      \* and who waits for one
    size, sizeQ, \* the same for bytes
    calls      \* callbacks so far

vars == <<started, exec, chan, hand, busy, pc, tries, total, num, numQ, size, sizeQ, calls>>
pool == <<chan, hand, busy>>
gates == <<total, num, numQ, size, sizeQ>>

Init ==
    /\ started = FALSE /\ exec = 0
    /\ chan = [e \in Exec |-> <<>>] /\ hand = [e \in Exec |-> {}] /\ busy = [e \in Exec |-> {}]
    /\ pc = [s \in Send |-> "new"] /\ tries = [s \in Send |-> 0]
    /\ total \in NumTotal /\ num = {} /\ numQ = <<>> /\ size = {} /\ sizeQ = <<>>
    /\ calls = [s \in Send |-> 0]

Goto(s, stage) == pc' = [pc EXCEPT ![s] = stage]

-----------------------------------------------------------------------------
Start ==
    /\ ~started /\ exec < MaxStarts
    /\ started' = TRUE /\ exec' = exec + 1
    /\ UNCHANGED <<pc, tries, calls>> /\ UNCHANGED pool /\ UNCHANGED gates

(* The executor takes no new jobs; its dispatcher goes on with those it    *)
(* has.                                                                    *)
Shutdown ==
    /\ started
    /\ started' = FALSE
    /\ UNCHANGED <<exec, pc, tries, calls>> /\ UNCHANGED pool /\ UNCHANGED gates

(* send_async_inner, send_batch_async, submit_async_job.  A rejected send  *)
(* has returned an error and calls nobody.                                 *)
Submit(s) ==
    /\ pc[s] = "new"
    /\ \/ ~started /\ Goto(s, "rejected") /\ UNCHANGED chan
       \/ /\ started /\ Len(chan[exec]) < QueueCap
          /\ chan' = [chan EXCEPT ![exec] = Append(@, s)]
          /\ Goto(s, "queued")
       \/ /\ started /\ Len(chan[exec]) = QueueCap
          /\ Goto(s, IF Backpressure THEN "gate" ELSE "rejected")
          /\ UNCHANGED chan
    /\ UNCHANGED <<started, exec, hand, busy, tries, calls>> /\ UNCHANGED gates

(* AsyncSenderExecutor's dispatcher: it holds one job until an allowance   *)
(* is free.                                                                *)
Take(e) ==
    /\ hand[e] = {} /\ chan[e] # <<>>
    /\ hand' = [hand EXCEPT ![e] = {Head(chan[e])}]
    /\ chan' = [chan EXCEPT ![e] = Tail(@)]
    /\ UNCHANGED <<started, exec, busy, pc, tries, calls>> /\ UNCHANGED gates

RunJob(e, s) ==
    /\ s \in hand[e] /\ Cardinality(busy[e]) < Workers
    /\ hand' = [hand EXCEPT ![e] = {}]
    /\ busy' = [busy EXCEPT ![e] = @ \cup {s}]
    /\ Goto(s, "gate")
    /\ UNCHANGED <<started, exec, chan, tries, calls>> /\ UNCHANGED gates

Idle(s) == [e \in Exec |-> busy[e] \ {s}]

-----------------------------------------------------------------------------
(* acquire_send_permits *)

Bytes(S) == MapThenSumSet(LAMBDA s : Size[s], S)

Gate(s) ==
    /\ pc[s] = "gate"
    /\ \/ ~Backpressure /\ Goto(s, "prepare") /\ UNCHANGED numQ
       \/ Backpressure /\ Goto(s, "number") /\ numQ' = Append(numQ, s)
       \/ Backpressure /\ Goto(s, "failed") /\ UNCHANGED numQ
    /\ UNCHANGED <<started, exec, tries, total, num, size, sizeQ, calls>> /\ UNCHANGED pool

NumberGranted(s) ==
    /\ pc[s] = "number" /\ Head(numQ) = s /\ Cardinality(num) < total
    /\ num' = num \cup {s} /\ numQ' = Tail(numQ)
    /\ sizeQ' = Append(sizeQ, s)
    /\ Goto(s, "bytes")
    /\ UNCHANGED <<started, exec, tries, total, size, calls>> /\ UNCHANGED pool

BytesGranted(s) ==
    /\ pc[s] = "bytes" /\ Head(sizeQ) = s /\ Bytes(size) + Size[s] <= SizeTotal
    /\ size' = size \cup {s} /\ sizeQ' = Tail(sizeQ)
    /\ Goto(s, "prepare")
    /\ UNCHANGED <<started, exec, tries, total, num, numQ, calls>> /\ UNCHANGED pool

(* Faulty: the waiter that gives up stays in the byte gate's queue.        *)
GateTimeoutStays(s) ==
    /\ pc[s] \in {"number", "bytes"}
    /\ numQ' = Remove(numQ, s)
    /\ Goto(s, "failed")
    /\ UNCHANGED <<started, exec, tries, total, num, size, sizeQ, calls>> /\ UNCHANGED pool
(* The budget ends while the send waits for either gate.                   *)
GateTimeout(s) ==
    /\ pc[s] \in {"number", "bytes"}
    /\ numQ' = Remove(numQ, s) /\ sizeQ' = Remove(sizeQ, s)
    /\ Goto(s, "failed")
    /\ UNCHANGED <<started, exec, tries, total, num, size, calls>> /\ UNCHANGED pool

(* set_back_pressure_for_async_send_num                                    *)
SetNum(n) ==
    /\ n # total /\ total' = n
    /\ UNCHANGED <<started, exec, pc, tries, num, numQ, size, sizeQ, calls>> /\ UNCHANGED pool

-----------------------------------------------------------------------------
(* run_async_send after the gates, async_send_inner, send_kernel_async,    *)
(* run_async_send_batch *)

(* Checks, route and hooks may end the send; without a client they do.     *)
(* The job of a single message ends with its first attempt.                *)
Prepare(s) ==
    /\ pc[s] = "prepare"
    /\ \/ Goto(s, "failed") /\ UNCHANGED busy
       \/ /\ started /\ Goto(s, "sent")
          /\ busy' = IF s \in Batch THEN busy ELSE Idle(s)
    /\ UNCHANGED <<started, exec, chan, hand, tries, calls>> /\ UNCHANGED gates

Succeeds(s) ==
    /\ pc[s] = "sent"
    /\ Goto(s, "ok")
    /\ UNCHANGED <<started, exec, tries, calls>> /\ UNCHANGED pool /\ UNCHANGED gates

(* on_exception: another attempt while the failure allows one, retries and *)
(* time are left and the chosen broker has an address.  A batch has one.   *)
Fails(s) ==
    /\ pc[s] = "sent"
    /\ \/ /\ s \notin Batch /\ tries[s] < Retries
          /\ tries' = [tries EXCEPT ![s] = @ + 1] /\ UNCHANGED pc
       \/ Goto(s, "failed") /\ UNCHANGED tries
    /\ UNCHANGED <<started, exec, calls>> /\ UNCHANGED pool /\ UNCHANGED gates

(* Faulty: a send that gave up at the byte gate keeps its other permit.    *)
CompleteLeaks(s) ==
    /\ pc[s] \in {"ok", "failed"}
    /\ size' = size \ {s} /\ num' = IF s \in size THEN num \ {s} ELSE num
    /\ Goto(s, "callback")
    /\ UNCHANGED <<started, exec, tries, total, numQ, sizeQ, calls>> /\ UNCHANGED pool
(* complete_async: the permits go back, then the callback is called.       *)
Complete(s) ==
    /\ pc[s] \in {"ok", "failed"}
    /\ size' = size \ {s} /\ num' = num \ {s}
    /\ Goto(s, "callback")
    /\ UNCHANGED <<started, exec, tries, total, numQ, sizeQ, calls>> /\ UNCHANGED pool

(* Faulty: a job that failed early keeps its allowance.                    *)
CallbackKeepsAllowance(s) ==
    /\ pc[s] = "callback"
    /\ calls' = [calls EXCEPT ![s] = @ + 1]
    /\ Goto(s, "finished")
    /\ UNCHANGED <<started, exec, chan, hand, busy, tries>> /\ UNCHANGED gates
(* A job that is still running ends with the callback.                     *)
Callback(s) ==
    /\ pc[s] = "callback"
    /\ calls' = [calls EXCEPT ![s] = @ + 1]
    /\ Goto(s, "finished")
    /\ busy' = Idle(s)
    /\ UNCHANGED <<started, exec, chan, hand, tries>> /\ UNCHANGED gates

-----------------------------------------------------------------------------
SendStep(s) ==
    \/ Gate(s) \/ NumberGranted(s) \/ BytesGranted(s) \/ GateTimeout(s) \/ Prepare(s)
    \/ Succeeds(s) \/ Fails(s) \/ Complete(s) \/ Callback(s)
PoolStep(e) == Take(e) \/ \E s \in Send : RunJob(e, s)

Next ==
    \/ Start \/ Shutdown
    \/ \E s \in Send : Submit(s) \/ SendStep(s)
    \/ \E e \in Exec : PoolStep(e)
    \/ \E n \in NumTotal : SetNum(n)

Spec == Init /\ [][Next]_vars

-----------------------------------------------------------------------------
Stage == {"new", "rejected", "queued", "gate", "number", "bytes", "prepare", "sent",
          "ok", "failed", "callback", "finished"}

(* Channels, allowances and queues hold what the code can put there.       *)
TypeOK ==
    /\ pc \in [Send -> Stage]
    /\ \A e \in Exec :
          /\ Len(chan[e]) <= QueueCap /\ Cardinality(hand[e]) <= 1
          /\ Cardinality(busy[e]) <= Workers
    /\ ToSet(numQ) = {s \in Send : pc[s] = "number"}
    /\ ToSet(sizeQ) = {s \in Send : pc[s] = "bytes"}

(* The user's callback fires exactly once for every send that was taken    *)
(* on, after any number of attempts, and never for one that was rejected.  *)
OneCallback ==
    \A s \in Send : calls[s] = IF pc[s] = "finished" THEN 1 ELSE 0

(* Permits are with sends that still need them: a byte permit only beside  *)
(* a number permit, none once the callback is due, so that a callback may  *)
(* send again.                                                             *)
PermitsBack ==
    /\ size \subseteq num
    /\ \A s \in num : pc[s] \in {"bytes", "prepare", "sent", "ok", "failed"}

(* With back pressure no more requests are in flight than the largest      *)
(* number of permits allows, nor more bytes than SizeTotal.                *)
InFlight == {s \in Send : pc[s] = "sent"}
NumberBounded == Backpressure => Cardinality(InFlight) <= Max(NumTotal)
BytesBounded == Backpressure => Bytes(InFlight) <= SizeTotal
InFlightBounded == NumberBounded /\ BytesBounded

(* Every send ends: rejected at once or, in the end, with its callback,    *)
(* through shutdown and restart and behind sends too large for the gate.   *)
EverySendEnds ==
    \A s \in Send : pc[s] # "new" ~> pc[s] \in {"rejected", "finished"}
=============================================================================
