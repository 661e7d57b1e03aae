------------------------- MODULE ProduceAccumulator -------------------------
(***************************************************************************)
(* Automatic batching (client/produce_accumulator.rs): callers put their   *)
(* messages into the open batch of their key, the batch is sent when it    *)
(* is large or old enough, and two guard threads look after batches nobody *)
(* pushes.                                                                 *)
(*                                                                         *)
(* The tables of synchronous and asynchronous batches have one key here:   *)
(* batches of different keys share only the quota currently_hold_size.     *)
(* Every message has size 1 and is its own index in the batch.  One step   *)
(* is one critical section, or one wait for wait_lock.                     *)
(***************************************************************************)
EXTENDS Integers, FiniteSets, FiniteSetsExt

CONSTANTS
    SyncMsg,   \* messages given to send
    AsyncMsg,  \* messages given to send_async
    Direct,    \* those can_batch refuses, or whose validation fails
    HoldSize, TotalHold,
    MaxBatch   \* names for batches; a name is reused once nobody holds it

SizeAssumption == {HoldSize, TotalHold, MaxBatch} \subseteq Nat
MsgAssumption ==
    SyncMsg \cap AsyncMsg = {} /\ Direct \subseteq SyncMsg \cup AsyncMsg

Msg == SyncMsg \cup AsyncMsg
Kind == {"sync", "async"}
Id == 1..MaxBatch
None == 0
NoneAssumption == None \notin Msg

VARIABLES
    held,     \* currently_hold_size
    table,    \* sync_batches and async_batches: the entry of the key
    batch,    \* MessageAccumulation
    pc, at,   \* progress of every message's caller, and the batch it holds
    answer,   \* what the caller, or the callback, was told
    fired,    \* how often it was told
    stored,   \* messages the broker has taken
    gpc, gat, \* progress of the two guard threads, and the batch they look at
    running   \* the guard threads are started

vars == <<held, table, batch, pc, at, answer, fired, stored, gpc, gat, running>>

KindOf(m) == IF m \in SyncMsg THEN "sync" ELSE "async"

(* lock is the holder of wait_lock; content what build_batch saw; out the  *)
(* asynchronous submissions not called back yet.                           *)
Fresh == [closed |-> FALSE, msgs |-> {}, due |-> FALSE, lock |-> None,
          content |-> {}, split |-> FALSE, out |-> 0]

Init ==
    /\ held = 0 /\ stored = {} /\ running = FALSE
    /\ table = [k \in Kind |-> None]
    /\ batch = [b \in Id |-> Fresh]
    /\ pc = [m \in Msg |-> "new"] /\ at = [m \in Msg |-> None]
    /\ answer = [m \in Msg |-> "none"] /\ fired = [m \in Msg |-> 0]
    /\ gpc = [k \in Kind |-> "rest"] /\ gat = [k \in Kind |-> None]

Goto(m, stage) == pc' = [pc EXCEPT ![m] = stage]
GuardGoto(k, stage) == gpc' = [gpc EXCEPT ![k] = stage]

InUse == {table[k] : k \in Kind} \cup {gat[k] : k \in Kind}
            \cup {at[m] : m \in Msg} \cup {b \in Id : batch[b].out > 0}

Unlink(k, b) == IF table[k] = b THEN [table EXCEPT ![k] = None] ELSE table

Ready(b) == Cardinality(batch[b].msgs) > HoldSize \/ batch[b].due

(* The callers in S, or their callbacks, are told what became of them.     *)
Tell(S, what) ==
    /\ answer' = [m \in Msg |-> IF m \in S THEN what[m] ELSE answer[m]]
    /\ fired' = [m \in Msg |-> IF m \in S THEN fired[m] + 1 ELSE fired[m]]

-----------------------------------------------------------------------------
(* send_by_accumulator and send_by_accumulator_async: can_batch charges    *)
(* the message first and looks at its delay, topic and group afterwards.   *)

TryAddMessage(m) == held' = IF held < TotalHold THEN held + 1 ELSE held

Admit(m) ==
    /\ pc[m] = "new"
    /\ TryAddMessage(m)
    /\ Goto(m, IF held < TotalHold /\ m \notin Direct THEN "lookup" ELSE "direct")
    /\ UNCHANGED <<table, batch, at, answer, fired, stored, gpc, gat, running>>

(* get_or_create_sync_batch and get_or_create_async_batch.                 *)
Lookup(m) ==
    LET k == KindOf(m) IN
    /\ pc[m] = "lookup"
    /\ \/ /\ table[k] # None
          /\ at' = [at EXCEPT ![m] = table[k]]
          /\ UNCHANGED <<table, batch>>
       \/ /\ table[k] = None
          /\ Id \ InUse # {}
          /\ LET b == Min(Id \ InUse) IN
               /\ at' = [at EXCEPT ![m] = b]
               /\ table' = [table EXCEPT ![k] = b]
               /\ batch' = [batch EXCEPT ![b] = Fresh]
    /\ Goto(m, "add")
    /\ UNCHANGED <<held, answer, fired, stored, gpc, gat, running>>

AddOpen(m) ==
    /\ pc[m] = "add" /\ ~batch[at[m]].closed
    /\ batch' = [batch EXCEPT ![at[m]].msgs = @ \cup {m}]
    /\ Goto(m, IF m \in SyncMsg THEN "lock" ELSE "check")
    /\ UNCHANGED <<held, table, at, answer, fired, stored, gpc, gat, running>>

AddClosed(m) ==
    /\ pc[m] = "add" /\ batch[at[m]].closed
    /\ Goto(m, "remove")
    /\ UNCHANGED <<held, table, batch, at, answer, fired, stored, gpc, gat, running>>

(* remove_sync_batch or remove_async_batch, then round the loop again.     *)
Remove(m) ==
    /\ pc[m] = "remove"
    /\ table' = Unlink(KindOf(m), at[m])
    /\ at' = [at EXCEPT ![m] = None]
    /\ Goto(m, "lookup")
    /\ UNCHANGED <<held, batch, answer, fired, stored, gpc, gat, running>>

-----------------------------------------------------------------------------
(* add: wait on the condition variable until the batch is closed           *)

TakeLock(m) ==
    /\ pc[m] = "lock" /\ batch[at[m]].lock = None
    /\ batch' = [batch EXCEPT ![at[m]].lock = m]
    /\ Goto(m, "loop")
    /\ UNCHANGED <<held, table, at, answer, fired, stored, gpc, gat, running>>

(* The batch is closed, ready to be sent by this caller, or waited for.    *)
Loop(m) ==
    /\ pc[m] = "loop"
    /\ LET b == at[m]
           go == IF batch[b].closed THEN "result"
                 ELSE IF Ready(b) THEN "close" ELSE "asleep"
       IN /\ Goto(m, go)
          /\ batch' = IF go = "close" THEN batch ELSE [batch EXCEPT ![b].lock = None]
    /\ UNCHANGED <<held, table, at, answer, fired, stored, gpc, gat, running>>

(* send_sync, first half: close and build, unless somebody closed it.      *)
CloseSync(m) ==
    /\ pc[m] = "close"
    /\ LET b == at[m] IN
       IF batch[b].closed
         THEN /\ batch' = [batch EXCEPT ![b].lock = None]
              /\ Goto(m, "result")
         ELSE /\ batch' = [batch EXCEPT ![b].closed = TRUE,
                                        ![b].content = batch[b].msgs]
              /\ Goto(m, "sending")
    /\ UNCHANGED <<held, table, at, answer, fired, stored, gpc, gat, running>>

(* split_send_results succeeds: one id for all, or one per message.        *)
Splits(b, outcome) ==
    /\ outcome = "stored"
    /\ Cardinality(batch[b].content) \in {1, Cardinality(batch[b].msgs)}

Sleeping(b) == {m \in Msg : at[m] = b /\ pc[m] = "asleep"}

(* The broker takes the batch, takes it and answers nonsense, or does not. *)
Outcome == {"stored", "garbled", "failed"}
Store(b, outcome) ==
    stored' = IF outcome = "failed" THEN stored ELSE stored \cup batch[b].content

(* send_sync, second half; an error goes to this caller alone.             *)
SyncSent(m, outcome) ==
    LET b == at[m]
        ok == Splits(b, outcome) IN
    /\ pc[m] = "sending"
    /\ Store(b, outcome)
    /\ batch' = [batch EXCEPT ![b].split = ok, ![b].lock = None]
    /\ held' = held - Cardinality(batch[b].msgs)
    /\ pc' = [x \in Msg |-> IF x \in Sleeping(b) THEN "lock"
                            ELSE IF x # m THEN pc[x]
                            ELSE IF ok THEN "result" ELSE "done"]
    /\ at' = IF ok THEN at ELSE [at EXCEPT ![m] = None]
    /\ Tell(IF ok THEN {} ELSE {m}, [x \in Msg |-> "error"])
    /\ UNCHANGED <<table, gpc, gat, running>>

(* send_result: the result of this index, or "sendResult is illegal".      *)
Result(m) ==
    /\ pc[m] = "result"
    /\ Tell({m}, [x \in Msg |-> IF batch[at[m]].split THEN "ok" ELSE "error"])
    /\ at' = [at EXCEPT ![m] = None]
    /\ Goto(m, "done")
    /\ UNCHANGED <<held, table, batch, stored, gpc, gat, running>>

-----------------------------------------------------------------------------
(* send_async_now, on the caller's thread or the guard's                   *)

(* Faulty: a caller's refused submission leaves the batch open.            *)
SubmitAfterAnswer(b) ==
    IF batch[b].closed THEN UNCHANGED <<batch, answer, fired>>
    ELSE \/ /\ batch' = [batch EXCEPT ![b].closed = TRUE, ![b].out = @ + 1,
                                      ![b].content = batch[b].msgs]
            /\ UNCHANGED <<answer, fired>>
         \/ /\ UNCHANGED batch
            /\ Tell(batch[b].msgs, [x \in Msg |-> "error"])

(* A refused submission is reported to every callback; the quota of its    *)
(* messages stays charged.                                                 *)
Submit(b) ==
    IF batch[b].closed THEN UNCHANGED <<batch, answer, fired>>
    ELSE \/ /\ batch' = [batch EXCEPT ![b].closed = TRUE, ![b].out = @ + 1,
                                      ![b].content = batch[b].msgs]
            /\ UNCHANGED <<answer, fired>>
         \/ /\ batch' = [batch EXCEPT ![b].closed = TRUE]
            /\ Tell(batch[b].msgs, [x \in Msg |-> "error"])

Check(m) ==
    /\ pc[m] = "check"
    /\ IF Ready(at[m]) THEN Submit(at[m]) ELSE UNCHANGED <<batch, answer, fired>>
    /\ at' = [at EXCEPT ![m] = None]
    /\ Goto(m, "done")
    /\ UNCHANGED <<held, table, stored, gpc, gat, running>>

(* AccumulationCallback: split, call every callback, release the quota.    *)
(* The split results are used here and nowhere else.                       *)
AsyncSent(b, outcome) ==
    /\ batch[b].out > 0
    /\ Store(b, outcome)
    /\ batch' = [batch EXCEPT ![b].out = @ - 1]
    /\ Tell(batch[b].content,
            [x \in Msg |-> IF Splits(b, outcome) THEN "ok" ELSE "error"])
    /\ held' = held - Cardinality(batch[b].content)
    /\ UNCHANGED <<table, pc, at, gpc, gat, running>>

-----------------------------------------------------------------------------
(* The guard threads, start and shutdown *)

Start ==
    /\ ~running /\ running' = TRUE
    /\ UNCHANGED <<held, table, batch, pc, at, answer, fired, stored, gpc, gat>>

(* shutdown joins both threads: their rounds come to an end first.         *)
Shutdown ==
    /\ running /\ running' = FALSE
    /\ \A k \in Kind : gpc[k] = "rest"
    /\ UNCHANGED <<held, table, batch, pc, at, answer, fired, stored, gpc, gat>>

GuardRound(k) ==
    /\ running /\ gpc[k] = "rest" /\ table[k] # None
    /\ gat' = [gat EXCEPT ![k] = table[k]]
    /\ GuardGoto(k, "push")
    /\ UNCHANGED <<held, table, batch, pc, at, answer, fired, stored, running>>

Notify(b) ==
    pc' = [m \in Msg |-> IF m \in Sleeping(b) THEN "lock" ELSE pc[m]]

(* wakeup, under wait_lock.                                                *)
GuardWakeup ==
    LET b == gat["sync"] IN
    /\ gpc["sync"] = "push" /\ batch[b].lock = None
    /\ IF batch[b].closed THEN UNCHANGED pc ELSE Notify(b)
    /\ GuardGoto("sync", "size")
    /\ UNCHANGED <<held, table, batch, at, answer, fired, stored, gat, running>>

GuardSend ==
    LET b == gat["async"] IN
    /\ gpc["async"] = "push"
    /\ IF Ready(b) THEN Submit(b) ELSE UNCHANGED <<batch, answer, fired>>
    /\ GuardGoto("async", "size")
    /\ UNCHANGED <<held, table, pc, at, stored, gat, running>>

GuardSize(k) ==
    /\ gpc[k] = "size"
    /\ IF batch[gat[k]].msgs = {}
         THEN GuardGoto(k, "empty") /\ UNCHANGED <<gat, pc>>
         ELSE /\ GuardGoto(k, "rest")
              /\ gat' = [gat EXCEPT ![k] = None]
              /\ IF k = "sync" THEN Notify(gat[k]) ELSE UNCHANGED pc
    /\ UNCHANGED <<held, table, batch, at, answer, fired, stored, running>>

(* mark_closed of a batch that was seen empty.                             *)
GuardClose(k) ==
    /\ gpc[k] = "empty"
    /\ batch' = [batch EXCEPT ![gat[k]].closed = TRUE]
    /\ GuardGoto(k, "unlink")
    /\ UNCHANGED <<held, table, pc, at, answer, fired, stored, gat, running>>

GuardUnlink(k) ==
    /\ gpc[k] = "unlink"
    /\ table' = Unlink(k, gat[k])
    /\ gat' = [gat EXCEPT ![k] = None]
    /\ GuardGoto(k, "rest")
    /\ UNCHANGED <<held, batch, pc, at, answer, fired, stored, running>>

(* hold_ms passes; the age of a closed batch is of no consequence.         *)
Ages(b) ==
    /\ b \in InUse /\ ~batch[b].due /\ ~batch[b].closed
    /\ batch' = [batch EXCEPT ![b].due = TRUE]
    /\ UNCHANGED <<held, table, pc, at, answer, fired, stored, gpc, gat, running>>

-----------------------------------------------------------------------------
SyncStep(m) ==
    TakeLock(m) \/ Loop(m) \/ CloseSync(m) \/ Result(m)
        \/ \E o \in Outcome : SyncSent(m, o)
CallerStep(m) == Lookup(m) \/ AddClosed(m) \/ Remove(m) \/ Check(m)
GuardStep(k) == GuardRound(k) \/ GuardSize(k) \/ GuardClose(k) \/ GuardUnlink(k)

Next ==
    \/ \E m \in Msg : Admit(m) \/ AddOpen(m) \/ CallerStep(m)
    \/ \E m \in SyncMsg : SyncStep(m)
    \/ \E b \in Id : Ages(b) \/ \E o \in Outcome : AsyncSent(b, o)
    \/ \E k \in Kind : GuardStep(k)
    \/ GuardWakeup \/ GuardSend
    \/ Start \/ Shutdown

Spec == Init /\ [][Next]_vars
-----------------------------------------------------------------------------
Batches == [closed : BOOLEAN, msgs : SUBSET Msg, due : BOOLEAN,
            lock : SyncMsg \cup {None}, content : SUBSET Msg, split : BOOLEAN,
            out : 0..1]

(* Every batch has at most one submission under way, and the quota never   *)
(* goes below zero.                                                        *)
TypeOK ==
    /\ held \in 0..Cardinality(Msg) /\ running \in BOOLEAN /\ stored \subseteq Msg
    /\ table \in [Kind -> Id \cup {None}] /\ gat \in [Kind -> Id \cup {None}]
    /\ at \in [Msg -> Id \cup {None}]
    /\ batch \in [Id -> Batches]
    /\ pc \in [Msg -> {"new", "direct", "lookup", "add", "remove", "lock", "loop",
                       "close", "sending", "asleep", "result", "check", "done"}]
    /\ answer \in [Msg -> {"none", "ok", "error"}] /\ fired \in [Msg -> Nat]
    /\ gpc \in [Kind -> {"rest", "push", "size", "empty", "unlink"}]

(* An open batch that holds messages is the one in the table, where the    *)
(* guard thread finds it: the removal of a closed batch by a caller or by  *)
(* the guard never takes away a batch that has replaced it meanwhile.      *)
OpenBatchInTable ==
    \A b \in Id : ~batch[b].closed /\ batch[b].msgs # {} =>
                    \E k \in Kind : table[k] = b

(* A caller is told, and a callback is called, at most once for a message, *)
(* although caller and guard may both find the batch ready.                *)
AnsweredOnce == \A m \in Msg : fired[m] <= 1

(* A message reported as sent was part of the batch the broker took: no    *)
(* message slips into a batch between its encoding and the splitting of    *)
(* the batch's result.                                                     *)
ResultIsOwn == \A m \in Msg : answer[m] = "ok" => m \in stored

(* Messages charged to the quota whose batch is not done with.             *)
Unsettled ==
    {b \in InUse \ {None} :
        \/ ~batch[b].closed \/ batch[b].out > 0
        \/ \E m \in Msg : at[m] = b /\ pc[m] = "sending"}
Owed ==
    {m \in Msg : pc[m] \in {"lookup", "add", "remove"}}
        \cup UNION {batch[b].msgs : b \in Unsettled}

(* The quota covers every message that waits or is being sent: no release  *)
(* happens twice, and none before the send of the batch is over.           *)
QuotaCovers == held >= Cardinality(Owed)

=============================================================================
