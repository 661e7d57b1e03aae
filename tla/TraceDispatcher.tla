--------------------------- MODULE TraceDispatcher ---------------------------
(***************************************************************************)
(* The asynchronous trace dispatcher (client/trace_dispatcher.rs): trace   *)
(* contexts in a bounded queue, flushed in batches by a worker and by      *)
(* whoever shuts the dispatcher down, sent by tasks of their own through   *)
(* an internal producer that is closed when the sends are over.            *)
(***************************************************************************)
EXTENDS Integers, Sequences, FiniteSets, SequencesExt

CONSTANTS
    Context,   \* trace contexts
    BatchNum,  \* batch_num
    Capacity,  \* queue_capacity
    Closers,   \* calls of shutdown
    Gracefuls, \* calls of shutdown_gracefully
    Ticks,     \* whether the flush interval may pass
    Early,     \* whether a shutdown may come before a start is over
    MaxStarts, \* bound on starts
    Worker

TraceAssumption ==
    /\ BatchNum \in Nat \ {0} /\ Capacity \in Nat /\ MaxStarts \in Nat /\ Ticks \in BOOLEAN /\ Early \in BOOLEAN
    /\ Closers \intersect Gracefuls = {} /\ Worker \notin Closers \union Gracefuls

Stopping == Closers \union Gracefuls
Flusher == Stopping \union {Worker}

VARIABLES
    queue,    \* contexts waiting
    offered,  \* contexts handed to append
    held,     \* of every flusher: the batch it took from the queue
    sending,  \* batches whose send task runs
    pending,  \* the in-flight table: batches whose task was tracked
    done,     \* contexts by outcome
    pc,       \* of every waiter: where it is
    joins,    \* of every waiter: the batches it waits for
    worker,   \* the worker task: whether it is there, aborted, or gone
    flags,    \* is_started, stopped, finalizing
    producer, \* the internal producer
    starts,   \* start: where it is, and how often it was called
    due,      \* of every waiter: contexts it found in the queue or in flight
    expired   \* waiters whose time is over

vars == <<queue, offered, held, sending, pending, done, pc, joins, worker, flags, producer,
          starts, due, expired>>
task == <<queue, held, sending, pending>>

Init ==
    /\ queue = <<>> /\ offered = {} /\ sending = {} /\ pending = {}
    /\ held = [a \in Flusher |-> [batch |-> {}, pc |-> "none"]]
    /\ done = [sent |-> {}, cut |-> {}, discarded |-> {}]
    /\ pc = [w \in Stopping |-> "idle"]
    /\ joins = [w \in Stopping |-> {}] /\ due = [w \in Stopping |-> {}]
    /\ worker = "none" /\ producer = "new" /\ expired = {}
    /\ flags = [started |-> FALSE, stopped |-> FALSE, finalizing |-> FALSE]
    /\ starts = [pc |-> "idle", count |-> 0]

-----------------------------------------------------------------------------
(* append: a full queue discards.                                          *)
Append_(c) ==
    /\ c \notin offered
    /\ offered' = offered \union {c}
    /\ IF Len(queue) >= Capacity
       THEN done' = [done EXCEPT !.discarded = @ \union {c}] /\ UNCHANGED queue
       ELSE queue' = Append(queue, c) /\ UNCHANGED done
    /\ UNCHANGED <<held, sending, pending, pc, joins, worker, flags, producer, starts, due, expired>>

(* flush_trace_context: batch_num contexts at most leave the queue.        *)
TakeBatch(a) ==
    LET n == IF Len(queue) < BatchNum THEN Len(queue) ELSE BatchNum
    IN  /\ held[a].pc = "none"
        /\ held' = [held EXCEPT ![a] = [batch |-> ToSet(SubSeq(queue, 1, n)), pc |-> "taken"]]
        /\ queue' = SubSeq(queue, n + 1, Len(queue))
        /\ UNCHANGED <<sending, pending>>

(* Faulty: the task is not entered in the table.                           *)
SubmitUntracked(a) ==
    \/ /\ held[a].pc = "taken"
       /\ sending' = sending \union {held[a].batch}
       /\ held' = [held EXCEPT ![a].pc = "spawned"]
       /\ UNCHANGED <<queue, pending>>
    \/ /\ held[a].pc = "spawned"
       /\ held' = [held EXCEPT ![a] = [batch |-> {}, pc |-> "none"]]
       /\ UNCHANGED <<queue, sending, pending>>
(* submit: the task is spawned, then entered in the in-flight table.       *)
Submit(a) ==
    \/ /\ held[a].pc = "taken"
       /\ sending' = sending \union {held[a].batch}
       /\ held' = [held EXCEPT ![a].pc = "spawned"]
       /\ UNCHANGED <<queue, pending>>
    \/ /\ held[a].pc = "spawned"
       /\ pending' = (pending \intersect sending) \union {held[a].batch}
       /\ held' = [held EXCEPT ![a] = [batch |-> {}, pc |-> "none"]]
       /\ UNCHANGED <<queue, sending>>

(* send_trace_data: a failure is logged; with the producer closed it fails.*)
SendDone(b) ==
    /\ b \in sending
    /\ sending' = sending \ {b}
    /\ done' = IF producer = "open" THEN [done EXCEPT !.sent = @ \union b]
                                    ELSE [done EXCEPT !.cut = @ \union b]
    /\ UNCHANGED <<queue, offered, held, pending, pc, joins, worker, flags, producer, starts, due, expired>>

-----------------------------------------------------------------------------
(* The worker *)

(* Faulty: only a full batch is flushed.                                   *)
WorkerFlushesFull == Len(queue) >= BatchNum
WorkerFlushes == Len(queue) >= BatchNum \/ (Ticks /\ queue # <<>>)

WorkerTake ==
    /\ worker = "on" /\ ~flags.stopped /\ WorkerFlushes
    /\ TakeBatch(Worker)
    /\ UNCHANGED <<offered, done, pc, joins, worker, flags, producer, starts, due, expired>>

WorkerSubmit ==
    /\ worker # "none" /\ Submit(Worker)
    /\ UNCHANGED <<offered, done, pc, joins, worker, flags, producer, starts, due, expired>>

(* An abort takes effect where the worker awaits.                          *)
WorkerExit ==
    /\ worker = "aborted" /\ held[Worker].pc = "none"
    /\ worker' = "none"
    /\ UNCHANGED <<queue, offered, held, sending, pending, done, pc, joins, flags, producer,
                   starts, due, expired>>

-----------------------------------------------------------------------------
(* start *)

StartBegin ==
    /\ starts.pc = "idle" /\ starts.count < MaxStarts
    /\ starts' = [pc |-> "starting", count |-> starts.count + 1]
    /\ UNCHANGED <<queue, offered, held, sending, pending, done, pc, joins, worker, flags,
                   producer, due, expired>>

(* The producer is started once; it may not start.                         *)
StartProducer ==
    /\ starts.pc = "starting"
    /\ \/ /\ ~flags.started
          /\ producer' = "open" /\ flags' = [flags EXCEPT !.started = TRUE]
          /\ starts' = [starts EXCEPT !.pc = "worker"]
       \/ /\ ~flags.started
          /\ starts' = [starts EXCEPT !.pc = "idle"] /\ UNCHANGED <<producer, flags>>
       \/ /\ flags.started
          /\ starts' = [starts EXCEPT !.pc = "worker"] /\ UNCHANGED <<producer, flags>>
    /\ UNCHANGED <<queue, offered, held, sending, pending, done, pc, joins, worker, due, expired>>

(* start_worker (an aborted worker is gone by then: what it does without   *)
(* awaiting is short).                                                     *)
StartWorker ==
    /\ starts.pc = "worker" /\ worker # "aborted"
    /\ starts' = [starts EXCEPT !.pc = "idle"]
    /\ IF worker = "none"
       THEN worker' = "on" /\ flags' = [flags EXCEPT !.stopped = FALSE]
       ELSE UNCHANGED <<worker, flags>>
    /\ UNCHANGED <<queue, offered, held, sending, pending, done, pc, joins, producer, due, expired>>

-----------------------------------------------------------------------------
(* shutdown and shutdown_gracefully *)

WaiterAt(w, from, to) == pc[w] = from /\ pc' = [pc EXCEPT ![w] = to]
Rest == <<offered, done, worker, flags, producer, starts>>

ShutdownBegin(w) ==
    /\ WaiterAt(w, "idle", IF w \in Closers THEN "first" ELSE "flush")
    /\ starts.count > 0 /\ (Early \/ (flags.started /\ starts.pc = "idle"))
    /\ due' = [due EXCEPT ![w] = ToSet(queue) \union UNION (pending \intersect sending)]
    /\ UNCHANGED <<task, joins, expired, Rest>>

(* flush: until the queue is empty.                                        *)
Flush(w) ==
    /\ pc[w] \in {"first", "flush"}
    /\ \/ queue # <<>> /\ TakeBatch(w)
       \/ Submit(w)
    /\ UNCHANGED <<pc, joins, due, expired, Rest>>

(* shutdown flushes once more after it has won the finalization.           *)
FirstFlushed(w) ==
    /\ held[w].pc = "none" /\ queue = <<>>
    /\ WaiterAt(w, "first", IF flags.finalizing THEN "over" ELSE "flush")
    /\ flags' = [flags EXCEPT !.finalizing = TRUE]
    /\ UNCHANGED <<task, joins, due, expired, offered, done, worker, producer, starts>>

(* flush_and_wait takes the table; an empty table ends it.                 *)
Flushed(w) ==
    /\ held[w].pc = "none" /\ queue = <<>>
    /\ WaiterAt(w, "flush", IF pending = {} THEN "close" ELSE "join")
    /\ joins' = [joins EXCEPT ![w] = pending]
    /\ pending' = {}
    /\ UNCHANGED <<queue, held, sending, due, expired, Rest>>

Joined(w) ==
    /\ joins[w] \intersect sending = {}
    /\ WaiterAt(w, "join", "flush")
    /\ joins' = [joins EXCEPT ![w] = {}]
    /\ UNCHANGED <<task, due, expired, Rest>>

(* wait_for_shutdown_millis                                                *)
Timeout(w) ==
    /\ WaiterAt(w, "join", "close")
    /\ expired' = expired \union {w}
    /\ joins' = [joins EXCEPT ![w] = {}]
    /\ UNCHANGED <<task, due, Rest>>

(* finalize_now; shutdown_gracefully leaves it to a shutdown that is under *)
(* way.                                                                    *)
Finalize(w) ==
    /\ WaiterAt(w, "close", "over")
    /\ IF w \in Gracefuls /\ flags.finalizing
       THEN UNCHANGED <<flags, producer, worker>>
       ELSE /\ producer' = IF flags.started THEN "closed" ELSE producer
            /\ flags' = [flags EXCEPT !.finalizing = TRUE, !.stopped = TRUE]
            /\ worker' = IF worker = "on" THEN "aborted" ELSE worker
    /\ UNCHANGED <<task, joins, due, expired, offered, done, starts>>

-----------------------------------------------------------------------------
WaiterStep(w) ==
    \/ Flush(w) \/ FirstFlushed(w) \/ Flushed(w) \/ Joined(w) \/ Timeout(w) \/ Finalize(w)
StartStep == StartProducer \/ StartWorker
WorkerStep == WorkerTake \/ WorkerSubmit \/ WorkerExit

Next ==
    \/ \E c \in Context : Append_(c)
    \/ \E b \in SUBSET Context : SendDone(b)
    \/ WorkerStep \/ StartBegin \/ StartStep
    \/ \E w \in Stopping : ShutdownBegin(w) \/ WaiterStep(w)

Spec == Init /\ [][Next]_vars
-----------------------------------------------------------------------------
(* Properties *)

Finished == done.sent \union done.cut \union done.discarded

TypeOK ==
    /\ Len(queue) <= Capacity
    /\ worker \in {"none", "on", "aborted"} /\ producer \in {"new", "open", "closed"}
    /\ pc \in [Stopping -> {"idle", "first", "flush", "join", "close", "over"}]

(* No context is lost or sent twice: each one handed over is discarded, in *)
(* the queue, in one batch, or sent.                                       *)
Accounted ==
    LET inBatches == UNION sending \union UNION {held[a].batch : a \in Flusher}
    IN  /\ offered = ToSet(queue) \union inBatches \union Finished
        /\ Finished \intersect (ToSet(queue) \union UNION sending) = {}
        /\ ToSet(queue) \intersect inBatches = {}
        /\ IsInjective(queue)

(* "exiting right after shutdown no longer loses the last trace batch":    *)
(* what a shutdown found in the queue or in flight meets an open producer, *)
(* unless the wait timed out.                                              *)
LastBatchSent ==
    \A w \in Stopping : pc[w] = "over" /\ expired = {} => due[w] \intersect done.cut = {}

(* "close the internal producer + set stopped": once every shutdown that   *)
(* began is over nothing of the dispatcher runs.                           *)
ShutDown ==
    (\E w \in Stopping : pc[w] = "over") /\ (\A w \in Stopping : pc[w] \in {"idle", "over"})
    /\ starts.pc = "idle" => producer # "open" /\ worker # "on"

(* Every context accepted is handed to a send task and done with while     *)
(* the dispatcher runs.                                                    *)
Delivered ==
    \A c \in Context : c \in ToSet(queue) /\ worker = "on" ~> c \in Finished \/ worker # "on"
=============================================================================
