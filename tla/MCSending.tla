------------------------------ MODULE MCSending -----------------------------
(***************************************************************************)
(* The sending side of the client: the back-pressure semaphore, asynchronous *)
(* sends, the retrying send, the batching accumulator, request-reply,      *)
(* transactions and message traces.  They meet only in calls whose outcomes *)
(* they leave open, so one of them runs in a behaviour: part says which one, *)
(* and with which constants.  The others stay as they started.             *)
(***************************************************************************)
EXTENDS FairSemaphore, TLC

CONSTANTS
    Parts       \* the parts that may run

VARIABLES
    part,   \* the component, or the instance of it, that runs
    \* AsyncSend
    asyncStarted, exec, chan, hand, busy, asyncPc, tries, asyncTotal, num, numQ, size, sizeQ,
    calls,
    \* SendRetry
    send, queues, fault, probe,
    \* ProduceAccumulator
    accHeld, accTable, batch, accPc, at, answer, fired, accStored, gpc, gat, running,
    \* RequestReply
    caller, future, reqTable, told, reqExpired, reqStored, reply, scan, reqStarted,
    \* Transaction
    tx, state, local, half, net, lost, listener, processor, txStarted, restarts, checks,
    \* TraceDispatcher
    traceQueue, offered, traceHeld, sending, pending, done, tracePc, joins, worker, flags,
    producer, starts, due, traceExpired

(* FairSemaphore: the largest capacity has room for both and the smallest  *)
(* not for 1; or 1 asks for all of the larger one.                         *)
FittingNeed == <<2, 1>>
GreedyNeed == <<3, 1>>

Outcomes == {"ok", "notStored", "retryable", "fatal", "remoting", "client", "other"}

-----------------------------------------------------------------------------
(* Three sends, the last one larger than the byte gate.                    *)
AsyncMany == INSTANCE AsyncSend WITH Send <- 1..3, Batch <- {2}, Size <- <<1, 2, 3>>,
    QueueCap <- 1, Workers <- 1, NumTotal <- {1, 2}, SizeTotal <- 2, Retries <- 1,
    Backpressure <- TRUE, MaxStarts <- 2, started <- asyncStarted, pc <- asyncPc,
    total <- asyncTotal
ASSUME AsyncMany!SendAssumption /\ AsyncMany!BoundAssumption
(* Two sends and one number permit.                                        *)
AsyncOne == INSTANCE AsyncSend WITH Send <- 1..2, Batch <- {2}, Size <- <<1, 3>>,
    QueueCap <- 1, Workers <- 1, NumTotal <- {1}, SizeTotal <- 2, Retries <- 1,
    Backpressure <- TRUE, MaxStarts <- 2, started <- asyncStarted, pc <- asyncPc,
    total <- asyncTotal
ASSUME AsyncOne!SendAssumption /\ AsyncOne!BoundAssumption
(* Without back pressure.                                                  *)
AsyncOpen == INSTANCE AsyncSend WITH Send <- 1..3, Batch <- {2}, Size <- <<1, 2, 3>>,
    QueueCap <- 1, Workers <- 1, NumTotal <- {1}, SizeTotal <- 2, Retries <- 1,
    Backpressure <- FALSE, MaxStarts <- 2, started <- asyncStarted, pc <- asyncPc,
    total <- asyncTotal
ASSUME AsyncOpen!SendAssumption /\ AsyncOpen!BoundAssumption

-----------------------------------------------------------------------------
(* Two calls, and two brokers with one queue each or two and one.          *)
Retry == INSTANCE SendRetry WITH Call <- {1, 2}, Broker <- {"b1", "b2"},
    Lists <- {<<"b1", "b2">>, <<"b1", "b1", "b2">>}, Cycle <- 6, Times <- 2, Budget <- 2,
    MaxPerRequest <- -1, MaxLookup <- 0, TickMillis <- 600, Latency <- FALSE, Detects <- FALSE,
    SwitchBroker <- TRUE, Outcomes <- Outcomes \ {"other"}, Down <- {}, MaxRoutes <- 1,
    NoBroker <- "none"
ASSUME Retry!SendAssumption
(* One call with the fault table and the detector.                         *)
RetryLatency == INSTANCE SendRetry WITH Call <- {1}, Broker <- {"b1", "b2"},
    Lists <- {<<"b1", "b2">>, <<"b1", "b1", "b2">>}, Cycle <- 6, Times <- 2, Budget <- 2,
    MaxPerRequest <- 1, MaxLookup <- 1, TickMillis <- 600, Latency <- TRUE, Detects <- TRUE,
    SwitchBroker <- TRUE, Outcomes <- Outcomes \ {"other"}, Down <- {}, MaxRoutes <- 1,
    NoBroker <- "none"
ASSUME RetryLatency!SendAssumption
(* One call while the route shrinks and empties.                           *)
RetryRoutes == INSTANCE SendRetry WITH Call <- {1}, Broker <- {"b1", "b2"},
    Lists <- {<<"b1", "b2">>, <<"b2">>, <<>>}, Cycle <- 6, Times <- 2, Budget <- 1,
    MaxPerRequest <- -1, MaxLookup <- 0, TickMillis <- 600, Latency <- TRUE, Detects <- FALSE,
    SwitchBroker <- TRUE, Down <- {}, MaxRoutes <- 1, NoBroker <- "none"
ASSUME RetryRoutes!SendAssumption

-----------------------------------------------------------------------------
(* Two messages of one key, which fill a batch.                            *)
BatchSync == INSTANCE ProduceAccumulator WITH SyncMsg <- {1, 2}, AsyncMsg <- {}, Direct <- {},
    HoldSize <- 1, TotalHold <- 2, MaxBatch <- 3, held <- accHeld, table <- accTable,
    pc <- accPc, stored <- accStored
ASSUME BatchSync!SizeAssumption /\ BatchSync!MsgAssumption /\ BatchSync!NoneAssumption
(* A third one is refused by can_batch.                                    *)
BatchAsync == INSTANCE ProduceAccumulator WITH SyncMsg <- {}, AsyncMsg <- 1..3, Direct <- {3},
    HoldSize <- 1, TotalHold <- 2, MaxBatch <- 2, held <- accHeld, table <- accTable,
    pc <- accPc, stored <- accStored
ASSUME BatchAsync!SizeAssumption /\ BatchAsync!MsgAssumption /\ BatchAsync!NoneAssumption

-----------------------------------------------------------------------------
(* A request of each kind and two producers.                               *)
Request == INSTANCE RequestReply WITH Sync <- {"s"}, Async <- {"a"}, Producer <- {"p1", "p2"},
    Stays <- {"p1"}, MaxReplies <- 2, table <- reqTable, expired <- reqExpired,
    stored <- reqStored, started <- reqStarted
ASSUME Request!RequestAssumption
(* One reply.                                                              *)
RequestOne == INSTANCE RequestReply WITH Sync <- {"s"}, Async <- {"a"},
    Producer <- {"p1", "p2"}, Stays <- {"p1"}, MaxReplies <- 1, table <- reqTable,
    expired <- reqExpired, stored <- reqStored, started <- reqStarted
ASSUME RequestOne!RequestAssumption

-----------------------------------------------------------------------------
(* Two messages of one producer.                                           *)
Tx == INSTANCE Transaction WITH Msg <- {1, 2}, Producer <- {"p1"}, Owner <- <<"p1", "p1">>,
    Listener <- <<"l1", "l1">>, MaxLoss <- 1, MaxRestarts <- 0, None <- "none",
    started <- txStarted
ASSUME Tx!TransactionAssumption
(* Of two producers, with listeners of their own.                          *)
TxGroups == INSTANCE Transaction WITH Msg <- {1, 2}, Producer <- {"p1", "p2"},
    Owner <- <<"p1", "p2">>, Listener <- <<"l1", "l2">>, MaxLoss <- 0, MaxRestarts <- 0,
    None <- "none", started <- txStarted
ASSUME TxGroups!TransactionAssumption
(* One message.                                                            *)
TxSingle == INSTANCE Transaction WITH Msg <- {1}, Producer <- {"p1"}, Owner <- <<"p1">>,
    Listener <- <<"l1">>, MaxLoss <- 1, MaxRestarts <- 1, None <- "none", started <- txStarted
ASSUME TxSingle!TransactionAssumption

-----------------------------------------------------------------------------
(* Three contexts, a queue of two, and a shutdown.                         *)
Trace == INSTANCE TraceDispatcher WITH Context <- 1..3, BatchNum <- 4, Capacity <- 2,
    Closers <- {"s"}, Gracefuls <- {}, Ticks <- FALSE, Early <- FALSE, MaxStarts <- 1,
    Worker <- "w", queue <- traceQueue, held <- traceHeld, pc <- tracePc,
    expired <- traceExpired
ASSUME Trace!TraceAssumption
(* Two ways to shut down beside the worker.                                *)
TraceWorker == INSTANCE TraceDispatcher WITH Context <- 1..2, BatchNum <- 1, Capacity <- 2,
    Closers <- {"s"}, Gracefuls <- {"g"}, Ticks <- TRUE, Early <- FALSE, MaxStarts <- 1,
    Worker <- "w", queue <- traceQueue, held <- traceHeld, pc <- tracePc,
    expired <- traceExpired
ASSUME TraceWorker!TraceAssumption
(* Two contexts, and two starts.                                           *)
TraceRestart == INSTANCE TraceDispatcher WITH Context <- 1..2, BatchNum <- 2, Capacity <- 1,
    Closers <- {"s"}, Gracefuls <- {}, Ticks <- TRUE, Early <- FALSE, MaxStarts <- 2,
    Worker <- "w", queue <- traceQueue, held <- traceHeld, pc <- tracePc,
    expired <- traceExpired
ASSUME TraceRestart!TraceAssumption

-----------------------------------------------------------------------------
asyncVars == <<asyncStarted, exec, chan, hand, busy, asyncPc, tries, asyncTotal, num, numQ,
               size, sizeQ, calls>>
retryVars == <<send, queues, fault, probe>>
accVars == <<accHeld, accTable, batch, accPc, at, answer, fired, accStored, gpc, gat, running>>
reqVars == <<caller, future, reqTable, told, reqExpired, reqStored, reply, scan, reqStarted>>
txVars == <<tx, state, local, half, net, lost, listener, processor, txStarted, restarts, checks>>
traceVars == <<traceQueue, offered, traceHeld, sending, pending, done, tracePc, joins, worker,
               flags, producer, starts, due, traceExpired>>

allVars == <<part, vars, asyncVars, retryVars, accVars, reqVars, txVars, traceVars>>

PartsInit ==
    /\ part \in Parts
    /\ Init /\ (part # "semaphore" => total = 2)
    /\ CASE part = "async_one" -> AsyncOne!Init
         [] part = "async_open" -> AsyncOpen!Init
         [] OTHER -> AsyncMany!Init
    /\ part \notin {"async", "async_one", "async_open"} => asyncTotal = 1
    /\ CASE part = "retry_latency" -> RetryLatency!Init
         [] part = "retry_routes" -> RetryRoutes!Init
         [] OTHER -> Retry!Init
    /\ part \notin {"retry", "retry_latency", "retry_routes"} => queues.list = <<"b1", "b2">>
    /\ CASE part = "batch_async" -> BatchAsync!Init
         [] OTHER -> BatchSync!Init
    /\ CASE part = "request_reply" -> RequestOne!Init
         [] OTHER -> Request!Init
    /\ CASE part = "tx_groups" -> TxGroups!Init
         [] part = "tx_single" -> TxSingle!Init
         [] OTHER -> Tx!Init
    /\ CASE part = "trace_worker" -> TraceWorker!Init
         [] part = "trace_restart" -> TraceRestart!Init
         [] OTHER -> Trace!Init

PartsNext ==
    \/ /\ part = "semaphore" /\ Next
       /\ UNCHANGED <<part, asyncVars, retryVars, accVars, reqVars, txVars, traceVars>>
    \/ /\ \/ part = "async" /\ AsyncMany!Next
          \/ part = "async_one" /\ AsyncOne!Next
          \/ part = "async_open" /\ AsyncOpen!Next
       /\ UNCHANGED <<part, vars, retryVars, accVars, reqVars, txVars, traceVars>>
    \/ /\ \/ part = "retry" /\ Retry!Next
          \/ part = "retry_latency" /\ RetryLatency!Next
          \/ part = "retry_routes" /\ RetryRoutes!Next
       /\ UNCHANGED <<part, vars, asyncVars, accVars, reqVars, txVars, traceVars>>
    \/ /\ \/ part = "batch_sync" /\ BatchSync!Next
          \/ part = "batch_async" /\ BatchAsync!Next
       /\ UNCHANGED <<part, vars, asyncVars, retryVars, reqVars, txVars, traceVars>>
    \/ /\ \/ part = "request" /\ Request!Next
          \/ part = "request_reply" /\ RequestOne!Next
       /\ UNCHANGED <<part, vars, asyncVars, retryVars, accVars, txVars, traceVars>>
    \/ /\ \/ part = "tx" /\ Tx!Next
          \/ part = "tx_groups" /\ TxGroups!Next
          \/ part = "tx_single" /\ TxSingle!Next
       /\ UNCHANGED <<part, vars, asyncVars, retryVars, accVars, reqVars, traceVars>>
    \/ /\ \/ part = "trace" /\ Trace!Next
          \/ part = "trace_worker" /\ TraceWorker!Next
          \/ part = "trace_restart" /\ TraceRestart!Next
       /\ UNCHANGED <<part, vars, asyncVars, retryVars, accVars, reqVars, txVars>>

PartsSpec == PartsInit /\ [][PartsNext]_allVars

(* What the scheduling of the code justifies, for the part that runs.  The *)
(* runtime polls every task that can go on and a request is answered or    *)
(* times out.  The semaphore's deadline is relied on for greedy tasks      *)
(* only.  A check-back answered over and over gets through, and the broker *)
(* asks again.  A responder owes no reply.                                 *)
SemaphoreFair ==
    /\ \A w \in Waiter : WF_vars(part = "semaphore" /\ Step(w))
    /\ WF_vars(part = "semaphore" /\ NotifyResized)
    /\ \A w \in Greedy : WF_vars(part = "semaphore" /\ Expire(w))

AsyncFair ==
    /\ \A s \in 1..2 : WF_asyncVars(part = "async_one" /\ AsyncOne!SendStep(s))
    /\ \A e \in 1..2 : WF_asyncVars(part = "async_one" /\ AsyncOne!PoolStep(e))

RetryFair ==
    WF_retryVars(part = "retry_routes" /\ RetryRoutes!CallStep(1))

RequestFair ==
    /\ \A r \in {"s", "a"} :
          /\ WF_reqVars(part = "request_reply" /\ RequestOne!CallerStep(r))
          /\ WF_reqVars(part = "request_reply" /\ RequestOne!ReplyPut(r))
          /\ WF_reqVars(part = "request_reply" /\ RequestOne!ReplyCall(r))
          /\ WF_reqVars(part = "request_reply" /\ RequestOne!Expire(r))
          /\ WF_reqVars(part = "request_reply" /\ RequestOne!ScanCall(r))
    /\ WF_reqVars(part = "request_reply" /\ RequestOne!ScanRemove)
    /\ WF_reqVars(part = "request_reply" /\ RequestOne!StartProducer("p1"))

TxFair ==
    /\ WF_txVars(part = "tx_single" /\ TxSingle!CallStep(1))
    /\ WF_txVars(part = "tx_single" /\ TxSingle!CheckArrives(1))
    /\ WF_txVars(part = "tx_single" /\ TxSingle!Start("p1"))
    /\ WF_txVars(part = "tx_single" /\ \E c \in TxSingle!AllChecks : TxSingle!CheckRun(c))
    /\ SF_txVars(part = "tx_single" /\ \E c \in TxSingle!AllChecks : TxSingle!CheckAnswered(c))
    /\ \A e \in TxSingle!AllEnds : WF_txVars(part = "tx_single" /\ TxSingle!Resolve(e))

TraceFair ==
    /\ WF_traceVars(part = "trace_restart" /\ TraceRestart!WorkerStep)
    /\ WF_traceVars(part = "trace_restart" /\ TraceRestart!WaiterStep("s"))
    /\ \A c \in SUBSET (1..2) : WF_traceVars(part = "trace_restart" /\ TraceRestart!SendDone(c))

LiveSpec ==
    PartsSpec /\ SemaphoreFair /\ AsyncFair /\ RetryFair /\ RequestFair /\ TxFair /\ TraceFair

-----------------------------------------------------------------------------
(* Every component's state has its type.                                   *)
TypesOK ==
    /\ TypeOK /\ (IF part = "request_reply" THEN RequestOne!TypeOK ELSE Request!TypeOK)
    /\ CASE part = "async_one" -> AsyncOne!TypeOK
         [] part = "async_open" -> AsyncOpen!TypeOK
         [] OTHER -> AsyncMany!TypeOK
    /\ CASE part = "retry_latency" -> RetryLatency!TypeOK
         [] part = "retry_routes" -> RetryRoutes!TypeOK
         [] OTHER -> Retry!TypeOK
    /\ IF part = "batch_async" THEN BatchAsync!TypeOK ELSE BatchSync!TypeOK
    /\ CASE part = "tx_groups" -> TxGroups!TypeOK
         [] part = "tx_single" -> TxSingle!TypeOK
         [] OTHER -> Tx!TypeOK
    /\ CASE part = "trace_worker" -> TraceWorker!TypeOK
         [] part = "trace_restart" -> TraceRestart!TypeOK
         [] OTHER -> Trace!TypeOK

(* Permits are neither lost nor made up.  In FairSemaphore free and held   *)
(* permits add up to the capacity and only live tasks have tickets; in     *)
(* AsyncSend a permit stays with a send only while its request needs it,   *)
(* and no more requests or bytes are in flight than the gates allow; the   *)
(* accumulator's quota covers what waits or is being sent.                 *)
PermitsKept ==
    /\ part = "semaphore" => PermitsConserved /\ TicketsLive
    /\ part = "async" => AsyncMany!PermitsBack /\ AsyncMany!InFlightBounded
    /\ part = "batch_async" => BatchAsync!QuotaCovers

(* A caller is told once, and what it is told is true of its message: the  *)
(* callback of an asynchronous send fires once after any retries; a batch  *)
(* that caller and guard both find ready answers each message once, with   *)
(* the result of the batch it was in, and an open batch stays where the    *)
(* guard finds it; a request hears of success only with a reply and of a   *)
(* timeout only without one.                                               *)
ToldOnce ==
    /\ part = "async" => AsyncMany!OneCallback
    /\ part = "async_open" => AsyncOpen!OneCallback
    /\ part = "batch_sync" => BatchSync!ResultIsOwn /\ BatchSync!OpenBatchInTable
    /\ part = "batch_async" => BatchAsync!AnsweredOnce /\ BatchAsync!OpenBatchInTable
    /\ part = "request" => Request!AnswerAgrees /\ Request!ReplyWakes

(* A retry goes to another broker than the one that just failed whenever   *)
(* the lists have one, though calls share the cursor (SendRetry).          *)
RetryElsewhere == [][part = "retry" => Retry!GoesElsewhere]_allVars

(* A call that was told of a store does not report a failure, and the time *)
(* it waits for brokers stays within its timeout (SendRetry).              *)
StoredTold ==
    [][/\ part = "retry" => Retry!ReportsStore /\ Retry!WithinBudget'
       /\ part = "retry_latency" => RetryLatency!ReportsStore /\ RetryLatency!WithinBudget']_allVars

(* The broker delivers a message only if its local transaction committed   *)
(* and drops it only if it never will (Transaction).                       *)
Atomic ==
    /\ part = "tx" => Tx!Atomic
    /\ part = "tx_groups" => TxGroups!Atomic
    /\ part = "tx_single" => TxSingle!Atomic

(* Every trace context handed over is discarded, queued, in one batch or   *)
(* sent; what a shutdown found meets an open producer; and a shutdown      *)
(* leaves nothing running (TraceDispatcher).                               *)
TraceKept ==
    /\ part = "trace" => Trace!Accounted /\ Trace!LastBatchSent /\ Trace!ShutDown
    /\ part = "trace_worker" => TraceWorker!Accounted /\ TraceWorker!ShutDown

(* Every call ends: an asynchronous send with a rejection or its callback, *)
(* through shutdown and restart and behind sends too large for the gate; a *)
(* send that retries; and a request whose reply never comes.               *)
CallsEnd ==
    /\ part = "async_one" => AsyncOne!EverySendEnds
    /\ part = "retry_routes" => RetryRoutes!CallReturns
    /\ part = "request_reply" => RequestOne!EveryRequestEnds

(* A transaction that was decided is resolved at the broker (Transaction). *)
Resolved == part = "tx_single" => TxSingle!Resolved

(* Every trace context accepted is sent while the dispatcher runs          *)
(* (TraceDispatcher).                                                      *)
Delivered == part = "trace_restart" => TraceRestart!Delivered
=============================================================================
