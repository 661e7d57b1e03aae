----------------------------- MODULE MCConsuming ----------------------------
(***************************************************************************)
(* The consuming side of the client: the concurrent and the orderly push   *)
(* consumer, the POP consumer, the lite pull consumer, the executor of the *)
(* listeners and the pull schedule service.  They share no state, so one of *)
(* them runs in a behaviour: part says which one, and with which constants. *)
(* The others stay as they started.                                        *)
(***************************************************************************)
EXTENDS OrderlyConsume, TLC

CONSTANTS
    Parts  \* the parts that may run

VARIABLES
    part,   \* the component, or the instance of it, that runs
    \* PushConsumer
    minOff, maxOff, pushCommitted, pushState, pushStarted, token, pushPull, dispatch, sweep,
    reb, persist, pushStop, pushChurn, pushSettled,
    \* LitePull
    liteState, buffer, liteLoop, poll, ctl, com, running, tail, liteCommitted, liteSettled,
    pinned, liteUsed,
    \* PopConsumer
    broker, owner, gens, pq, popLoop, popTasks, rpcs, done,
    \* ConsumeExecutor
    core, max, queue, shutdown, wpc, signal, submitting, exTasks, resizing, spc, asignal,
    \* PullSchedule
    schStarted, schStop, consumer, balance, schTasks, retired, recTask, schLoop, rec, round,
    start, shut, schUsed

-----------------------------------------------------------------------------
(* The constants of OrderlyConsume satisfy its assumptions.                *)
ASSUME BoundAssumption /\ LifeAssumption

-----------------------------------------------------------------------------
(* Retries in place, and manual commits.                                   *)
OrderlyRetry == INSTANCE OrderlyConsume WITH Member <- {1, 2}, MaxOff <- 2, PullBatch <- 2,
    ConsumeBatch <- 1, Threshold <- 1, MaxTries <- 1, LockLife <- 1, BrokerLife <- 2,
    LockPeriod <- 1, RpcTicks <- 0, MaxChurn <- 0, AutoCommit <- {TRUE, FALSE}, Fault <- {}
ASSUME OrderlyRetry!BoundAssumption /\ OrderlyRetry!LifeAssumption
(* Lock requests that fail, and requests that take their time.             *)
OrderlyLock == INSTANCE OrderlyConsume WITH Member <- {1, 2}, MaxOff <- 1, PullBatch <- 1,
    ConsumeBatch <- 1, Threshold <- 1, MaxTries <- 0, LockLife <- 1, BrokerLife <- 2,
    LockPeriod <- 1, RpcTicks <- 0, MaxChurn <- 0, AutoCommit <- {TRUE}, Fault <- {"rpc"}
ASSUME OrderlyLock!BoundAssumption /\ OrderlyLock!LifeAssumption
OrderlyLate == INSTANCE OrderlyConsume WITH Member <- {1, 2}, MaxOff <- 1, PullBatch <- 1,
    ConsumeBatch <- 1, Threshold <- 1, MaxTries <- 0, LockLife <- 1, BrokerLife <- 3,
    LockPeriod <- 1, RpcTicks <- 1, MaxChurn <- 0, AutoCommit <- {TRUE}, Fault <- {}
ASSUME OrderlyLate!BoundAssumption /\ OrderlyLate!LifeAssumption
(* One message, a queue that moves, and an unlock that may get lost.       *)
OrderlyLive == INSTANCE OrderlyConsume WITH Member <- {1, 2}, MaxOff <- 1, PullBatch <- 1,
    ConsumeBatch <- 1, Threshold <- 1, MaxTries <- 0, LockLife <- 1, BrokerLife <- 2,
    LockPeriod <- 1, RpcTicks <- 0, MaxChurn <- 1, AutoCommit <- {TRUE}, Fault <- {"unlock"}
ASSUME OrderlyLive!BoundAssumption /\ OrderlyLive!LifeAssumption

-----------------------------------------------------------------------------
(* Two messages, one of them filtered; any call to the broker fails.       *)
Push == INSTANCE PushConsumer WITH MaxOff <- 2, Unwanted <- {0}, PullBatch <- 1,
    ConsumeBatch <- 1, Threshold <- 1, MaxChurn <- 1, Fault <- {"rpc", "back"},
    committed <- pushCommitted, state <- pushState, started <- pushStarted, pull <- pushPull,
    stop <- pushStop, churn <- pushChurn, settled <- pushSettled
ASSUME Push!BoundAssumption /\ Push!UnwantedAssumption
(* Three messages in batches of two; the queue is lost and comes back.     *)
PushMove == INSTANCE PushConsumer WITH MaxOff <- 3, Unwanted <- {}, PullBatch <- 3,
    ConsumeBatch <- 2, Threshold <- 3, MaxChurn <- 1, Fault <- {}, committed <- pushCommitted,
    state <- pushState, started <- pushStarted, pull <- pushPull, stop <- pushStop,
    churn <- pushChurn, settled <- pushSettled
ASSUME PushMove!BoundAssumption /\ PushMove!UnwantedAssumption
(* Batches of two, late listeners and a shutdown.                          *)
PushStop == INSTANCE PushConsumer WITH MaxOff <- 2, Unwanted <- {1}, PullBatch <- 2,
    ConsumeBatch <- 2, Threshold <- 1, MaxChurn <- 1, Fault <- {"stop", "sweep"},
    committed <- pushCommitted, state <- pushState, started <- pushStarted, pull <- pushPull,
    stop <- pushStop, churn <- pushChurn, settled <- pushSettled
ASSUME PushStop!BoundAssumption /\ PushStop!UnwantedAssumption
(* Late listeners and calls that fail.                                     *)
PushSweep == INSTANCE PushConsumer WITH MaxOff <- 2, Unwanted <- {}, PullBatch <- 2,
    ConsumeBatch <- 1, Threshold <- 2, MaxChurn <- 0, Fault <- {"rpc", "back", "sweep"},
    committed <- pushCommitted, state <- pushState, started <- pushStarted, pull <- pushPull,
    stop <- pushStop, churn <- pushChurn, settled <- pushSettled
ASSUME PushSweep!BoundAssumption /\ PushSweep!UnwantedAssumption
(* The broker deletes, and the process crashes.                            *)
PushRetention == INSTANCE PushConsumer WITH MaxOff <- 2, Unwanted <- {1}, PullBatch <- 2,
    ConsumeBatch <- 2, Threshold <- 1, MaxChurn <- 1, Fault <- {"retention", "crash"},
    committed <- pushCommitted, state <- pushState, started <- pushStarted, pull <- pushPull,
    stop <- pushStop, churn <- pushChurn, settled <- pushSettled
ASSUME PushRetention!BoundAssumption /\ PushRetention!UnwantedAssumption
(* One message, a reset, and a restart.                                    *)
PushRecovers == INSTANCE PushConsumer WITH MaxOff <- 1, Unwanted <- {}, PullBatch <- 2,
    ConsumeBatch <- 2, Threshold <- 1, MaxChurn <- 1, Fault <- {"reset", "stop"},
    committed <- pushCommitted, state <- pushState, started <- pushStarted, pull <- pushPull,
    stop <- pushStop, churn <- pushChurn, settled <- pushSettled
ASSUME PushRecovers!BoundAssumption /\ PushRecovers!UnwantedAssumption

-----------------------------------------------------------------------------
(* Two queues, pauses, and pulls that fail.                                *)
Lite == INSTANCE LitePull WITH Queue <- {1, 2}, MaxOff <- 2, Backlog <- 2, Filtered <- {},
    From <- "first", AssignMode <- FALSE, AutoCommit <- FALSE, PullBatch <- 1, PollBatch <- 2,
    ThresholdAll <- 1, ThresholdQueue <- 1, MaxSpan <- 0, Ops <- {"pause"}, MaxOps <- 2,
    OneThread <- FALSE, MaxChurn <- 1, MaxStarts <- 0, Fault <- {"pull"}, state <- liteState,
    loop <- liteLoop, committed <- liteCommitted, settled <- liteSettled, used <- liteUsed
ASSUME Lite!BoundAssumption
(* Seeks and commits, and a message the filter removes.                    *)
LiteSeek == INSTANCE LitePull WITH Queue <- {1}, MaxOff <- 2, Backlog <- 2, Filtered <- {1},
    From <- "first", AssignMode <- FALSE, AutoCommit <- FALSE, PullBatch <- 2, PollBatch <- 2,
    ThresholdAll <- 2, ThresholdQueue <- 2, MaxSpan <- 5, Ops <- {"seek", "commit"},
    MaxOps <- 2, OneThread <- FALSE, MaxChurn <- 1, MaxStarts <- 0, Fault <- {"pull"},
    state <- liteState, loop <- liteLoop, committed <- liteCommitted, settled <- liteSettled,
    used <- liteUsed
ASSUME LiteSeek!BoundAssumption
(* A restart, and offset requests that fail.                               *)
LiteRestart == INSTANCE LitePull WITH Queue <- {1}, MaxOff <- 2, Backlog <- 1, Filtered <- {},
    From <- "first", AssignMode <- FALSE, AutoCommit <- TRUE, PullBatch <- 1, PollBatch <- 2,
    ThresholdAll <- 1, ThresholdQueue <- 1, MaxSpan <- 5, Ops <- {"shutdown"}, MaxOps <- 1,
    OneThread <- FALSE, MaxChurn <- 2, MaxStarts <- 1, Fault <- {"persist", "query"},
    state <- liteState, loop <- liteLoop, committed <- liteCommitted, settled <- liteSettled,
    used <- liteUsed
ASSUME LiteRestart!BoundAssumption
(* Unsubscribing.                                                          *)
LiteLeave == INSTANCE LitePull WITH Queue <- {1}, MaxOff <- 2, Backlog <- 2, Filtered <- {},
    From <- "first", AssignMode <- FALSE, AutoCommit <- FALSE, PullBatch <- 2, PollBatch <- 2,
    ThresholdAll <- 1, ThresholdQueue <- 1, MaxSpan <- 5, Ops <- {"unsubscribe"}, MaxOps <- 2,
    OneThread <- FALSE, MaxChurn <- 2, MaxStarts <- 0, Fault <- {}, state <- liteState,
    loop <- liteLoop, committed <- liteCommitted, settled <- liteSettled, used <- liteUsed
ASSUME LiteLeave!BoundAssumption
(* Manual assignment.                                                      *)
LiteAssign == INSTANCE LitePull WITH Queue <- {1, 2}, MaxOff <- 2, Backlog <- 2,
    Filtered <- {}, From <- "first", AssignMode <- TRUE, AutoCommit <- FALSE, PullBatch <- 1,
    PollBatch <- 2, ThresholdAll <- 3, ThresholdQueue <- 1, MaxSpan <- 5,
    Ops <- {"assign", "seek"}, MaxOps <- 1, OneThread <- FALSE, MaxChurn <- 1, MaxStarts <- 0,
    Fault <- {}, state <- liteState, loop <- liteLoop, committed <- liteCommitted,
    settled <- liteSettled, used <- liteUsed
ASSUME LiteAssign!BoundAssumption
(* One queue that comes, goes and comes back.                              *)
LiteFollow == INSTANCE LitePull WITH Queue <- {1}, MaxOff <- 2, Backlog <- 2, Filtered <- {},
    From <- "first", AssignMode <- FALSE, AutoCommit <- TRUE, PullBatch <- 1, PollBatch <- 2,
    ThresholdAll <- 1, ThresholdQueue <- 1, MaxSpan <- 5, Ops <- {}, MaxOps <- 0,
    OneThread <- FALSE, MaxChurn <- 2, MaxStarts <- 0, Fault <- {}, state <- liteState,
    loop <- liteLoop, committed <- liteCommitted, settled <- liteSettled, used <- liteUsed
ASSUME LiteFollow!BoundAssumption

-----------------------------------------------------------------------------
(* Two messages popped up to three times, acks that fail or get lost.      *)
Pop == INSTANCE PopConsumer WITH Msg <- 1..2, Filtered <- {}, PopBatch <- 1, ConsumeBatch <- 1,
    Threshold <- 0, Budget <- 0, MaxPops <- 3, MaxChurn <- 0, Fault <- {"rpc"},
    loop <- popLoop, tasks <- popTasks
ASSUME Pop!BoundAssumption
(* The queue is taken away; a filtered message.                            *)
PopChurn == INSTANCE PopConsumer WITH Msg <- 1..2, Filtered <- {1}, PopBatch <- 2,
    ConsumeBatch <- 2, Threshold <- 0, Budget <- 0, MaxPops <- 2, MaxChurn <- 1,
    Fault <- {"rpc"}, loop <- popLoop, tasks <- popTasks
ASSUME PopChurn!BoundAssumption
(* Nothing fails, but rows are late.                                       *)
PopAll == INSTANCE PopConsumer WITH Msg <- 1..2, Filtered <- {1}, PopBatch <- 2,
    ConsumeBatch <- 1, Threshold <- 1, Budget <- 0, MaxPops <- 2, MaxChurn <- 1, Fault <- {},
    loop <- popLoop, tasks <- popTasks
ASSUME PopAll!BoundAssumption

-----------------------------------------------------------------------------
(* Two tasks and workers of a pool that is resized and shut down.          *)
Executor == INSTANCE ConsumeExecutor WITH Task <- {1, 2}, Worker <- {"w1", "w2"},
    CoreSize <- {0, 2}, MaxSize <- 1, tasks <- exTasks
ASSUME Executor!SizeAssumption /\ Executor!CoreAssumption /\ Executor!WorkerAssumption

-----------------------------------------------------------------------------
(* A queue that comes and goes, a shutdown, a round of the application.    *)
Schedule == INSTANCE PullSchedule WITH Queue <- {"q1"}, MaxLoops <- 3, MaxStarts <- 1,
    MaxShutdowns <- 1, MaxMoves <- 2, MaxUser <- 1, Fault <- {"rpc"}, Overlap <- FALSE,
    started <- schStarted, stop <- schStop, tasks <- schTasks, loop <- schLoop, used <- schUsed
ASSUME Schedule!ScheduleAssumption
(* More moves, and no shutdown.                                            *)
ScheduleMoves == INSTANCE PullSchedule WITH Queue <- {"q1"}, MaxLoops <- 3, MaxStarts <- 1,
    MaxShutdowns <- 0, MaxMoves <- 3, MaxUser <- 1, Fault <- {}, Overlap <- FALSE,
    started <- schStarted, stop <- schStop, tasks <- schTasks, loop <- schLoop, used <- schUsed
ASSUME ScheduleMoves!ScheduleAssumption

-----------------------------------------------------------------------------
pushVars == <<minOff, maxOff, pushCommitted, pushState, pushStarted, token, pushPull, dispatch,
              sweep, reb, persist, pushStop, pushChurn, pushSettled>>
liteVars == <<liteState, buffer, liteLoop, poll, ctl, com, running, tail, liteCommitted,
              liteSettled, pinned, liteUsed>>
popVars == <<broker, owner, gens, pq, popLoop, popTasks, rpcs, done>>
exVars == <<core, max, queue, shutdown, wpc, signal, submitting, exTasks, resizing, spc,
            asignal>>
schVars == <<schStarted, schStop, consumer, balance, schTasks, retired, recTask, schLoop, rec,
             round, start, shut, schUsed>>

allVars == <<part, vars, pushVars, liteVars, popVars, exVars, schVars>>

PartsInit ==
    /\ part \in Parts
    /\ CASE part = "orderly_retry" -> OrderlyRetry!Init
         [] part = "orderly_lock" -> OrderlyLock!Init
         [] part = "orderly_late" -> OrderlyLate!Init
         [] part = "orderly_live" -> OrderlyLive!Init
         [] OTHER -> Init
    /\ CASE part = "push_move" -> PushMove!Init
         [] part = "push_stop" -> PushStop!Init
         [] part = "push_sweep" -> PushSweep!Init
         [] part = "push_retention" -> PushRetention!Init
         [] part = "push_recovers" -> PushRecovers!Init
         [] OTHER -> Push!Init
    /\ CASE part = "lite_seek" -> LiteSeek!Init
         [] part = "lite_restart" -> LiteRestart!Init
         [] part = "lite_leave" -> LiteLeave!Init
         [] part = "lite_assign" -> LiteAssign!Init
         [] part = "lite_follow" -> LiteFollow!Init
         [] OTHER -> Lite!Init
    /\ CASE part = "pop_churn" -> PopChurn!Init
         [] part = "pop_all" -> PopAll!Init
         [] OTHER -> Pop!Init
    /\ Executor!Init
    /\ part \notin {"executor"} => core = 0
    /\ CASE part = "schedule_moves" -> ScheduleMoves!Init
         [] OTHER -> Schedule!Init
    /\ part \notin {"schedule", "schedule_moves"} => balance = {}

PartsNext ==
    \/ /\ \/ part = "orderly" /\ Next
          \/ part = "orderly_retry" /\ OrderlyRetry!Next
          \/ part = "orderly_lock" /\ OrderlyLock!Next
          \/ part = "orderly_late" /\ OrderlyLate!Next
          \/ part = "orderly_live" /\ OrderlyLive!Next
       /\ UNCHANGED <<part, pushVars, liteVars, popVars, exVars, schVars>>
    \/ /\ \/ part = "push" /\ Push!Next
          \/ part = "push_move" /\ PushMove!Next
          \/ part = "push_stop" /\ PushStop!Next
          \/ part = "push_sweep" /\ PushSweep!Next
          \/ part = "push_retention" /\ PushRetention!Next
          \/ part = "push_recovers" /\ PushRecovers!Next
       /\ UNCHANGED <<part, vars, liteVars, popVars, exVars, schVars>>
    \/ /\ \/ part = "lite" /\ Lite!Next
          \/ part = "lite_seek" /\ LiteSeek!Next
          \/ part = "lite_restart" /\ LiteRestart!Next
          \/ part = "lite_leave" /\ LiteLeave!Next
          \/ part = "lite_assign" /\ LiteAssign!Next
          \/ part = "lite_follow" /\ LiteFollow!Next
       /\ UNCHANGED <<part, vars, pushVars, popVars, exVars, schVars>>
    \/ /\ \/ part = "pop" /\ Pop!Next
          \/ part = "pop_churn" /\ PopChurn!Next
          \/ part = "pop_all" /\ PopAll!Next
       /\ UNCHANGED <<part, vars, pushVars, liteVars, exVars, schVars>>
    \/ /\ part = "executor" /\ Executor!Next
       /\ UNCHANGED <<part, vars, pushVars, liteVars, popVars, schVars>>
    \/ /\ \/ part = "schedule" /\ Schedule!Next
          \/ part = "schedule_moves" /\ ScheduleMoves!Next
       /\ UNCHANGED <<part, vars, pushVars, liteVars, popVars, exVars>>

PartsSpec == PartsInit /\ [][PartsNext]_allVars

(* What the scheduling of the code justifies, for the part that runs: the  *)
(* runtime polls every task that can go on, timers fire, and the broker    *)
(* answers.  Nobody owes a change of the assignment or a shutdown; the     *)
(* application that shut the push consumer down starts it again.           *)
PushFair ==
    /\ WF_pushVars(part = "push_recovers" /\ PushRecovers!Produce)
    /\ WF_pushVars(part = "push_recovers" /\ PushRecovers!Start)
    /\ WF_pushVars(part = "push_recovers"
                   /\ (PushRecovers!ShutdownItems \/ PushRecovers!ShutdownPersist))
    /\ \A t \in PushRecovers!Token :
          WF_pushVars(part = "push_recovers" /\ PushRecovers!PullStep(t))
    /\ \A r \in PushRecovers!Rebalancer :
          WF_pushVars(part = "push_recovers" /\ PushRecovers!RebalanceStep(r))
    /\ \A d \in PushRecovers!Dispatcher :
          WF_pushVars(part = "push_recovers" /\ PushRecovers!DispatchStep(d))
    /\ WF_pushVars(part = "push_recovers"
                   /\ (PushRecovers!PersistSnapshot \/ PushRecovers!PersistSent))

LiteFair ==
    /\ WF_liteVars(part = "lite_follow" /\ LiteFollow!LoopStep)
    /\ WF_liteVars(part = "lite_follow" /\ LiteFollow!PollStep)
    /\ WF_liteVars(part = "lite_follow" /\ LiteFollow!CtlStep)
    /\ WF_liteVars(part = "lite_follow" /\ LiteFollow!AutoCommitDue)
    /\ WF_liteVars(part = "lite_follow" /\ LiteFollow!Unpark(1))

PopFair ==
    /\ WF_popVars(part = "pop_all" /\ PopAll!Assign)
    /\ WF_popVars(part = "pop_all" /\ PopAll!BrokerStep)
    /\ WF_popVars(part = "pop_all" /\ \E r \in rpcs : PopAll!Rpc(r))
    /\ \A g \in PopAll!Gen : WF_popVars(part = "pop_all" /\ PopAll!LoopStep(g))
    /\ WF_popVars(part = "pop_all" /\ \E t \in popTasks : PopAll!TaskStep(t))

ScheduleFair ==
    /\ WF_schVars(part = "schedule_moves" /\ (ScheduleMoves!StartBegin \/ ScheduleMoves!StartStep))
    /\ WF_schVars(part = "schedule_moves" /\ ScheduleMoves!RoundStep(ScheduleMoves!User))
    /\ \A l \in ScheduleMoves!Id : WF_schVars(part = "schedule_moves" /\ ScheduleMoves!LoopStep(l))
    /\ \A r \in ScheduleMoves!Rec : WF_schVars(part = "schedule_moves" /\ ScheduleMoves!RecStep(r))

LiveSpec ==
    PartsSpec /\ PushFair /\ LiteFair /\ PopFair /\ ScheduleFair

(* The same of the orderly consumers, on their own for the size of it.     *)
OrderlyFair ==
    /\ WF_vars(part = "orderly_live" /\ OrderlyLive!Tick)
    /\ \A c \in {1, 2} :
          /\ WF_vars(part = "orderly_live" /\ OrderlyLive!RevokeStep(c))
          /\ WF_vars(part = "orderly_live" /\ OrderlyLive!LockStep(c))
          /\ WF_vars(part = "orderly_live" /\ OrderlyLive!PullStep(c))
          /\ WF_vars(part = "orderly_live" /\ OrderlyLive!WorkStep(c))
          /\ WF_vars(part = "orderly_live" /\ OrderlyLive!Persist(c))

OrderlyLiveSpec == PartsSpec /\ OrderlyFair

-----------------------------------------------------------------------------
(* Every component's state has its type.                                   *)
TypesOK ==
    /\ CASE part = "orderly_retry" -> OrderlyRetry!TypeOK
         [] part = "orderly_lock" -> OrderlyLock!TypeOK
         [] part = "orderly_late" -> OrderlyLate!TypeOK
         [] part = "orderly_live" -> OrderlyLive!TypeOK
         [] OTHER -> TypeOK
    /\ CASE part = "push_move" -> PushMove!TypeOK
         [] part = "push_stop" -> PushStop!TypeOK
         [] part = "push_sweep" -> PushSweep!TypeOK
         [] part = "push_retention" -> PushRetention!TypeOK
         [] part = "push_recovers" -> PushRecovers!TypeOK
         [] OTHER -> Push!TypeOK
    /\ CASE part = "lite_seek" -> LiteSeek!TypeOK
         [] part = "lite_restart" -> LiteRestart!TypeOK
         [] part = "lite_leave" -> LiteLeave!TypeOK
         [] part = "lite_assign" -> LiteAssign!TypeOK
         [] part = "lite_follow" -> LiteFollow!TypeOK
         [] OTHER -> Lite!TypeOK
    /\ CASE part = "pop_churn" -> PopChurn!TypeOK
         [] part = "pop_all" -> PopAll!TypeOK
         [] OTHER -> Pop!TypeOK
    /\ Executor!TypeOK
    /\ IF part = "schedule_moves" THEN ScheduleMoves!TypeOK ELSE Schedule!TypeOK

(* The promise of AtLeastOnce (PushConsumer): no save of the offset, by    *)
(* the timer, a revocation, an offset correction or shutdown, passes a     *)
(* message the listener did not accept and that did not go back.  The      *)
(* instances leave out what breaks it: a reset, and a refused batch of     *)
(* several messages that cannot go back while the queue is rebuilt.        *)
PushKeeps == PushMove!PushKeeps

(* While no member gives the queue up, a fresh grant means the broker's    *)
(* lock, though requests fail or take their time (OrderlyConsume).         *)
LockKept ==
    /\ part = "orderly" => GrantHeld
    /\ part = "orderly_lock" => OrderlyLock!GrantHeld
    /\ part = "orderly_late" => OrderlyLate!GrantHeld

(* The promise of AtLeastOnce of every queue of a lite pull consumer, over *)
(* polls, commits, seeks, rebalances and restarts (LitePull).              *)
LiteKeeps ==
    [][/\ part = "lite_seek" => LiteSeek!PromiseStep
       /\ part = "lite_restart" => LiteRestart!PromiseStep]_allVars

(* The counters that hold a pull back are exact.  The accumulators of the  *)
(* lite buffer are what the flow-control gates take them for and the gates *)
(* hold; a seek is where the next pull starts; only held queues are        *)
(* cached; and no poll sleeps beside a message (LitePull).  The POP debt   *)
(* counter is the number of rows the executor still owes, it bounds what   *)
(* is with listeners, and the broker forgets a message only when it is     *)
(* done with (PopConsumer).                                                *)
CountersExact ==
    /\ part = "lite" => Lite!CacheExact /\ Lite!CacheBounded /\ Lite!WaiterWoken
    /\ part = "lite_seek" => LiteSeek!CacheExact /\ LiteSeek!CursorSafe /\ LiteSeek!SeekPinned
    /\ part = "lite_restart" => LiteRestart!OnlyHeld
    /\ part = "lite_leave" => LiteLeave!CacheExact /\ LiteLeave!CacheBounded
    /\ part = "lite_assign" => LiteAssign!CacheExact /\ LiteAssign!CacheBounded
    /\ part = "pop" => Pop!DebtExact /\ Pop!DebtBounded /\ Pop!GoneIsDone
    /\ part = "pop_churn" => PopChurn!DebtExact /\ PopChurn!GoneIsDone

(* A queued task has a worker that will look at the queue or someone about *)
(* to wake or start one, and shutdown_gracefully returns only when every   *)
(* accepted task has run (ConsumeExecutor); a queue never has two tasks    *)
(* that were not told to end, and no round outlives a shutdown             *)
(* (PullSchedule).                                                         *)
QueueAttended ==
    /\ Executor!QueueAttended /\ Executor!DrainedAtReturn
    /\ part = "schedule" => Schedule!OneTask /\ Schedule!Drained

(* After any reset, revocation, restart or dead pull loop the queue ends   *)
(* up with an owner whose loop runs (PushConsumer).                        *)
Recovers == part = "push_recovers" => PushRecovers!Recovers

(* Once the group agrees on who has the queue, that member gets the lock   *)
(* from whoever had it, settles every message and saves the end of the     *)
(* queue (OrderlyConsume).                                                 *)
OrderlyCatchesUp == part = "orderly_live" => OrderlyLive!CatchesUp

(* No popped message is left lying (PopConsumer), and a queue that stays   *)
(* held is handed out and saved to its end (LitePull).                     *)
NoneForgotten ==
    /\ part = "pop_all" => PopAll!NoneForgotten
    /\ part = "lite_follow" => LiteFollow!CatchesUp

(* The live tasks of the schedule service become those of the assigned     *)
(* queues (PullSchedule).                                                  *)
FollowsBalance == part = "schedule_moves" => ScheduleMoves!FollowsBalance
=============================================================================
