-------------------------- MODULE ConsumeExecutor --------------------------
(***************************************************************************)
(* The pool that runs consume callbacks (client/consume_executor.rs): an   *)
(* unbounded task queue, a core size that changes at run time, workers     *)
(* that retire after an idle timeout, and a shutdown that drains.          *)
(*                                                                         *)
(* One step is one critical section of State, one notify_waiters or one    *)
(* await point.  Starting the planned workers and the notification that    *)
(* follows are one step: a worker that starts only looks at the queue.     *)
(***************************************************************************)
EXTENDS Integers, Sequences, FiniteSets, FiniteSetsExt

CONSTANTS
    Task,      \* the tasks given to submit, each once
    Worker,    \* names for worker tasks, reused after retirement
    CoreSize,  \* values given to set_core_pool_size
    MaxSize    \* maximum_pool_size at construction

SizeAssumption == CoreSize \subseteq Nat /\ MaxSize \in Nat
CoreAssumption == CoreSize # {}
WorkerAssumption ==
    IsFiniteSet(Worker) /\ Worker \cap {"new", "queued", "done", "rejected"} = {}

VARIABLES
    core, max, queue, shutdown,   \* State
    wpc,        \* progress of every worker; State.workers counts the live ones
    signal,     \* workers whose Notified on work_available has completed
    submitting, \* tasks pushed by a submit that has still to spawn and notify
    tasks,      \* what has become of each task
    resizing,   \* set_core_pool_size has still to spawn and notify
    spc,        \* progress of shutdown_gracefully
    asignal     \* its Notified on retired has completed

vars == <<core, max, queue, shutdown, wpc, signal, submitting, tasks, resizing,
          spc, asignal>>

Stage == {"none", "planned", "top", "look", "sleep", "idle", "run", "last"}

(* A worker that retires last still has retired.notify_waiters to call.    *)
Alive == {w \in Worker : wpc[w] \notin {"none", "last"}}
Workers == Cardinality(Alive)

Init ==
    /\ core \in CoreSize
    /\ max = Max({core, MaxSize})
    /\ queue = <<>> /\ shutdown = FALSE
    /\ wpc = [w \in Worker |-> "none"]
    /\ signal = {} /\ submitting = {}
    /\ tasks = [t \in Task |-> "new"]
    /\ resizing = FALSE
    /\ spc = "up" /\ asignal = FALSE

(* plan_spawn_locked, for k workers at once.                               *)
Plan(k) ==
    \E S \in SUBSET {w \in Worker : wpc[w] = "none"} :
        /\ Cardinality(S) = k
        /\ wpc' = [w \in Worker |-> IF w \in S THEN "planned" ELSE wpc[w]]

Goto(w, stage) == wpc' = [wpc EXCEPT ![w] = stage]

(* spawn_worker for the planned ones, then work_available.notify_waiters.  *)
SpawnAndNotify ==
    /\ wpc' = [w \in Worker |-> IF wpc[w] = "planned" THEN "top" ELSE wpc[w]]
    /\ signal' = signal \cup {w \in Worker : wpc[w] \in {"look", "sleep"}}

-----------------------------------------------------------------------------
(* submit, set_core_pool_size *)

SubmitRejected(t) ==
    /\ tasks[t] = "new" /\ shutdown
    /\ tasks' = [tasks EXCEPT ![t] = "rejected"]
    /\ UNCHANGED <<core, max, queue, shutdown, wpc, signal, submitting, resizing,
                   spc, asignal>>

SpawnDue == Workers < core \/ Workers = 0

Submit(t) ==
    /\ tasks[t] = "new" /\ ~shutdown
    /\ tasks' = [tasks EXCEPT ![t] = "queued"]
    /\ queue' = Append(queue, t)
    /\ Plan(IF SpawnDue THEN 1 ELSE 0)
    /\ submitting' = submitting \cup {t}
    /\ UNCHANGED <<core, max, shutdown, signal, resizing, spc, asignal>>

SubmitEnds(t) ==
    /\ t \in submitting
    /\ submitting' = submitting \ {t}
    /\ SpawnAndNotify
    /\ UNCHANGED <<core, max, queue, shutdown, tasks, resizing, spc, asignal>>

TopUp(n) ==
    IF n > core /\ ~shutdown
      THEN Max({0, Min({n - core, Len(queue), Max({max, n}) - Workers})})
      ELSE 0

SetCorePoolSize(n) ==
    /\ ~resizing /\ n # core
    /\ Plan(TopUp(n))
    /\ core' = n
    /\ max' = Max({max, n})
    /\ resizing' = TRUE
    /\ UNCHANGED <<queue, shutdown, signal, submitting, tasks, spc, asignal>>

SetCorePoolSizeEnds ==
    /\ resizing
    /\ resizing' = FALSE
    /\ SpawnAndNotify
    /\ UNCHANGED <<core, max, queue, shutdown, submitting, tasks, spc, asignal>>

-----------------------------------------------------------------------------
(* take_task, run_task *)

(* A worker leaves; the last one has to notify await_termination.          *)
Retire(w) == Goto(w, IF Alive = {w} THEN "last" ELSE "none")

Enroll(w) ==
    /\ wpc[w] = "top"
    /\ signal' = signal \ {w}
    /\ Goto(w, "look")
    /\ UNCHANGED <<core, max, queue, shutdown, submitting, tasks, resizing, spc, asignal>>

ExitDue == shutdown /\ queue = <<>>

Look(w) ==
    /\ wpc[w] = "look"
    /\ \/ ExitDue /\ Retire(w) /\ UNCHANGED <<queue, tasks>>
       \/ /\ ~ExitDue /\ queue # <<>>
          /\ queue' = Tail(queue)
          /\ tasks' = [tasks EXCEPT ![Head(queue)] = w]
          /\ Goto(w, "run")
       \/ ~ExitDue /\ queue = <<>> /\ Goto(w, "sleep") /\ UNCHANGED <<queue, tasks>>
    /\ UNCHANGED <<core, max, shutdown, signal, submitting, resizing, spc, asignal>>

Wake(w) ==
    /\ wpc[w] = "sleep" /\ w \in signal
    /\ Goto(w, "top")
    /\ UNCHANGED <<core, max, queue, shutdown, signal, submitting, tasks, resizing,
                   spc, asignal>>

KeepAliveEnds(w) ==
    /\ wpc[w] = "sleep" /\ w \notin signal
    /\ Goto(w, "idle")
    /\ UNCHANGED <<core, max, queue, shutdown, signal, submitting, tasks, resizing,
                   spc, asignal>>

(* Faulty: an idle worker goes without a second look at the queue.         *)
OverCoreUnchecked == ~shutdown /\ Workers > core
OverCore == queue = <<>> /\ ~shutdown /\ Workers > core

IdleCheck(w) ==
    /\ wpc[w] = "idle"
    /\ IF OverCore THEN Retire(w) ELSE Goto(w, "top")
    /\ UNCHANGED <<core, max, queue, shutdown, signal, submitting, tasks, resizing,
                   spc, asignal>>

(* The task ends or panics; either way the worker lives on.                *)
TaskEnds(w) ==
    /\ wpc[w] = "run"
    /\ tasks' = [t \in Task |-> IF tasks[t] = w THEN "done" ELSE tasks[t]]
    /\ Goto(w, "top")
    /\ UNCHANGED <<core, max, queue, shutdown, signal, submitting, resizing, spc, asignal>>

(* retired.notify_waiters                                                  *)
LastOut(w) ==
    /\ wpc[w] = "last"
    /\ Goto(w, "none")
    /\ asignal' = (asignal \/ spc \in {"look", "sleep"})
    /\ UNCHANGED <<core, max, queue, shutdown, signal, submitting, tasks, resizing, spc>>

-----------------------------------------------------------------------------
(* shutdown_gracefully: shutdown, then await_termination *)

Shutdown ==
    /\ spc = "up"
    /\ shutdown' = TRUE
    /\ spc' = "closed"
    /\ UNCHANGED <<core, max, queue, wpc, signal, submitting, tasks, resizing, asignal>>

ShutdownNotify ==
    /\ spc = "closed"
    /\ signal' = signal \cup {w \in Worker : wpc[w] \in {"look", "sleep"}}
    /\ spc' = "top"
    /\ UNCHANGED <<core, max, queue, shutdown, wpc, submitting, tasks, resizing, asignal>>

AwaitEnroll ==
    /\ spc = "top"
    /\ asignal' = FALSE
    /\ spc' = "look"
    /\ UNCHANGED <<core, max, queue, shutdown, wpc, signal, submitting, tasks, resizing>>

AwaitLook ==
    /\ spc = "look"
    /\ spc' = IF Workers = 0 THEN "returned" ELSE "sleep"
    /\ UNCHANGED <<core, max, queue, shutdown, wpc, signal, submitting, tasks, resizing,
                   asignal>>

AwaitWake ==
    /\ spc = "sleep" /\ asignal
    /\ spc' = "top"
    /\ UNCHANGED <<core, max, queue, shutdown, wpc, signal, submitting, tasks, resizing,
                   asignal>>

WorkerStep(w) ==
    Enroll(w) \/ Look(w) \/ Wake(w) \/ IdleCheck(w) \/ TaskEnds(w) \/ LastOut(w)

AwaitStep == ShutdownNotify \/ AwaitEnroll \/ AwaitLook \/ AwaitWake

Next ==
    \/ \E t \in Task : Submit(t) \/ SubmitRejected(t) \/ SubmitEnds(t)
    \/ \E n \in CoreSize : SetCorePoolSize(n)
    \/ SetCorePoolSizeEnds
    \/ \E w \in Worker : WorkerStep(w) \/ KeepAliveEnds(w)
    \/ Shutdown \/ AwaitStep

Spec == Init /\ [][Next]_vars

-----------------------------------------------------------------------------
(* Properties *)

(* The pool's counters, and no more workers than max_pool_size allows: the *)
(* one worker a pool of core size 0 needs is the only exception.           *)
TypeOK ==
    /\ core \in CoreSize /\ max \in Nat /\ core =< max
    /\ queue \in Seq(Task)
    /\ wpc \in [Worker -> Stage] /\ Workers =< Max({max, 1})
    /\ signal \subseteq Worker /\ submitting \subseteq Task
    /\ tasks \in [Task -> {"new", "queued", "done", "rejected"} \cup Worker]
    /\ shutdown \in BOOLEAN /\ resizing \in BOOLEAN /\ asignal \in BOOLEAN
    /\ spc \in {"up", "closed", "top", "look", "sleep", "returned"}

(* A queued task has a worker that is about to look at the queue, or       *)
(* someone about to wake or start one: no wakeup is lost between the look  *)
(* at the queue and the sleep, and no idle timeout takes the last worker   *)
(* away from under a task.                                                 *)
QueueAttended ==
    queue # <<>> =>
       \/ submitting # {}
       \/ \E w \in Alive : wpc[w] # "planned" /\ (wpc[w] = "sleep" => w \in signal)

(* When shutdown_gracefully returns, every accepted task has been run to   *)
(* its end, and nothing is queued or running.                              *)
DrainedAtReturn ==
    spc = "returned" => \A t \in Task : tasks[t] \in {"new", "done", "rejected"}

=============================================================================
