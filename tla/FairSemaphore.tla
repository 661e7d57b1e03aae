--------------------------- MODULE FairSemaphore ---------------------------
(***************************************************************************)
(* The first-come-first-served semaphore that bounds asynchronous sends    *)
(* (client/backpressure.rs): a capacity that may change at run time, a     *)
(* queue of tickets, and tasks that wait for their turn with a deadline.   *)
(*                                                                         *)
(* One step is one critical section of FairSemaphore.state, one            *)
(* notify_waiters (which comes after the lock is released), or one await   *)
(* point.  A Notified of tokio counts from its creation: notify_waiters    *)
(* marks every task between Enroll and the end of its wait.                *)
(*                                                                         *)
(* Clocks are abstracted to "the deadline has passed", ticket ids to the   *)
(* waiter that holds the ticket.                                           *)
(***************************************************************************)
EXTENDS Integers, Sequences, FiniteSetsExt, SequencesExt

CONSTANTS
    Waiter,     \* tasks that call try_acquire, again and again
    Need,       \* permits each of them asks for
    Capacity    \* values given to new and set_total_permits

ASSUME NeedAssumption == Need \in [Waiter -> Nat \ {0}]
ASSUME CapacityAssumption == Capacity \subseteq Nat \ {0}

VARIABLES
    total,      \* State.total
    free,       \* State.free, negative after a reduction of total
    queue,      \* State.queue
    signal,     \* waiters whose Notified has been completed
    expired,    \* waiters whose deadline has passed
    pc,         \* progress of each waiter
    resizing    \* set_total_permits has yet to notify

vars == <<total, free, queue, signal, expired, pc, resizing>>

Stage == {"idle", "enroll", "inspect", "wait", "granted", "holding",
          "released", "leave", "left"}

(* Between Ticket::new and the removal of the ticket.                      *)
Queued == {"enroll", "inspect", "wait", "leave"}

Init ==
    /\ total \in Capacity
    /\ free = total
    /\ queue = <<>>
    /\ signal = {} /\ expired = {}
    /\ pc = [w \in Waiter |-> "idle"]
    /\ resizing = FALSE

Goto(w, stage) == pc' = [pc EXCEPT ![w] = stage]

(* wake.notify_waiters(): every registered Notified completes.             *)
Listening == {w \in Waiter : pc[w] \in {"inspect", "wait"}}
NotifyWaiters == signal' = signal \cup Listening

-----------------------------------------------------------------------------
(* try_acquire *)

(* Ticket::new joins the queue; the deadline is set from the budget.       *)
Acquire(w) ==
    /\ pc[w] = "idle"
    /\ queue' = Append(queue, w)
    /\ expired' = expired \ {w}
    /\ Goto(w, "enroll")
    /\ UNCHANGED <<total, free, signal, resizing>>

(* notified() and enable(): a fresh credential, before the queue is read.  *)
Enroll(w) ==
    /\ pc[w] = "enroll"
    /\ signal' = signal \ {w}
    /\ Goto(w, "inspect")
    /\ UNCHANGED <<total, free, queue, expired, resizing>>

MayTake(w) == queue # <<>> /\ Head(queue) = w /\ free >= Need[w]

(* grant_if_head, granted: the head's ticket and its permits are taken.    *)
Take(w) ==
    /\ pc[w] = "inspect" /\ MayTake(w)
    /\ queue' = Tail(queue)
    /\ free' = free - Need[w]
    /\ Goto(w, "granted")
    /\ UNCHANGED <<total, signal, expired, resizing>>

(* Faulty: the task that took its permits wakes nobody behind it.          *)
NotifyGrantedSilently(w) ==
    /\ pc[w] = "granted"
    /\ Goto(w, "holding")
    /\ UNCHANGED <<total, free, queue, signal, expired, resizing>>

NotifyGranted(w) ==
    /\ pc[w] = "granted"
    /\ NotifyWaiters
    /\ Goto(w, "holding")
    /\ UNCHANGED <<total, free, queue, expired, resizing>>

(* Not this task's turn: it sleeps, or gives up when nothing of its budget *)
(* remains.                                                                *)
Sleep(w) ==
    /\ pc[w] = "inspect" /\ ~MayTake(w)
    /\ Goto(w, IF w \in expired THEN "leave" ELSE "wait")
    /\ UNCHANGED <<total, free, queue, signal, expired, resizing>>

(* Woken: the budget is looked at again before the queue is.               *)
WakeUp(w) ==
    /\ pc[w] = "wait" /\ w \in signal
    /\ Goto(w, IF w \in expired THEN "leave" ELSE "enroll")
    /\ UNCHANGED <<total, free, queue, signal, expired, resizing>>

(* tokio::time::timeout polls the Notified first.                          *)
TimeOut(w) ==
    /\ pc[w] = "wait" /\ w \notin signal /\ w \in expired
    /\ Goto(w, "leave")
    /\ UNCHANGED <<total, free, queue, signal, expired, resizing>>

(* The future is dropped at its await (task abort, lost select).           *)
Abandon(w) ==
    /\ pc[w] = "wait"
    /\ Goto(w, "leave")
    /\ UNCHANGED <<total, free, queue, signal, expired, resizing>>

Place(w) == CHOOSE i \in DOMAIN queue : queue[i] = w

(* Faulty: a ticket is removed and those behind it are not told.           *)
LeaveSilently(w) ==
    /\ pc[w] = "leave"
    /\ queue' = RemoveAt(queue, Place(w))
    /\ Goto(w, "idle")
    /\ UNCHANGED <<total, free, signal, expired, resizing>>

(* Ticket::drop removes the ticket of a task that was not granted.         *)
Leave(w) ==
    /\ pc[w] = "leave"
    /\ queue' = RemoveAt(queue, Place(w))
    /\ Goto(w, "left")
    /\ UNCHANGED <<total, free, signal, expired, resizing>>

NotifyLeft(w) ==
    /\ pc[w] = "left"
    /\ NotifyWaiters
    /\ Goto(w, "idle")
    /\ UNCHANGED <<total, free, queue, expired, resizing>>

-----------------------------------------------------------------------------
(* release, set_total_permits and the clock *)

Release(w) ==
    /\ pc[w] = "holding"
    /\ free' = free + Need[w]
    /\ Goto(w, "released")
    /\ UNCHANGED <<total, queue, signal, expired, resizing>>

NotifyReleased(w) ==
    /\ pc[w] = "released"
    /\ NotifyWaiters
    /\ Goto(w, "idle")
    /\ UNCHANGED <<total, free, queue, expired, resizing>>

(* set_total_permits: what is in use stays in use.                         *)
Resize(n) ==
    /\ ~resizing
    /\ free' = free + n - total
    /\ total' = n
    /\ resizing' = TRUE
    /\ UNCHANGED <<queue, signal, expired, pc>>

NotifyResized ==
    /\ resizing
    /\ NotifyWaiters
    /\ resizing' = FALSE
    /\ UNCHANGED <<total, free, queue, expired, pc>>

(* The deadline of a task inside try_acquire passes.                       *)
Expire(w) ==
    /\ pc[w] \in {"enroll", "inspect", "wait"} /\ w \notin expired
    /\ expired' = expired \cup {w}
    /\ UNCHANGED <<total, free, queue, signal, pc, resizing>>

Step(w) ==
    \/ Enroll(w) \/ Take(w) \/ NotifyGranted(w) \/ Sleep(w) \/ WakeUp(w)
    \/ TimeOut(w) \/ Leave(w) \/ NotifyLeft(w) \/ Release(w) \/ NotifyReleased(w)

Next ==
    \/ \E w \in Waiter : Acquire(w) \/ Step(w) \/ Abandon(w) \/ Expire(w)
    \/ \E n \in Capacity : Resize(n)
    \/ NotifyResized

Spec == Init /\ [][Next]_vars

(* A task that asks for more than some capacity the semaphore may have.    *)
Greedy == {w \in Waiter : \E n \in Capacity : n < Need[w]}

-----------------------------------------------------------------------------
(* Properties *)

(* The type of the state: State in backpressure.rs and each task's place   *)
(* in try_acquire.                                                         *)
TypeOK ==
    /\ total \in Capacity
    /\ free \in Int
    /\ queue \in Seq(Waiter)
    /\ signal \in SUBSET Waiter /\ expired \in SUBSET Waiter
    /\ pc \in [Waiter -> Stage]
    /\ resizing \in BOOLEAN

Holders == {w \in Waiter : pc[w] \in {"granted", "holding"}}

(* No permit is lost or made up: whatever the order of grants, releases,   *)
(* abandoned waits and resizes, free permits and permits in use add up to  *)
(* the current capacity.                                                   *)
PermitsConserved == free + MapThenSumSet(LAMBDA w : Need[w], Holders) = total

(* The queue holds exactly one ticket of every task inside try_acquire and *)
(* none of any other, so no ghost ticket can block the head.               *)
TicketsLive ==
    /\ \A i, j \in DOMAIN queue : queue[i] = queue[j] => i = j
    /\ \A w \in Waiter :
          (\E i \in DOMAIN queue : queue[i] = w)
             <=> pc[w] \in Queued

Notifying == resizing \/ \E w \in Waiter : pc[w] \in {"granted", "released", "left"}

(* No wakeup is lost: a sleeping head whose permits are free has been      *)
(* signalled, or some task is about to notify.                             *)
NoLostWakeup ==
    \A w \in Waiter :
        pc[w] = "wait" /\ MayTake(w) => w \in signal \/ Notifying

(* Everyone who queues leaves the queue, granted or refused; a task whose  *)
(* request fits every capacity does so without its deadline passing.       *)
Served ==
    \A w \in Waiter :
        (pc[w] \in Queued) ~> (pc[w] \notin Queued)
=============================================================================
