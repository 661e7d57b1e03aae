---------------------------- MODULE PullSchedule ----------------------------
(***************************************************************************)
(* MQPullConsumerScheduleService (client/pull_schedule_service.rs): one    *)
(* task per assigned queue runs the topic's callback again and again.  A   *)
(* reconcile round reads the rebalance view and, after that await, aligns  *)
(* the task table with it: tasks of lost queues are cancelled and left to  *)
(* finish, tasks of new queues are spawned.  Rounds are run by start, by   *)
(* the reconcile loop and by the application.  shutdown raises the stop    *)
(* signal and waits for the handles it finds in the tables.                *)
(*                                                                         *)
(* One topic with its callback registered.  The signal is a watch channel: *)
(* a send without receivers is refused and keeps the old value.            *)
(***************************************************************************)
EXTENDS Naturals, FiniteSets, FiniteSetsExt

CONSTANTS
    Queue,        \* the queues of the topic
    MaxLoops,     \* bound on the queue tasks at a time
    MaxStarts,    \* bound on the calls of start
    MaxShutdowns, \* bound on the calls of shutdown
    MaxMoves,     \* bound on the changes of the assignment
    MaxUser,      \* bound on the rounds the application asks for
    Fault,        \* which of "rpc", "timeout" happen
    Overlap       \* whether a shutdown may come while start or a round runs

ScheduleAssumption ==
    /\ MaxLoops \in Nat /\ MaxStarts \in Nat /\ MaxShutdowns \in Nat
    /\ MaxMoves \in Nat /\ MaxUser \in Nat /\ Overlap \in BOOLEAN

VARIABLES
    started, stop, consumer,  \* started, the value of stop, the consumer is up
    balance,    \* the queues the group's rebalance gives this client
    tasks,      \* the task table: queue -> task, or 0
    retired,    \* handles of cancelled tasks
    recTask,    \* reconcile_task: a reconcile loop, or 0
    loop,       \* the queue tasks
    rec,        \* the reconcile loops
    round,      \* the reconcile round of start, of the user and of each loop
    start, shut,  \* the calls of start and of shutdown
    used        \* what the bounds count

vars == <<started, stop, consumer, balance, tasks, retired, recTask, loop, rec, round,
          start, shut, used>>

Id == 1..MaxLoops
Rec == 1..MaxStarts
Starter == 0
User == MaxStarts + 1
Owner == {Starter, User} \cup Rec  \* who runs a reconcile round
NoLoop == [q |-> "none", pc |-> "none", cancel |-> FALSE, woken |-> FALSE]
NoRec == [pc |-> "none", woken |-> FALSE]
NoRound == [pc |-> "none", view |-> {}]
NoShut == [pc |-> "idle", loops |-> {}, rec |-> 0]

TypeOK ==
    /\ started \in BOOLEAN /\ stop \in BOOLEAN /\ consumer \in BOOLEAN
    /\ balance \subseteq Queue
    /\ tasks \in [Queue -> 0..MaxLoops] /\ retired \subseteq Id /\ recTask \in 0..MaxStarts
    /\ loop \in [Id -> [q : Queue \cup {"none"}, cancel : BOOLEAN, woken : BOOLEAN,
                        pc : {"none", "top", "round", "wait", "dead"}]]
    /\ rec \in [Rec -> [pc : {"none", "top", "wait", "round", "dead"}, woken : BOOLEAN]]
    /\ round \in [Owner -> [pc : {"none", "fetch", "apply"}, view : SUBSET Queue]]
    /\ start \in {"idle", "consumer", "round"}
    /\ shut \in [pc : {"idle", "take", "retired", "drain"}, loops : SUBSET Id, rec : 0..MaxStarts]
    /\ used \in [starts : 0..MaxStarts, shuts : 0..MaxShutdowns, moves : 0..MaxMoves, user : 0..MaxUser]

Init ==
    /\ started = FALSE /\ stop = FALSE /\ consumer = FALSE
    /\ balance \in SUBSET Queue
    /\ tasks = [q \in Queue |-> 0] /\ retired = {} /\ recTask = 0
    /\ loop = [l \in Id |-> NoLoop] /\ rec = [r \in Rec |-> NoRec]
    /\ round = [o \in Owner |-> NoRound]
    /\ start = "idle" /\ shut = NoShut
    /\ used = [starts |-> 0, shuts |-> 0, moves |-> 0, user |-> 0]

-----------------------------------------------------------------------------
Live == {l \in Id : loop[l].pc \in {"top", "round", "wait"}}
LiveRec == {r \in Rec : rec[r].pc \in {"top", "wait", "round"}}
Finished(l) == loop[l].pc = "dead"

(* watch::Sender::send                                                     *)
Send(v) ==
    /\ stop' = IF Live \cup LiveRec # {} THEN v ELSE stop
    /\ loop' = [l \in Id |-> IF l \in Live THEN [loop[l] EXCEPT !.woken = TRUE] ELSE loop[l]]
    /\ rec' = [r \in Rec |-> IF r \in LiveRec THEN [rec[r] EXCEPT !.woken = TRUE] ELSE rec[r]]

Move(S) ==
    /\ used.moves < MaxMoves /\ S # balance
    /\ used' = [used EXCEPT !.moves = @ + 1]
    /\ balance' = S
    /\ UNCHANGED <<started, stop, consumer, tasks, retired, recTask, loop, rec, round, start, shut>>

(***************************************************************************)
(* queue_loop                                                              *)
(***************************************************************************)
LoopOnly == UNCHANGED <<started, stop, consumer, balance, tasks, retired, recTask, rec, round,
                        start, shut, used>>

LoopTop(l) ==
    /\ loop[l].pc = "top"
    /\ loop' = [loop EXCEPT ![l].woken = FALSE,
                            ![l].pc = IF stop \/ loop[l].cancel THEN "dead" ELSE "round"]
    /\ LoopOnly

(* do_pull_task has returned, or panicked on its child task.               *)
RoundEnds(l) ==
    /\ loop[l].pc = "round"
    /\ loop' = [loop EXCEPT ![l].pc = IF stop \/ loop[l].cancel THEN "dead" ELSE "wait"]
    /\ LoopOnly

Slept(l) ==
    /\ loop[l].pc = "wait"
    /\ loop' = [loop EXCEPT ![l].pc = "top"]
    /\ LoopOnly

LoopWoken(l) ==
    /\ loop[l].pc = "wait" /\ (loop[l].woken \/ loop[l].cancel)
    /\ loop' = [loop EXCEPT ![l].pc = "dead"]
    /\ LoopOnly

(***************************************************************************)
(* reconcile_round, put_task_on                                            *)
(***************************************************************************)
(* Where the owner of a round goes on when the round ends.                 *)
After(o) ==
    /\ IF o \in Rec
       THEN rec' = [rec EXCEPT ![o].pc = "top"]
       ELSE IF o = Starter
       THEN rec' = [rec EXCEPT ![used.starts].pc = "top"]
       ELSE UNCHANGED rec
    /\ IF o = Starter THEN start' = "idle" /\ recTask' = used.starts
                      ELSE UNCHANGED <<start, recTask>>

(* The queues are read from the consumer; an error ends the round and      *)
(* keeps the table.                                                        *)
Fetch(o) ==
    /\ round[o].pc = "fetch" /\ consumer
    /\ round' = [round EXCEPT ![o] = [pc |-> "apply", view |-> balance]]
    /\ UNCHANGED <<started, stop, consumer, balance, tasks, retired, recTask, loop, rec, start, shut, used>>

FetchFails(o) ==
    /\ round[o].pc = "fetch" /\ (~consumer \/ "rpc" \in Fault)
    /\ round' = [round EXCEPT ![o] = NoRound]
    /\ After(o)
    /\ UNCHANGED <<started, stop, consumer, balance, tasks, retired, loop, shut, used>>

(* A task that ended and that no table refers to is forgotten.             *)
Unused == {l \in Id : l \notin Live \cup retired \cup shut.loops \cup {tasks[q] : q \in Queue}}
Fresh(n) == {l \in Unused : Cardinality({m \in Unused : m <= l}) <= n}
(* Faulty: the table only grows.                                           *)
StaleNone(view) == {}
Stale(view) == {q \in Queue : tasks[q] # 0 /\ q \notin view}

(* contains_key: an entry counts, whether or not its task has ended.       *)
Missing(view) == {q \in view : tasks[q] = 0}

(* The handles of the stale tasks are kept for shutdown to wait for.       *)
Retire(view) ==
    retired' = IF Stale(view) = {} THEN retired
               ELSE {l \in retired : ~Finished(l)} \cup {tasks[q] : q \in Stale(view)}

PutTask(view) ==
    LET new == Missing(view)
        id  == CHOOSE f \in [new -> Fresh(Cardinality(new))] :
                  \A p, q \in new : p # q => f[p] # f[q]
        cancelled == {tasks[q] : q \in Stale(view)}
    IN  /\ Cardinality(Fresh(Cardinality(new))) = Cardinality(new)
        /\ Retire(view)
        /\ tasks' = [q \in Queue |-> IF q \in new THEN id[q]
                                     ELSE IF q \in Stale(view) THEN 0 ELSE tasks[q]]
        /\ loop' = [l \in Id |->
              IF \E q \in new : id[q] = l
              THEN [NoLoop EXCEPT !.pc = "top", !.q = CHOOSE q \in new : id[q] = l]
              ELSE IF l \in cancelled THEN [loop[l] EXCEPT !.cancel = TRUE]
              ELSE loop[l]]

Apply(o) ==
    /\ round[o].pc = "apply"
    /\ PutTask(round[o].view)
    /\ round' = [round EXCEPT ![o] = NoRound]
    /\ After(o)
    /\ UNCHANGED <<started, stop, consumer, balance, shut, used>>

(* reconcile, called by the application                                    *)
UserRound ==
    /\ round[User].pc = "none" /\ used.user < MaxUser /\ shut.pc = "idle"
    /\ used' = [used EXCEPT !.user = @ + 1]
    /\ round' = [round EXCEPT ![User].pc = "fetch"]
    /\ UNCHANGED <<started, stop, consumer, balance, tasks, retired, recTask, loop, rec, start, shut>>

(***************************************************************************)
(* The reconcile loop: sleep or stop, then a round.                        *)
(***************************************************************************)
RecTop(r) ==
    /\ rec[r].pc = "top"
    /\ rec' = [rec EXCEPT ![r] = [pc |-> IF stop THEN "dead" ELSE "wait", woken |-> FALSE]]
    /\ UNCHANGED <<started, stop, consumer, balance, tasks, retired, recTask, loop, round, start, shut, used>>

RecTick(r) ==
    /\ rec[r].pc = "wait"
    /\ rec' = [rec EXCEPT ![r].pc = "round"]
    /\ round' = [round EXCEPT ![r].pc = "fetch"]
    /\ UNCHANGED <<started, stop, consumer, balance, tasks, retired, recTask, loop, start, shut, used>>

RecWoken(r) ==
    /\ rec[r].pc = "wait" /\ rec[r].woken
    /\ rec' = [rec EXCEPT ![r].pc = "dead"]
    /\ UNCHANGED <<started, stop, consumer, balance, tasks, retired, recTask, loop, round, start, shut, used>>

(***************************************************************************)
(* start                                                                   *)
(***************************************************************************)
StartBegin ==
    /\ start = "idle" /\ ~started /\ used.starts < MaxStarts
    /\ shut.pc = "idle"
    /\ used' = [used EXCEPT !.starts = @ + 1]
    /\ started' = TRUE /\ start' = "consumer"
    /\ UNCHANGED <<stop, consumer, balance, tasks, retired, recTask, loop, rec, round, shut>>

ConsumerUp ==
    /\ start = "consumer"
    /\ consumer' = TRUE
    /\ Send(FALSE)
    /\ start' = "round"
    /\ round' = [round EXCEPT ![Starter].pc = "fetch"]
    /\ UNCHANGED <<started, balance, tasks, retired, recTask, shut, used>>

ConsumerFails ==
    /\ start = "consumer" /\ "rpc" \in Fault
    /\ started' = FALSE /\ start' = "idle"
    /\ UNCHANGED <<stop, consumer, balance, tasks, retired, recTask, loop, rec, round, shut, used>>

(***************************************************************************)
(* shutdown                                                                *)
(***************************************************************************)
ShutdownBegin ==
    /\ shut.pc = "idle" /\ used.shuts < MaxShutdowns
    /\ Overlap \/ (start = "idle" /\ round[User].pc = "none")
    /\ used' = [used EXCEPT !.shuts = @ + 1]
    /\ Send(TRUE)
    /\ started' = FALSE
    /\ shut' = [NoShut EXCEPT !.pc = "take"]
    /\ UNCHANGED <<consumer, balance, tasks, retired, recTask, round, start>>

Take ==
    /\ shut.pc = "take"
    /\ shut' = [pc |-> "retired", loops |-> {tasks[q] : q \in Queue} \ {0}, rec |-> recTask]
    /\ recTask' = 0 /\ tasks' = [q \in Queue |-> 0]
    /\ UNCHANGED <<started, stop, consumer, balance, retired, loop, rec, round, start, used>>

TakeRetired ==
    /\ shut.pc = "retired"
    /\ shut' = [shut EXCEPT !.pc = "drain", !.loops = @ \cup retired]
    /\ retired' = {}
    /\ UNCHANGED <<started, stop, consumer, balance, tasks, recTask, loop, rec, round, start, used>>

(* Every handle has been awaited, or SHUTDOWN_FINALIZE_BUDGET has passed.  *)
Close ==
    /\ shut.pc = "drain"
    /\ \/ /\ \A l \in shut.loops : Finished(l)
          /\ shut.rec # 0 => rec[shut.rec].pc = "dead"
       \/ "timeout" \in Fault
    /\ consumer' = FALSE
    /\ shut' = NoShut
    /\ UNCHANGED <<started, stop, balance, tasks, retired, recTask, loop, rec, round, start, used>>

-----------------------------------------------------------------------------
LoopStep(l) == LoopTop(l) \/ RoundEnds(l) \/ Slept(l) \/ LoopWoken(l)
RoundStep(o) == Fetch(o) \/ FetchFails(o) \/ Apply(o)
RecStep(r) == RecTop(r) \/ RecTick(r) \/ RecWoken(r) \/ RoundStep(r)
StartStep == ConsumerUp \/ ConsumerFails \/ RoundStep(Starter)
ShutStep == Take \/ TakeRetired \/ Close

Next ==
    \/ \E S \in SUBSET Queue : Move(S)
    \/ \E l \in Id : LoopStep(l)
    \/ \E r \in Rec : RecStep(r)
    \/ UserRound \/ RoundStep(User)
    \/ StartBegin \/ StartStep
    \/ ShutdownBegin \/ ShutStep

Spec == Init /\ [][Next]_vars

-----------------------------------------------------------------------------
(* However rounds of start, of the loop and of the application overlap, a  *)
(* queue has one task that was not told to end, and the table knows it:    *)
(* contains_key and the insertion are one step under the lock.             *)
OneTask ==
    \A l \in Live : (~loop[l].cancel /\ ~stop) => tasks[loop[l].q] = l

(* shutdown drains: when it has returned no callback is running, those of  *)
(* queues retired long before and of queues assigned by a round that       *)
(* shutdown overtook included.                                             *)
Drained ==
    ~started /\ shut.pc = "idle" => \A l \in Id : loop[l].pc # "round"

(* The tasks follow the group: when the assignment rests, in the end the   *)
(* live tasks are those of the assigned queues.                            *)
FollowsBalance == <>[]({loop[l].q : l \in Live} = balance)

=============================================================================
