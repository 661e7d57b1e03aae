--------------------------- MODULE InstanceLoops ---------------------------
(***************************************************************************)
(* The background loops of a client instance (client/mq_client.rs): start  *)
(* spawns one periodic task per duty and keeps their handles in `tasks`;   *)
(* shutdown_factory raises the stop signal and aborts what `tasks` holds.  *)
(* The signal is a watch channel.  A receiver exists only while a loop     *)
(* waits for its next tick, since wait_until_or_stop subscribes anew each  *)
(* time, and a send that finds no receiver leaves the value as it is.      *)
(*                                                                         *)
(* Callers are the tenants of the instance; each of them may start or shut *)
(* down the instance, and with Overlap they do so concurrently, from       *)
(* threads of their own.                                                   *)
(***************************************************************************)
EXTENDS Naturals, FiniteSets

CONSTANTS
    Caller,        \* tasks and threads that call start and shutdown
    Kind,          \* the periodic duties: route, heartbeat, persist ...
    Dynamic,       \* whether start first awaits the address server
    Overlap,       \* whether a call may begin while another runs
    MaxLoops,      \* bound on the loops ever spawned
    MaxShutdowns   \* bound on the shutdowns

LoopsAssumption ==
    /\ Dynamic \in BOOLEAN /\ Overlap \in BOOLEAN
    /\ MaxLoops \in Nat /\ MaxShutdowns \in Nat

VARIABLES
    started,    \* Inner.started
    stop,       \* the value of the stop channel
    tasks,      \* Inner.tasks
    loop,       \* the spawned tasks, in the order they were spawned
    call,       \* the call each caller is in
    shutdowns

vars == <<started, stop, tasks, loop, call, shutdowns>>

Id == 1..MaxLoops
NoLoop == [kind |-> "none", pc |-> "none", aborted |-> FALSE, woken |-> FALSE]
NoCall == [pc |-> "idle", todo |-> {}, id |-> 0]
CallPc == {"idle", "fetch", "spawn", "push", "signal", "abort", "failSignal", "failAbort"}

TypeOK ==
    /\ started \in BOOLEAN /\ stop \in BOOLEAN
    /\ tasks \subseteq Id
    /\ loop \in [Id -> [kind : Kind \cup {"none"}, aborted : BOOLEAN, woken : BOOLEAN,
                        pc : {"none", "top", "wait", "work", "dead"}]]
    /\ call \in [Caller -> [pc : CallPc, todo : SUBSET Kind, id : 0..MaxLoops]]
    /\ shutdowns \in 0..MaxShutdowns

Init ==
    /\ started = FALSE /\ stop = FALSE /\ tasks = {}
    /\ loop = [l \in Id |-> NoLoop]
    /\ call = [c \in Caller |-> NoCall]
    /\ shutdowns = 0

-----------------------------------------------------------------------------
Live == {l \in Id : loop[l].pc \in {"top", "wait", "work"}}
Running == {l \in Live : ~loop[l].aborted}
Spawned == {l \in Id : loop[l].pc # "none"}
Idle == \A c \in Caller : call[c].pc = "idle"
MayCall(c) == call[c].pc = "idle" /\ (Overlap \/ Idle)
Enter(c, pc) == call' = [call EXCEPT ![c].pc = pc]
Become(l, pc) == loop' = [loop EXCEPT ![l].pc = pc, ![l].woken = FALSE]

(* watch::Sender::send: refused, and the value kept, without a receiver;   *)
(* otherwise every receiver is woken, whatever the value was before.       *)
Send(v) ==
    LET receiver == {l \in Id : loop[l].pc = "wait"} IN
    /\ stop' = IF receiver # {} THEN v ELSE stop
    /\ loop' = [l \in Id |-> IF l \in receiver THEN [loop[l] EXCEPT !.woken = TRUE] ELSE loop[l]]

(***************************************************************************)
(* start                                                                   *)
(***************************************************************************)
StartBegin(c) ==
    /\ MayCall(c) /\ ~started
    /\ Cardinality(Spawned) + Cardinality(Kind) <= MaxLoops
    /\ started' = TRUE
    /\ Send(FALSE)
    /\ call' = [call EXCEPT ![c] = [NoCall EXCEPT !.pc = IF Dynamic THEN "fetch" ELSE "spawn",
                                                  !.todo = Kind]]
    /\ UNCHANGED <<tasks, shutdowns>>

(* The address server answers with an address, or start gives up and tears *)
(* the instance down.                                                      *)
Fetched(c) ==
    /\ call[c].pc = "fetch"
    /\ Enter(c, "spawn")
    /\ UNCHANGED <<started, stop, tasks, loop, shutdowns>>

FetchFails(c) ==
    /\ call[c].pc = "fetch"
    /\ started' = FALSE
    /\ Enter(c, "failSignal")
    /\ UNCHANGED <<stop, tasks, loop, shutdowns>>

Spawn(c) ==
    /\ call[c].pc = "spawn"
    /\ Cardinality(Spawned) < MaxLoops
    /\ \E k \in call[c].todo :
          LET l == Cardinality(Spawned) + 1 IN
          /\ loop' = [loop EXCEPT ![l] = [NoLoop EXCEPT !.kind = k, !.pc = "top"]]
          /\ call' = [call EXCEPT ![c] = [pc |-> "push", todo |-> @.todo \ {k}, id |-> l]]
    /\ UNCHANGED <<started, stop, tasks, shutdowns>>

(* Faulty: the handle is dropped, which detaches the task.                 *)
PushDetached(c) ==
    /\ call[c].pc = "push"
    /\ call' = [call EXCEPT ![c] = IF @.todo = {} THEN NoCall ELSE [@ EXCEPT !.pc = "spawn", !.id = 0]]
    /\ UNCHANGED <<started, stop, tasks, loop, shutdowns>>
(* push_task                                                               *)
Push(c) ==
    /\ call[c].pc = "push"
    /\ tasks' = tasks \cup {call[c].id}
    /\ call' = [call EXCEPT ![c] = IF @.todo = {} THEN NoCall ELSE [@ EXCEPT !.pc = "spawn", !.id = 0]]
    /\ UNCHANGED <<started, stop, loop, shutdowns>>

(***************************************************************************)
(* shutdown_factory, by shutdown or at the end of a failed start           *)
(***************************************************************************)
ShutdownBegin(c) ==
    /\ MayCall(c) /\ shutdowns < MaxShutdowns
    /\ shutdowns' = shutdowns + 1
    /\ started' = FALSE
    /\ Enter(c, "signal")
    /\ UNCHANGED <<stop, tasks, loop>>

Signal(c) ==
    /\ \/ call[c].pc = "signal" /\ Enter(c, "abort")
       \/ call[c].pc = "failSignal" /\ Enter(c, "failAbort")
    /\ Send(TRUE)
    /\ UNCHANGED <<started, tasks, shutdowns>>

Abort(c) ==
    /\ call[c].pc \in {"abort", "failAbort"}
    /\ loop' = [l \in Id |-> IF l \in tasks THEN [loop[l] EXCEPT !.aborted = TRUE] ELSE loop[l]]
    /\ tasks' = {}
    /\ call' = [call EXCEPT ![c] = NoCall]
    /\ UNCHANGED <<started, stop, shutdowns>>

(***************************************************************************)
(* spawn_periodic, route_refresh_loop                                      *)
(***************************************************************************)
(* wait_until_or_stop subscribes and looks at the value once.              *)
WaitBegin(l) ==
    /\ loop[l].pc = "top"
    /\ Become(l, IF stop THEN "dead" ELSE "wait")
    /\ UNCHANGED <<started, stop, tasks, call, shutdowns>>

(* A send since the subscription ends the wait, whatever value it sent.    *)
Woken(l) ==
    /\ loop[l].pc = "wait" /\ loop[l].woken
    /\ Become(l, "dead")
    /\ UNCHANGED <<started, stop, tasks, call, shutdowns>>

(* The deadline passes.                                                    *)
Tick(l) ==
    /\ loop[l].pc = "wait"
    /\ Become(l, IF started THEN "work" ELSE "dead")
    /\ UNCHANGED <<started, stop, tasks, call, shutdowns>>

WorkDone(l) ==
    /\ loop[l].pc = "work"
    /\ Become(l, "top")
    /\ UNCHANGED <<started, stop, tasks, call, shutdowns>>

(* JoinHandle::abort takes effect when the task next yields.               *)
Dropped(l) ==
    /\ loop[l].aborted /\ l \in Live
    /\ Become(l, "dead")
    /\ UNCHANGED <<started, stop, tasks, call, shutdowns>>

-----------------------------------------------------------------------------
LoopStep(l) == WaitBegin(l) \/ Woken(l) \/ Tick(l) \/ WorkDone(l) \/ Dropped(l)
CallStep(c) == Fetched(c) \/ FetchFails(c) \/ Spawn(c) \/ Push(c) \/ Signal(c) \/ Abort(c)

Next ==
    \/ \E c \in Caller : StartBegin(c) \/ ShutdownBegin(c) \/ CallStep(c)
    \/ \E l \in Id : LoopStep(l)

Spec == Init /\ [][Next]_vars

-----------------------------------------------------------------------------
(* However often the instance is started and shut down, one duty has one   *)
(* loop that was not told to end: start does not spawn a second copy.      *)
OneLoopPerKind ==
    \A l, m \in Running : l # m => loop[l].kind # loop[m].kind

(* When shutdown, or a start that failed, has returned, every loop still   *)
(* alive has been aborted: none is left that nobody holds a handle of.     *)
NoneLeftBehind == ~started /\ Idle => Running = {}

(* When start has returned every duty has a loop, after a restart too.     *)
RestartRuns ==
    started /\ Idle => \A k \in Kind : \E l \in Running : loop[l].kind = k
=============================================================================
