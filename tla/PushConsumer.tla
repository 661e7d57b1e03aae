--------------------------- MODULE PushConsumer ---------------------------
(***************************************************************************)
(* One queue of a push consumer with a concurrent listener in a clustered  *)
(* group (client/consumer.rs): rebalancing takes and gives up the queue,   *)
(* a pull loop per ownership token fetches, the dispatch loop hands        *)
(* batches to the listener and sends back what it refuses, the sweep       *)
(* sends back what the listener holds too long, and the consumed offset    *)
(* is saved at the broker every few seconds, on revocation and on          *)
(* shutdown.                                                               *)
(*                                                                         *)
(* One step is one critical section of State or one RPC.  An RPC takes     *)
(* effect at the broker in the step in which its answer is received; a     *)
(* failed one may have had no effect.                                      *)
(***************************************************************************)
EXTENDS Integers, Sequences, SequencesExt, FiniteSetsExt

CONSTANTS
    MaxOff,       \* messages the queue may hold
    Unwanted,     \* offsets the broker-side filter does not return
    PullBatch,    \* pull_batch_size
    ConsumeBatch, \* consume_message_batch_max_size
    Threshold,    \* pull_threshold_for_queue
    MaxChurn,     \* bound on the events that cost the queue its owner
    Fault         \* which of "rpc", "crash", "retention", "reset", "stop" happen,
                  \* "back": the send-back of a refused message fails,
                  \* "sweep": a listener outlasts consume_timeout, and
                  \* "timeout": one outlasts SHUTDOWN_DRAIN_TIMEOUT

BoundAssumption ==
    /\ {MaxOff, PullBatch, ConsumeBatch, Threshold} \subseteq Nat \ {0}
    /\ MaxChurn \in Nat
UnwantedAssumption == Unwanted \subseteq 0..MaxOff - 1

None == -1
Offset == 0..MaxOff - 1
Token == 1..MaxChurn + 1
Dispatcher == 1..2
Rebalancer == {"loop", "reset"}

VARIABLES
    minOff, maxOff, committed, \* the broker: its log and the group's offset
    state,     \* Inner.state, the part that is about this queue
    started,   \* Inner.started, with the stop signal
    token,     \* Inner.next_token
    pull,      \* the pull loop of every token
    dispatch,  \* dispatch_loop; a second one after a restart
    sweep,     \* clean_expire_loop: the head it is sending back
    reb,       \* do_rebalance of the rebalance loop and of reset_offset
    persist,   \* persist_offsets_once: the offset it is saving
    stop,      \* shutdown
    churn,     \* events so far that cost the queue its owner
    settled    \* history: messages nobody has to see any more

broker == <<minOff, maxOff, committed>>
tasks == <<pull, dispatch, sweep, reb, persist, stop>>
vars == <<minOff, maxOff, committed, state, started, token, pull, dispatch, sweep,
          reb, persist, stop, churn, settled>>

(* A fetched message: the generation of the process queue it was fetched   *)
(* for, and whether it carries CONSUME_START_TIMESTAMP.                    *)
Entry == [off : Offset, ep : 0..MaxChurn, stamped : BOOLEAN]

Blank ==
    [assigned |-> FALSE, owner |-> None, cursor |-> None, consumed |-> None,
     pending |-> <<>>, buffered |-> FALSE, inflight |-> 0, handed |-> {},
     frozen |-> FALSE, epoch |-> 0, mapped |-> FALSE]

NoPull == [pc |-> "none", off |-> None, status |-> "none", found |-> {}]
NoBatch == [pc |-> "none", batch |-> <<>>, ep |-> 0, i |-> 0, failed |-> {}]
NoRound == [pc |-> "idle", off |-> None, new |-> None]

NoStop == [pc |-> "down", off |-> None]

Init ==
    /\ minOff = 0 /\ maxOff = 0 /\ committed = None
    /\ state = Blank /\ started = FALSE /\ token = 1 /\ churn = 0
    /\ pull = [t \in Token |-> NoPull]
    /\ dispatch = [d \in Dispatcher |-> NoBatch]
    /\ sweep = None
    /\ reb = [r \in Rebalancer |-> NoRound]
    /\ persist = None /\ stop = NoStop
    /\ settled = Unwanted

-----------------------------------------------------------------------------
(* Critical sections of State, as functions of it *)

Offs(s) == {s[i].off : i \in DOMAIN s}

(* process_queue_entries_locked, by offset.                                *)
Held(q) == q.handed \cup Offs(q.pending)

(* retire_queue_locked.  The count of batches in flight stays.             *)
Retired(q) ==
    [q EXCEPT !.owner = None, !.pending = <<>>, !.buffered = FALSE, !.handed = {},
              !.epoch = @ + 1, !.consumed = None, !.cursor = None, !.mapped = FALSE]

CorrectTags(q, status, next) ==
    IF /\ status \in {"no_new", "no_match"} /\ ~q.frozen
       /\ q.pending = <<>> /\ q.inflight = 0
      THEN [q EXCEPT !.consumed = Max({@, next})] ELSE q

Advance(q, handled, failed, ep) ==
    IF ep # q.epoch \/ q.frozen \/ handled = {} THEN q
    ELSE [q EXCEPT !.consumed = Max({@, 0, Min({Max(handled) + 1} \cup failed)})]

Requeue(q, entries) ==
    IF q.buffered THEN [q EXCEPT !.pending = entries \o @] ELSE q

Without(q, offs) ==
    [q EXCEPT !.handed = @ \ offs,
              !.pending = SelectSeq(@, LAMBDA e : e.off \notin offs)]

-----------------------------------------------------------------------------
(* RPCs to the broker *)

(* query_consumer_offset and plan_initial_offset, CONSUME_FROM_FIRST.      *)
InitialOffset == Max({committed, 0})

UpdateConsumerOffset(off) ==
    /\ \/ committed' = off
       \/ "rpc" \in Fault /\ committed' = committed
    /\ UNCHANGED <<minOff, maxOff>>

Answer(off) ==
    LET end == Min({off + PullBatch, maxOff})
        found == (off..end - 1) \ Unwanted
        resp(status, next, S) == [status |-> status, off |-> next, found |-> S]
    IN IF off < minOff THEN resp("illegal", minOff, {})
       ELSE IF off > maxOff THEN resp("illegal", maxOff, {})
       ELSE IF off = maxOff THEN resp("no_new", off, {})
       ELSE IF found = {} THEN resp("no_match", end, {})
       ELSE resp("found", end, found)

Produce ==
    /\ maxOff < MaxOff
    /\ maxOff' = maxOff + 1
    /\ UNCHANGED <<minOff, committed, state, started, token, churn, settled>>
    /\ UNCHANGED tasks

(* The broker deletes its oldest message.                                  *)
Expire ==
    /\ "retention" \in Fault /\ minOff < maxOff
    /\ minOff' = minOff + 1
    /\ settled' = settled \cup {minOff}
    /\ UNCHANGED <<maxOff, committed, state, started, token, churn>>
    /\ UNCHANGED tasks

-----------------------------------------------------------------------------
(* run_queue_pull_loop *)

Goto(t, pc) == pull' = [pull EXCEPT ![t] = [NoPull EXCEPT !.pc = pc]]
GotoWith(t, pc, off) == pull' = [pull EXCEPT ![t] = [NoPull EXCEPT !.pc = pc, !.off = off]]

(* The loop ends; while it owns the queue that leaves a mark for the next  *)
(* rebalance round (mark_pull_loop_exited).                                *)
Exit(t) == Goto(t, IF state.owner = t THEN "gone" ELSE "none")

(* pull_message: the broker's answer, not yet looked at, or no answer.     *)
Ask(t, off) ==
    \/ LET a == Answer(off)
       IN pull' = [pull EXCEPT ![t] = [pc |-> "answer", off |-> a.off,
                                       status |-> a.status, found |-> a.found]]
    \/ "rpc" \in Fault /\ Goto(t, "top")

PullTop(t) ==
    /\ pull[t].pc = "top"
    /\ \/ (~started \/ state.owner # t) /\ Exit(t)
       \/ /\ started /\ state.owner = t /\ Cardinality(Held(state)) <= Threshold
          /\ \/ state.cursor # None /\ Ask(t, state.cursor)
             \/ state.cursor = None /\ GotoWith(t, "resolved", InitialOffset)
    /\ UNCHANGED <<state, started, token, dispatch, sweep, reb, persist, stop, churn, settled>>
    /\ UNCHANGED broker

(* The subscription is gone for a moment, or the client is: the loop ends. *)
PullGivesUp(t) ==
    /\ pull[t].pc = "top" /\ churn < MaxChurn
    /\ churn' = churn + 1
    /\ Exit(t)
    /\ UNCHANGED <<state, started, token, dispatch, sweep, reb, persist, stop, settled>>
    /\ UNCHANGED broker

(* The cursor is stored whether or not the loop still owns the queue.      *)
Resolved(t) ==
    /\ pull[t].pc = "resolved"
    /\ state' = [state EXCEPT !.cursor = pull[t].off]
    /\ Ask(t, pull[t].off)
    /\ UNCHANGED <<started, token, dispatch, sweep, reb, persist, stop, churn, settled>>
    /\ UNCHANGED broker

Fetched(found) ==
    LET offs == SetToSortSeq(found, <)
    IN [i \in 1..Len(offs) |-> [off |-> offs[i], ep |-> state.epoch, stamped |-> FALSE]]

(* Faulty: the answer is taken without a look at the ownership token.      *)
StillOwnerUnchecked(t) == TRUE
StillOwner(t) == state.owner = t

Extended(q, found) ==
    IF found = {} THEN q
    ELSE [q EXCEPT !.mapped = TRUE, !.buffered = TRUE, !.pending = @ \o Fetched(found)]

PullAnswer(t) ==
    /\ pull[t].pc = "answer"
    /\ LET a == pull[t]
           q == [Extended(state, a.found) EXCEPT !.cursor = a.off]
       IN \/ ~StillOwner(t) /\ Exit(t) /\ UNCHANGED <<state, churn>>
          \/ /\ StillOwner(t) /\ a.status # "illegal"
             /\ state' = CorrectTags(q, a.status, a.off)
             /\ Goto(t, "top") /\ UNCHANGED churn
          \/ /\ StillOwner(t) /\ a.status = "illegal" /\ churn < MaxChurn
             /\ state' = [q EXCEPT !.consumed = a.off, !.frozen = TRUE]
             /\ Goto(t, "illegal") /\ churn' = churn + 1
    /\ UNCHANGED <<started, token, dispatch, sweep, reb, persist, stop, settled>>
    /\ UNCHANGED broker

(* handle_offset_illegal, and revoke_queues.                               *)
OffsetIllegal(t) ==
    /\ pull[t].pc = "illegal"
    /\ state' = Retired(state)
    /\ IF state.mapped THEN GotoWith(t, "revoke", state.consumed) ELSE Goto(t, "top")
    /\ UNCHANGED <<started, token, dispatch, sweep, reb, persist, stop, churn, settled>>
    /\ UNCHANGED broker

IllegalRevoke(t) ==
    /\ pull[t].pc = "revoke"
    /\ IF pull[t].off # None THEN UpdateConsumerOffset(pull[t].off) ELSE UNCHANGED broker
    /\ Goto(t, "forget")
    /\ UNCHANGED <<state, started, token, dispatch, sweep, reb, persist, stop, churn, settled>>

IllegalForget(t) ==
    /\ pull[t].pc = "forget"
    /\ state' = [state EXCEPT !.consumed = None]
    /\ Goto(t, "top")
    /\ UNCHANGED <<started, token, dispatch, sweep, reb, persist, stop, churn, settled>>
    /\ UNCHANGED broker

-----------------------------------------------------------------------------
(* do_rebalance, rebalance_pull_threads, revoke_queues; reset_offset *)

Round(r, rec) == reb' = [reb EXCEPT ![r] = rec]
Stage(r, pc) == Round(r, [reb[r] EXCEPT !.pc = pc])

(* Faulty: a queue whose pull loop has ended is left alone.                *)
StalledNever == FALSE
(* pull_stalled_locked: the owner's loop has ended.                        *)
Stalled == state.owner # None /\ started /\ pull[state.owner].pc = "gone"

Created(q) ==
    [q EXCEPT !.frozen = FALSE, !.owner = token, !.mapped = TRUE]

(* Nothing to revoke, nothing to spawn: the round is over.                 *)
Threads(r, q, skip) ==
    LET current == q.assigned /\ ~skip
        doomed == q.owner # None /\ (~current \/ Stalled)
        kept == IF doomed THEN Retired(q) ELSE q
        create == current /\ kept.owner = None
        revoked == doomed /\ (q.mapped \/ current)
    IN /\ create => token \in Token
       /\ state' = IF create THEN Created(kept) ELSE kept
       /\ token' = IF create THEN token + 1 ELSE token
       /\ Round(r, [pc |-> IF revoked THEN "revoke" ELSE IF create THEN "spawn" ELSE "idle",
                    off |-> IF revoked THEN q.consumed ELSE None,
                    new |-> IF create THEN token ELSE None])

(* The group's allocation gives the queue, leaves it or takes it.  A queue *)
(* that is new to this client gets a cursor before it gets a pull loop.    *)
Rebalance(r) ==
    /\ started
    /\ reb[r].pc = IF r = "loop" THEN "idle" ELSE "begin"
    /\ \/ state.assigned /\ Threads(r, state, FALSE) /\ UNCHANGED churn
       \/ /\ ~state.assigned
          /\ state' = [state EXCEPT !.assigned = TRUE]
          /\ Stage(r, "resolve")
          /\ UNCHANGED <<token, churn>>
       \/ /\ state.assigned /\ churn < MaxChurn
          /\ Threads(r, [state EXCEPT !.assigned = FALSE], FALSE)
          /\ churn' = churn + 1
    /\ UNCHANGED <<started, pull, dispatch, sweep, persist, stop, settled>>
    /\ UNCHANGED broker

RebalanceResolve(r) ==
    /\ reb[r].pc = "resolve"
    /\ \/ /\ Round(r, [NoRound EXCEPT !.pc = "insert", !.off = InitialOffset])
          /\ UNCHANGED <<state, token>>
       \/ "rpc" \in Fault /\ Threads(r, state, TRUE)
    /\ UNCHANGED <<started, pull, dispatch, sweep, persist, stop, churn, settled>>
    /\ UNCHANGED broker

RebalanceInsert(r) ==
    /\ reb[r].pc = "insert"
    /\ Threads(r, [state EXCEPT !.cursor = IF @ = None THEN reb[r].off ELSE @], FALSE)
    /\ UNCHANGED <<started, pull, dispatch, sweep, persist, stop, churn, settled>>
    /\ UNCHANGED broker

(* A reset counts from here: everything from the offset on is to be seen   *)
(* again.                                                                  *)
Revoke(r) ==
    /\ reb[r].pc \in {"revoke", "reset"}
    /\ IF reb[r].off # None THEN UpdateConsumerOffset(reb[r].off) ELSE UNCHANGED broker
    /\ settled' = IF reb[r].pc = "reset" /\ committed' = reb[r].off
                    THEN {m \in Offset : m < committed' \/ m < minOff \/ m \in Unwanted}
                    ELSE settled
    /\ Stage(r, IF reb[r].pc = "reset" THEN "clear" ELSE "forget")
    /\ UNCHANGED <<state, started, token, pull, dispatch, sweep, persist, stop, churn>>

RevokeForget(r) ==
    /\ reb[r].pc \in {"forget", "clear"}
    /\ state' = [state EXCEPT !.consumed = None]
    /\ Round(r, IF reb[r].pc = "clear" /\ started THEN [NoRound EXCEPT !.pc = "begin"]
                ELSE IF reb[r].new = None THEN NoRound
                ELSE [reb[r] EXCEPT !.pc = "spawn", !.off = None])
    /\ UNCHANGED <<started, token, pull, dispatch, sweep, persist, stop, churn, settled>>
    /\ UNCHANGED broker

Spawn(r) ==
    /\ reb[r].pc = "spawn"
    /\ Goto(reb[r].new, "top")
    /\ Round(r, NoRound)
    /\ UNCHANGED <<state, started, token, dispatch, sweep, persist, stop, churn, settled>>
    /\ UNCHANGED broker

(* reset_offset, pushed by the broker; it then waits 200 ms.               *)
ResetOffset(o) ==
    /\ "reset" \in Fault /\ started /\ churn < MaxChurn
    /\ reb["reset"].pc = "idle" /\ state.mapped /\ o <= maxOff
    /\ churn' = churn + 1
    /\ state' = Retired(state)
    /\ Round("reset", [NoRound EXCEPT !.pc = "reset", !.off = o])
    /\ UNCHANGED <<started, token, pull, dispatch, sweep, persist, stop, settled>>
    /\ UNCHANGED broker

-----------------------------------------------------------------------------
(* dispatch_loop, consume_batch, consume_concurrent_batch *)

Batch(d, rec) == dispatch' = [dispatch EXCEPT ![d] = rec]

Take(d) ==
    /\ dispatch[d].pc = "ready" /\ started
    /\ state.mapped /\ state.pending # <<>>
    /\ LET n == Min({Len(state.pending), ConsumeBatch})
       IN /\ Batch(d, [NoBatch EXCEPT !.pc = "check", !.ep = state.epoch,
                                      !.batch = SubSeq(state.pending, 1, n)])
          /\ state' = [state EXCEPT !.pending = SubSeq(@, n + 1, Len(@)),
                                    !.inflight = @ + 1]
    /\ UNCHANGED <<started, token, pull, sweep, reb, persist, stop, churn, settled>>
    /\ UNCHANGED broker

(* Between batches the loop sees that the consumer was stopped.            *)
DispatchEnds(d) ==
    /\ dispatch[d].pc = "ready" /\ ~started
    /\ Batch(d, NoBatch)
    /\ UNCHANGED <<state, started, token, pull, sweep, reb, persist, stop, churn, settled>>
    /\ UNCHANGED broker

EpochCheck(d) ==
    /\ dispatch[d].pc = "check"
    /\ Batch(d, [dispatch[d] EXCEPT
           !.pc = IF dispatch[d].ep = state.epoch THEN "register" ELSE "done"])
    /\ UNCHANGED <<state, started, token, pull, sweep, reb, persist, stop, churn, settled>>
    /\ UNCHANGED broker

RegisterInflight(d) ==
    /\ dispatch[d].pc = "register"
    /\ state' = [state EXCEPT !.handed = @ \cup Offs(dispatch[d].batch)]
    /\ Batch(d, [dispatch[d] EXCEPT !.pc = "listen"])
    /\ UNCHANGED <<started, token, pull, sweep, reb, persist, stop, churn, settled>>
    /\ UNCHANGED broker

(* The listener accepts the first k messages; k = 0 for RECONSUME_LATER    *)
(* and for a listener that panics.                                         *)
Listen(d, k) ==
    /\ dispatch[d].pc = "listen" /\ k <= Len(dispatch[d].batch)
    /\ settled' = settled \cup Offs(SubSeq(dispatch[d].batch, 1, k))
    /\ Batch(d, [dispatch[d] EXCEPT
           !.pc = IF k = Len(dispatch[d].batch) THEN "advance" ELSE "back", !.i = k + 1])
    /\ UNCHANGED <<state, started, token, pull, sweep, reb, persist, stop, churn>>
    /\ UNCHANGED broker

(* send_back_batch, one message: skipped when the process queue does not   *)
(* hold it any more.                                                       *)
SendBack(d) ==
    /\ dispatch[d].pc = "back"
    /\ LET b == dispatch[d]
           o == b.batch[b.i].off
           next == [b EXCEPT !.pc = IF b.i = Len(b.batch) THEN "requeue" ELSE "back",
                             !.i = @ + 1]
       IN \/ o \notin Held(state) /\ Batch(d, next) /\ UNCHANGED settled
          \/ o \in Held(state) /\ Batch(d, next) /\ settled' = settled \cup {o}
          \/ /\ o \in Held(state) /\ "back" \in Fault
             /\ Batch(d, [next EXCEPT !.failed = @ \cup {o}]) /\ UNCHANGED settled
    /\ UNCHANGED <<state, started, token, pull, sweep, reb, persist, stop, churn>>
    /\ UNCHANGED broker

FailedEntries(b) ==
    [e \in DOMAIN SelectSeq(b.batch, LAMBDA x : x.off \in b.failed) |->
        [SelectSeq(b.batch, LAMBDA x : x.off \in b.failed)[e] EXCEPT !.stamped = TRUE]]

RequeueFailed(d) ==
    /\ dispatch[d].pc = "requeue"
    /\ state' = IF dispatch[d].failed = {} THEN state
                ELSE Requeue(state, FailedEntries(dispatch[d]))
    /\ Batch(d, [dispatch[d] EXCEPT !.pc = "advance"])
    /\ UNCHANGED <<started, token, pull, sweep, reb, persist, stop, churn, settled>>
    /\ UNCHANGED broker

AdvanceConsumeOffset(d) ==
    /\ dispatch[d].pc = "advance"
    /\ LET b == dispatch[d]
       IN state' = Advance(state, Offs(b.batch) \ b.failed, b.failed, b.ep)
    /\ Batch(d, [dispatch[d] EXCEPT !.pc = "deregister"])
    /\ UNCHANGED <<started, token, pull, sweep, reb, persist, stop, churn, settled>>
    /\ UNCHANGED broker

(* Faulty: a finished batch stays in the count of batches in flight.       *)
BatchStays(d) ==
    /\ dispatch[d].pc \in {"deregister", "done"}
    /\ state' = [state EXCEPT !.handed = IF dispatch[d].pc = "done" THEN @
                                         ELSE @ \ Offs(dispatch[d].batch)]
    /\ Batch(d, [NoBatch EXCEPT !.pc = "ready"])
    /\ UNCHANGED <<started, token, pull, sweep, reb, persist, stop, churn, settled>>
    /\ UNCHANGED broker
(* deregister_inflight_msgs, and the end of the dispatch round.            *)
BatchDone(d) ==
    /\ dispatch[d].pc \in {"deregister", "done"}
    /\ state' = [state EXCEPT !.inflight = Max({@ - 1, 0}),
                    !.handed = IF dispatch[d].pc = "done" THEN @
                               ELSE @ \ Offs(dispatch[d].batch)]
    /\ Batch(d, [NoBatch EXCEPT !.pc = "ready"])
    /\ UNCHANGED <<started, token, pull, sweep, reb, persist, stop, churn, settled>>
    /\ UNCHANGED broker

-----------------------------------------------------------------------------
(* clean_expired_queue: the head of the process queue, if it was given to  *)
(* the listener too long ago *)

HeadStamped(q, o) ==
    o \notin q.handed =>
        q.pending[Min({i \in DOMAIN q.pending : q.pending[i].off = o})].stamped

Sweep ==
    /\ "sweep" \in Fault /\ sweep = None /\ started /\ state.mapped /\ Held(state) # {}
    /\ HeadStamped(state, Min(Held(state)))
    /\ sweep' = Min(Held(state))
    /\ UNCHANGED <<state, started, token, pull, dispatch, reb, persist, stop, churn, settled>>
    /\ UNCHANGED broker

(* send_message_back, then remove_expired_entry_if_still_head.             *)
SweepSent ==
    /\ sweep # None
    /\ \/ "rpc" \in Fault /\ UNCHANGED <<state, settled>>
       \/ /\ settled' = settled \cup {sweep}
          /\ state' = IF Held(state) # {} /\ Min(Held(state)) = sweep
                        THEN Without(state, {sweep}) ELSE state
    /\ sweep' = None
    /\ UNCHANGED <<started, token, pull, dispatch, reb, persist, stop, churn>>
    /\ UNCHANGED broker

-----------------------------------------------------------------------------
(* persist_offsets_once; start, shutdown, and the end of the process *)

PersistSnapshot ==
    /\ persist = None /\ started /\ state.mapped /\ state.consumed # None
    /\ persist' = state.consumed
    /\ UNCHANGED <<state, started, token, pull, dispatch, sweep, reb, stop, churn, settled>>
    /\ UNCHANGED broker

PersistSent ==
    /\ persist # None
    /\ UpdateConsumerOffset(persist)
    /\ persist' = None
    /\ UNCHANGED <<state, started, token, pull, dispatch, sweep, reb, stop, churn, settled>>

(* The consumer is started, or started again with its stop signal cleared; *)
(* whether a restart finds it cleared is the question of InstanceLoops.    *)
Start ==
    /\ ~started /\ stop.pc = "down"
    /\ \E d \in Dispatcher : dispatch[d].pc = "none"
    /\ started' = TRUE
    /\ Batch(Min({d \in Dispatcher : dispatch[d].pc = "none"}), [NoBatch EXCEPT !.pc = "ready"])
    /\ stop' = [pc |-> "up", off |-> None]
    /\ UNCHANGED <<state, token, pull, sweep, reb, persist, churn, settled>>
    /\ UNCHANGED broker

(* Every task of the consumer but the dispatch loop is aborted; the round  *)
(* that ends a reset finds no client and fails.                            *)
Shutdown ==
    /\ "stop" \in Fault /\ started /\ churn < MaxChurn
    /\ churn' = churn + 1
    /\ started' = FALSE
    /\ state' = [state EXCEPT !.owner = None]
    /\ pull' = [t \in Token |-> NoPull]
    /\ sweep' = None
    /\ reb' = [r \in Rebalancer |->
                  IF r = "loop" \/ reb[r].pc = "begin" THEN NoRound ELSE reb[r]]
    /\ stop' = [pc |-> "drain", off |-> None]
    /\ UNCHANGED <<token, dispatch, persist, settled>>
    /\ UNCHANGED broker

(* shutdown_persist_items                                                  *)
FinalOffset ==
    IF ~state.mapped \/ state.consumed = None THEN None
    ELSE Min({state.consumed} \cup Held(state))

(* The dispatch loop has ended or SHUTDOWN_DRAIN_TIMEOUT has passed.       *)
ShutdownItems ==
    /\ stop.pc = "drain"
    /\ "timeout" \in Fault \/ \A d \in Dispatcher : dispatch[d].pc = "none"
    /\ stop' = [pc |-> "persist", off |-> FinalOffset]
    /\ UNCHANGED <<state, started, token, pull, dispatch, sweep, reb, persist, churn, settled>>
    /\ UNCHANGED broker

ShutdownPersist ==
    /\ stop.pc = "persist"
    /\ IF stop.off # None THEN UpdateConsumerOffset(stop.off) ELSE UNCHANGED broker
    /\ stop' = NoStop
    /\ UNCHANGED <<state, started, token, pull, dispatch, sweep, reb, persist, churn, settled>>

Crash ==
    /\ "crash" \in Fault /\ started
    /\ state' = Blank /\ started' = FALSE /\ token' = 1 /\ churn' = 0
    /\ pull' = [t \in Token |-> NoPull]
    /\ dispatch' = [d \in Dispatcher |-> NoBatch]
    /\ sweep' = None
    /\ reb' = [r \in Rebalancer |-> NoRound]
    /\ persist' = None /\ stop' = NoStop
    /\ UNCHANGED settled
    /\ UNCHANGED broker

-----------------------------------------------------------------------------
PullStep(t) ==
    \/ PullTop(t) \/ PullGivesUp(t) \/ Resolved(t) \/ PullAnswer(t)
    \/ OffsetIllegal(t) \/ IllegalRevoke(t) \/ IllegalForget(t)
RebalanceStep(r) ==
    \/ Rebalance(r) \/ RebalanceResolve(r) \/ RebalanceInsert(r)
    \/ Revoke(r) \/ RevokeForget(r) \/ Spawn(r)
DispatchStep(d) ==
    \/ Take(d) \/ DispatchEnds(d) \/ EpochCheck(d) \/ RegisterInflight(d)
    \/ \E k \in 0..ConsumeBatch : Listen(d, k)
    \/ SendBack(d) \/ RequeueFailed(d) \/ AdvanceConsumeOffset(d) \/ BatchDone(d)

Next ==
    \/ Produce \/ Expire
    \/ \E t \in Token : PullStep(t)
    \/ \E r \in Rebalancer : RebalanceStep(r)
    \/ \E o \in 0..MaxOff : ResetOffset(o)
    \/ \E d \in Dispatcher : DispatchStep(d)
    \/ Sweep \/ SweepSent \/ PersistSnapshot \/ PersistSent
    \/ Start \/ Shutdown \/ ShutdownItems \/ ShutdownPersist \/ Crash

Spec == Init /\ [][Next]_vars

-----------------------------------------------------------------------------
(* Fields of State and of the tasks hold what the code can put there.      *)
TypeOK ==
    /\ 0 <= minOff /\ minOff <= maxOff /\ maxOff <= MaxOff /\ committed \in None..MaxOff
    /\ state.cursor \in None..MaxOff /\ state.consumed \in None..MaxOff
    /\ \A i \in DOMAIN state.pending : state.pending[i] \in Entry
    /\ state.handed \subseteq Offset /\ state.inflight \in 0..Cardinality(Dispatcher)
    /\ state.owner \in Token \cup {None}
    /\ settled \subseteq Offset

(* The promise of AtLeastOnce: no save of the offset, by the timer, by a   *)
(* revocation, by an offset correction or by shutdown, passes a message    *)
(* the listener did not accept and that did not go back.                   *)
Promise == INSTANCE AtLeastOnce
PushKeeps == Promise!Spec

(* After any reset, revocation, restart or dead pull loop the queue ends   *)
(* up with an owner whose loop runs: two rebalance rounds and a loop that  *)
(* handles its own eviction do not take it from each other for ever.       *)
Recovers == <>[](state.owner # None /\ pull[state.owner].pc \in {"top", "resolved", "answer"})

(* The same promise as a state predicate, for runs in which it breaks: the *)
(* group would not resume past a message it still has to see.  A reset     *)
(* that was saved makes everything from its offset on such a message.      *)
NoSkip == Promise!Safe(committed)
=============================================================================
