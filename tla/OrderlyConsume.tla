-------------------------- MODULE OrderlyConsume --------------------------
(***************************************************************************)
(* The members of a clustered group with an orderly listener, and one      *)
(* queue they may each be assigned (client/consumer.rs): every member asks *)
(* the broker for the queue's lock in rounds (lock_loop), pulls only under *)
(* a fresh grant, hands batches to its listener one at a time and retries  *)
(* a refused batch in place.                                               *)
(*                                                                         *)
(* Time is the age of grants, in ticks.  How a member takes the queue and  *)
(* rebuilds its pull loop is the subject of PushConsumer and one step      *)
(* here; giving it up is one step per RPC.                                 *)
(***************************************************************************)
EXTENDS Integers, Sequences, FiniteSetsExt

CONSTANTS
    Member,       \* the members of the group
    MaxOff,       \* messages of the queue
    PullBatch,    \* pull_batch_size
    ConsumeBatch, \* consume_message_batch_max_size
    Threshold,    \* pull_threshold_for_queue
    MaxTries,     \* orderly_max_reconsume_times
    LockLife,     \* REBALANCE_LOCK_MAX_LIVE_TIME at the client, in ticks
    BrokerLife,   \* the same at the broker, which keeps a lock longer
    LockPeriod,   \* ticks between two rounds of lock_loop
    RpcTicks,     \* ticks that may pass between a grant and its arrival
    MaxChurn,     \* bound on the number of revocations
    AutoCommit,   \* the values ConsumeOrderlyContext.auto_commit may have
    Fault         \* "unlock": the unlock RPC may fail, "rpc": the others may

BoundAssumption ==
    /\ {MaxOff, PullBatch, ConsumeBatch, Threshold, LockLife, LockPeriod} \subseteq Nat \ {0}
    /\ MaxTries \in Nat /\ MaxChurn \in Nat /\ AutoCommit \subseteq BOOLEAN
LifeAssumption == RpcTicks \in Nat /\ BrokerLife \in Nat /\ BrokerLife > LockLife + RpcTicks

None == -1
Offset == 0..MaxOff - 1
Old == LockLife + 1       \* an age at which a client's grant is not fresh
Lapsed == BrokerLife + 1  \* an age at which the broker gives the lock away

VARIABLES
    committed, \* the group's offset at the broker
    holder,    \* the broker's lock of the queue: who, and since how long
    state,     \* of every member: State, the part that is about this queue
    locker,    \* of every member: lock_loop
    pull,      \* of every member: requests of its pull loops, by generation
    work,      \* of every member: the batch dispatch_loop has taken
    revoke,    \* of every member: revoke_queues
    churn,     \* revocations so far
    settled,   \* history: messages a listener accepted or that went back
    open       \* history: those of them a listener has yet to commit

vars == <<committed, holder, state, locker, pull, work, revoke, churn, settled, open>>

Blank == [assigned |-> FALSE, epoch |-> 0, cursor |-> None, consumed |-> None,
          pending |-> <<>>, buffered |-> FALSE, grant |-> None]
NoWork == [pc |-> "ready", batch |-> <<>>, ep |-> 0]
NoRevoke == [pc |-> "none", off |-> None]

Init ==
    /\ committed = None
    /\ holder = [who |-> None, age |-> Lapsed]
    /\ state = [c \in Member |-> Blank]
    /\ locker = [c \in Member |-> [pc |-> "wait", left |-> 0]]
    /\ pull = [c \in Member |-> {}]
    /\ work = [c \in Member |-> NoWork]
    /\ revoke = [c \in Member |-> NoRevoke]
    /\ churn = 0 /\ settled = {} /\ open = {}

-----------------------------------------------------------------------------
(* Critical sections of State, as functions of it *)

Offs(s) == {s[i].off : i \in DOMAIN s}

(* retire_queue_locked                                                     *)
Retired(q) ==
    [q EXCEPT !.pending = <<>>, !.buffered = FALSE, !.grant = None, !.consumed = None,
              !.cursor = None, !.epoch = @ + 1]

(* Faulty: a batch to be retried goes to the end of the buffer.            *)
RequeueLast(q, batch) ==
    IF q.buffered THEN [q EXCEPT !.pending = @ \o batch] ELSE q
(* requeue_pending: no buffer, no effect.                                  *)
Requeue(q, batch) ==
    IF q.buffered THEN [q EXCEPT !.pending = batch \o @] ELSE q

(* advance_consume_offset                                                  *)
Advance(q, batch, ep) ==
    IF ep # q.epoch THEN q
    ELSE [q EXCEPT !.consumed = Max({@, Max(Offs(batch)) + 1})]

(* Faulty: a batch the listener holds does not hold the offset.            *)
CorrectTagsBusy(q, idle, next) ==
    IF q.pending = <<>> THEN [q EXCEPT !.consumed = Max({@, next})] ELSE q
(* correct_tags_offset_locked after an empty answer.                       *)
CorrectTags(q, idle, next) ==
    IF q.pending = <<>> /\ idle THEN [q EXCEPT !.consumed = Max({@, next})] ELSE q

Fresh(c) == state[c].grant # None /\ state[c].grant <= LockLife

-----------------------------------------------------------------------------
(* The broker *)

Locked(c) == holder.who = c /\ holder.age <= BrokerLife

(* LOCK_BATCH_MQ: the lock is free, lapsed or the caller's already.        *)
MayLock(c) == holder.who = c \/ holder.age > BrokerLife

(* UNLOCK_BATCH_MQ                                                         *)
Unlocked(c) == IF holder.who = c THEN [who |-> None, age |-> Lapsed] ELSE holder

UpdateConsumerOffset(off) ==
    \/ committed' = off
    \/ "rpc" \in Fault /\ UNCHANGED committed

-----------------------------------------------------------------------------
(* Rebalancing *)

Assign(c) ==
    /\ ~state[c].assigned /\ revoke[c].pc = "none"
    /\ state' = [state EXCEPT ![c].assigned = TRUE, ![c].cursor = Max({committed, 0})]
    /\ UNCHANGED <<committed, holder, locker, pull, work, revoke, churn, settled, open>>

Revoke(c) ==
    /\ state[c].assigned /\ churn < MaxChurn
    /\ churn' = churn + 1
    /\ state' = [state EXCEPT ![c] = [Retired(state[c]) EXCEPT !.assigned = FALSE]]
    /\ revoke' = [revoke EXCEPT ![c] = [pc |-> "persist", off |-> state[c].consumed]]
    /\ UNCHANGED <<committed, holder, locker, pull, work, settled, open>>

RevokePersist(c) ==
    /\ revoke[c].pc = "persist"
    /\ IF revoke[c].off # None THEN UpdateConsumerOffset(revoke[c].off)
       ELSE UNCHANGED committed
    /\ revoke' = [revoke EXCEPT ![c] = [NoRevoke EXCEPT !.pc = "unlock"]]
    /\ UNCHANGED <<holder, state, locker, pull, work, churn, settled, open>>

RevokeUnlock(c) ==
    /\ revoke[c].pc = "unlock"
    /\ \/ holder' = Unlocked(c)
       \/ "unlock" \in Fault /\ UNCHANGED holder
    /\ state' = [state EXCEPT ![c].consumed = None]
    /\ revoke' = [revoke EXCEPT ![c] = NoRevoke]
    /\ UNCHANGED <<committed, locker, pull, work, churn, settled, open>>

-----------------------------------------------------------------------------
(* lock_loop *)

Lock(c, rec) == locker' = [locker EXCEPT ![c] = rec]
NextRound == [pc |-> "wait", left |-> LockPeriod]

(* A round is due; without a queue it asks for nothing, and the request    *)
(* may not get through.  left is then the time the answer still has.       *)
LockRound(c) ==
    /\ locker[c].pc = "wait" /\ locker[c].left = 0
    /\ \/ /\ ~state[c].assigned \/ "rpc" \in Fault
          /\ Lock(c, NextRound) /\ UNCHANGED holder
       \/ /\ state[c].assigned /\ MayLock(c)
          /\ holder' = [who |-> c, age |-> 0]
          /\ Lock(c, [pc |-> "granted", left |-> RpcTicks])
       \/ /\ state[c].assigned /\ ~MayLock(c)
          /\ Lock(c, [pc |-> "denied", left |-> RpcTicks])
          /\ UNCHANGED holder
    /\ UNCHANGED <<committed, state, pull, work, revoke, churn, settled, open>>

(* Faulty: any answer counts as a grant.                                   *)
LockAnswerUnread(c) ==
    /\ locker[c].pc # "wait"
    /\ state' = [state EXCEPT ![c].grant = 0]
    /\ Lock(c, NextRound)
    /\ UNCHANGED <<committed, holder, pull, work, revoke, churn, settled, open>>
(* The answer replaces lock_ok and lock_at, whatever has happened since.   *)
LockAnswer(c) ==
    /\ locker[c].pc # "wait"
    /\ \/ state' = [state EXCEPT ![c].grant = IF locker[c].pc = "granted" THEN 0 ELSE None]
       \/ "rpc" \in Fault /\ UNCHANGED state
    /\ Lock(c, NextRound)
    /\ UNCHANGED <<committed, holder, pull, work, revoke, churn, settled, open>>

(* Time passes, but no further than an RPC or a due round allows.          *)
Tick ==
    /\ \A c \in Member : locker[c].left > 0
    /\ holder' = [holder EXCEPT !.age = Min({@ + 1, Lapsed})]
    /\ state' = [c \in Member |-> [state[c] EXCEPT
                    !.grant = IF @ = None THEN @ ELSE Min({@ + 1, Old})]]
    /\ locker' = [c \in Member |-> [locker[c] EXCEPT !.left = @ - 1]]
    /\ UNCHANGED <<committed, pull, work, revoke, churn, settled, open>>

-----------------------------------------------------------------------------
(* run_queue_pull_loop.  The request carries the generation as the token   *)
(* of its loop.                                                            *)

PullAsk(c) ==
    /\ state[c].assigned /\ state[c].epoch \notin pull[c]
    /\ Fresh(c) /\ Len(state[c].pending) <= Threshold
    /\ pull' = [pull EXCEPT ![c] = @ \cup {state[c].epoch}]
    /\ UNCHANGED <<committed, holder, state, locker, work, revoke, churn, settled, open>>

Fetched(from) == [i \in 1..Min({PullBatch, MaxOff - from}) |-> [off |-> from + i - 1, tries |-> 0]]

PullAnswer(c, ep) ==
    /\ ep \in pull[c]
    /\ LET q == state[c]
       IN state' = [state EXCEPT ![c] =
             IF ~q.assigned \/ ep # q.epoch THEN q
             ELSE IF q.cursor = MaxOff THEN CorrectTags(q, work[c].pc = "ready", q.cursor)
             ELSE [q EXCEPT !.pending = @ \o Fetched(q.cursor), !.buffered = TRUE,
                            !.cursor = Min({@ + PullBatch, MaxOff})]]
    /\ pull' = [pull EXCEPT ![c] = @ \ {ep}]
    /\ UNCHANGED <<committed, holder, locker, work, revoke, churn, settled, open>>

PullFails(c, ep) ==
    /\ "rpc" \in Fault /\ ep \in pull[c]
    /\ pull' = [pull EXCEPT ![c] = @ \ {ep}]
    /\ UNCHANGED <<committed, holder, state, locker, work, revoke, churn, settled, open>>

-----------------------------------------------------------------------------
(* dispatch_loop and the orderly branch of consume_batch *)

Take(c) ==
    /\ work[c].pc = "ready" /\ state[c].pending # <<>>
    /\ LET n == Min({Len(state[c].pending), ConsumeBatch})
       IN /\ work' = [work EXCEPT ![c] = [pc |-> "taken", ep |-> state[c].epoch,
                                          batch |-> SubSeq(state[c].pending, 1, n)]]
          /\ state' = [state EXCEPT ![c].pending = SubSeq(@, n + 1, Len(@))]
    /\ UNCHANGED <<committed, holder, locker, pull, revoke, churn, settled, open>>

(* Faulty: a batch of an earlier generation keeps its dispatcher.          *)
ListenCurrent(c) ==
    /\ work[c].pc = "taken" /\ work[c].ep = state[c].epoch
    /\ work' = [work EXCEPT ![c].pc = "listening"]
    /\ UNCHANGED <<committed, holder, state, locker, pull, revoke, churn, settled, open>>
(* A batch of an earlier generation is dropped.                            *)
Listen(c) ==
    /\ work[c].pc = "taken"
    /\ work' = [work EXCEPT ![c] =
           IF @.ep = state[c].epoch THEN [@ EXCEPT !.pc = "listening"] ELSE NoWork]
    /\ UNCHANGED <<committed, holder, state, locker, pull, revoke, churn, settled, open>>

Finish(c, q) ==
    /\ state' = [state EXCEPT ![c] = q]
    /\ work' = [work EXCEPT ![c] = NoWork]
    /\ UNCHANGED <<committed, holder, locker, pull, revoke, churn>>

(* SUCCESS, and with auto commit COMMIT and ROLLBACK too; COMMIT without.  *)
Commits(c, status, auto) ==
    /\ work[c].pc = "listening"
    /\ status = "commit" \/ (auto /\ status \in {"success", "rollback"})
    /\ settled' = settled \cup Offs(work[c].batch)
    /\ open' = {o \in open : o > Max(Offs(work[c].batch))}
    /\ Finish(c, Advance(state[c], work[c].batch, work[c].ep))

Rollback(c, auto) ==
    /\ work[c].pc = "listening" /\ ~auto
    /\ Finish(c, Requeue(state[c], work[c].batch))
    /\ UNCHANGED <<settled, open>>

(* Without auto commit SUCCESS leaves the offset to a later COMMIT.        *)
Uncommitted(c, auto) ==
    /\ work[c].pc = "listening" /\ ~auto
    /\ settled' = settled \cup Offs(work[c].batch)
    /\ open' = open \cup {o \in Offs(work[c].batch) : o >= committed}
    /\ Finish(c, state[c])

(* check_orderly_reconsume_times: who is out of tries may go back, and the *)
(* whole batch is retried when one message is left.                        *)
Spent(b) == {e \in Range(b) : e.tries >= MaxTries}
Tried(b, back) == [i \in DOMAIN b |-> [b[i] EXCEPT !.tries =
                       IF b[i] \in back THEN @ ELSE Min({@ + 1, MaxTries})]]

Suspend(c, auto, back) ==
    /\ work[c].pc = "listening"
    /\ back \subseteq Spent(work[c].batch)
    /\ "rpc" \in Fault \/ back = Spent(work[c].batch)
    /\ settled' = settled \cup {e.off : e \in back} /\ UNCHANGED open
    /\ LET b == work[c].batch
       IN Finish(c, IF back # Range(b) THEN Requeue(state[c], Tried(b, back))
                    ELSE IF auto THEN Advance(state[c], b, work[c].ep) ELSE state[c])

Suspends(c, auto) == \E back \in SUBSET Spent(work[c].batch) : Suspend(c, auto, back)

(* persist_offsets_once                                                    *)
Persist(c) ==
    /\ state[c].assigned /\ state[c].consumed \notin {None, committed}
    /\ UpdateConsumerOffset(state[c].consumed)
    /\ UNCHANGED <<holder, state, locker, pull, work, revoke, churn, settled, open>>

-----------------------------------------------------------------------------
ListenerStep(c) ==
    \E auto \in AutoCommit :
        \/ \E status \in {"success", "commit", "rollback"} : Commits(c, status, auto)
        \/ Rollback(c, auto) \/ Uncommitted(c, auto) \/ Suspends(c, auto)

(* The tasks of a member.                                                  *)
RevokeStep(c) == RevokePersist(c) \/ RevokeUnlock(c)
LockStep(c) == LockRound(c) \/ LockAnswer(c)
PullStep(c) == PullAsk(c) \/ \E ep \in 0..MaxChurn : PullAnswer(c, ep)
WorkStep(c) == Take(c) \/ Listen(c) \/ ListenerStep(c)

Next ==
    \/ Tick
    \/ \E c \in Member :
          \/ Assign(c) \/ Revoke(c) \/ RevokeStep(c)
          \/ LockStep(c) \/ PullStep(c) \/ \E ep \in 0..MaxChurn : PullFails(c, ep)
          \/ WorkStep(c) \/ Persist(c)

Spec == Init /\ [][Next]_vars

-----------------------------------------------------------------------------
(* Fields of State and of the tasks hold what the code can put there.      *)
TypeOK ==
    /\ committed \in None..MaxOff /\ holder.age \in 0..Lapsed
    /\ open \subseteq settled /\ settled \subseteq Offset
    /\ \A c \in Member :
          /\ state[c].grant \in None..Old /\ state[c].epoch \in 0..MaxChurn
          /\ state[c].cursor \in None..MaxOff /\ state[c].consumed \in None..MaxOff
          /\ state[c].assigned <=> state[c].cursor # None
          /\ Len(state[c].pending) <= Threshold + PullBatch + MaxChurn * ConsumeBatch + ConsumeBatch
          /\ locker[c].left \in 0..Max({LockPeriod, RpcTicks})

(* Orderly consumption: of a batch that is with a listener, even one whose *)
(* member has lost the queue meanwhile, every message before it has been   *)
(* accepted by a listener or went back to the broker, in spite of retries  *)
(* in place, failed RPCs and a queue that moved between members.           *)
InOrder ==
    \A c \in Member :
        work[c].pc = "listening" =>
            \A o \in Offset : o < Head(work[c].batch).off => o \in settled

(* The promise of AtLeastOnce for an orderly listener: no save of the      *)
(* offset passes a message that is still to be retried.                    *)
Promise == INSTANCE AtLeastOnce
OrderlyKeeps == Promise!Spec

(* The lock of lock_loop: while no member gives the queue up, a member     *)
(* whose grant is fresh holds the broker's lock, however many answers get  *)
(* lost and however late they come.                                        *)
GrantHeld == churn = 0 => \A c \in Member : Fresh(c) => Locked(c)

(* Once the group agrees on who has the queue, that member gets the lock   *)
(* from whoever had it, settles every message and saves the end of the     *)
(* queue.                                                                  *)
Agreed == \E c \in Member : \A d \in Member : state[d].assigned <=> d = c
CatchesUp == <>[]Agreed => <>[]Promise!Done

(* Said of ordered consumption: it is serialized per queue, so no two      *)
(* members have a message of the queue with their listeners.               *)
Serialized ==
    \A c, d \in Member : work[c].pc = "listening" /\ work[d].pc = "listening" => c = d

=============================================================================
