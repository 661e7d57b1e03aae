------------------------------ MODULE LitePull ------------------------------
(***************************************************************************)
(* The lite pull consumer (client/pull_consumer.rs): one background loop   *)
(* rebalances and pulls every held queue into a shared buffer, the         *)
(* application polls the buffer, commits, seeks, pauses and changes the    *)
(* set of queues from tasks of its own.                                    *)
(*                                                                         *)
(* LiteState and LiteBuffer have a lock each, so every operation that      *)
(* needs both is two steps; an RPC is a step of its own.  The deadlines of *)
(* parks and of the auto-commit pass at any moment.                        *)
(***************************************************************************)
EXTENDS Integers, Sequences, FiniteSetsExt, SequencesExt

CONSTANTS
    Queue,          \* queues of the topic, as numbers: the loop visits them in order
    MaxOff,         \* bound on the messages of a queue
    Backlog,        \* messages of a queue at the start
    Filtered,       \* offsets the client-side tag filter removes
    From,           \* consume_from_where: "first" or "last"
    AssignMode,     \* assign() rather than subscribe()
    AutoCommit,
    PullBatch,      \* pull_batch_size
    PollBatch,      \* MAX_POLL_BATCH_SIZE
    ThresholdAll,   \* pull_threshold_for_all
    ThresholdQueue, \* pull_threshold_for_queue
    MaxSpan,        \* consume_max_span
    Ops,            \* what the application does besides polling
    MaxOps,         \* bound on those operations
    OneThread,      \* the application polls and does them from one thread
    MaxChurn,       \* bound on changes of the allocation
    MaxStarts,      \* bound on restarts of the process
    Fault           \* "pull", "query", "persist", "crash"

BoundAssumption ==
    /\ Queue \subseteq Nat /\ IsFiniteSet(Queue) /\ Filtered \subseteq 0..MaxOff - 1
    /\ {PullBatch, PollBatch} \subseteq Nat \ {0}
    /\ {MaxOff, Backlog, ThresholdAll, ThresholdQueue, MaxSpan, MaxOps, MaxChurn, MaxStarts} \subseteq Nat
    /\ From \in {"first", "last"} /\ {AssignMode, AutoCommit, OneThread} \subseteq BOOLEAN

Offset == 0..MaxOff - 1
Absent == -1
Below(o) == {i \in Offset : i < o}

VARIABLES
    state,     \* LiteState
    buffer,    \* LiteBuffer
    loop,      \* pull_service_loop
    poll,      \* the task that calls poll()
    ctl,       \* the task that calls everything else
    com,       \* of either task: the commit it is in
    running,   \* whether the consumer is started
    tail,      \* of every queue: the messages the broker has
    committed, \* the broker's offset of the group, of every queue
    settled,   \* history: offsets handed out, filtered or skipped by a seek
    pinned,    \* history: the offset of a seek no pull has started from yet
    used       \* operations, allocations and starts so far

vars == <<state, buffer, loop, poll, ctl, com, running, tail, committed, settled, pinned, used>>

NoOffset == [q \in Queue |-> Absent]
NoCache == [count |-> 0, offsets |-> [o \in Offset |-> 0], rounds |-> <<>>]
NoLoop == [pc |-> "none", todo |-> {}, lost |-> {}, flush |-> {}, q |-> 0, off |-> Absent, msgs |-> <<>>]
NoPoll == [pc |-> "idle", got |-> <<>>, woken |-> FALSE, late |-> FALSE]
NoCtl == [pc |-> "idle", q |-> 0, off |-> Absent, lost |-> {}]
NoCom == [pc |-> "none", scope |-> {}, val |-> NoOffset, persist |-> TRUE]

FreshState ==
    [assigned |-> IF AssignMode THEN Queue ELSE {}, subscribed |-> TRUE,
     next |-> NoOffset, consume |-> NoOffset, table |-> NoOffset, seek |-> NoOffset,
     paused |-> {}, parks |-> {}, rebalanced |-> FALSE, due |-> FALSE]
(* start(): in assign mode the cursors are resolved before the loop runs.  *)
FreshLoop ==
    IF AssignMode THEN [NoLoop EXCEPT !.pc = "resolve", !.todo = Queue]
    ELSE [NoLoop EXCEPT !.pc = "top"]
FreshBuffer == [msgs |-> <<>>, cache |-> [q \in Queue |-> NoCache]]

Init ==
    /\ state = FreshState /\ buffer = FreshBuffer
    /\ loop = FreshLoop /\ poll = NoPoll /\ ctl = NoCtl
    /\ com = [t \in {"poll", "ctl"} |-> NoCom]
    /\ running = TRUE
    /\ tail = [q \in Queue |-> Backlog]
    /\ committed = NoOffset
    /\ settled = [q \in Queue |-> Filtered]
    /\ pinned = NoOffset
    /\ used = [ops |-> 0, churn |-> 0, starts |-> 0]

-----------------------------------------------------------------------------
(* LiteBuffer *)

(* LiteQueueCache::remove: a message leaves the oldest round.              *)
Uncached(c, off) ==
    [count |-> c.count - 1,
     offsets |-> [c.offsets EXCEPT ![off] = @ - 1],
     rounds |-> IF c.rounds = <<>> THEN <<>>
                ELSE IF Head(c.rounds) = 1 THEN Tail(c.rounds)
                ELSE <<Head(c.rounds) - 1>> \o Tail(c.rounds)]

UncacheAll(cache, rows) ==
    FoldLeft(LAMBDA c, r : [c EXCEPT ![r.q] = Uncached(@, r.off)], cache, rows)

(* extend: the rows of one pull, of one queue, are one round.              *)
Extended(b, q, rows) ==
    [msgs |-> b.msgs \o rows,
     cache |-> [b.cache EXCEPT ![q] =
        [count |-> @.count + Len(rows),
         offsets |-> FoldLeft(LAMBDA f, r : [f EXCEPT ![r.off] = @ + 1], @.offsets, rows),
         rounds |-> Append(@.rounds, Len(rows))]]]

(* drain_prefix                                                            *)
Drained(b, n) ==
    [msgs |-> SubSeq(b.msgs, n + 1, Len(b.msgs)),
     cache |-> UncacheAll(b.cache, SubSeq(b.msgs, 1, n))]

(* Faulty: messages a seek drops stay in the accumulators.                 *)
PrunedOnlyDeque(b, q, off) ==
    [b EXCEPT !.msgs = SelectSeq(@, LAMBDA r : ~(r.q = q /\ r.off < off))]
(* prune_before                                                            *)
Pruned(b, q, off) ==
    LET old(r) == r.q = q /\ r.off < off
    IN [msgs |-> SelectSeq(b.msgs, LAMBDA r : ~old(r)),
        cache |-> UncacheAll(b.cache, SelectSeq(b.msgs, old))]

(* revoke_queue, of every queue of lost                                    *)
Revoked(b, lost) ==
    [msgs |-> SelectSeq(b.msgs, LAMBDA r : r.q \notin lost),
     cache |-> [q \in Queue |-> IF q \in lost THEN NoCache ELSE b.cache[q]]]

Span(c) ==
    LET at == {o \in Offset : c.offsets[o] > 0}
    IN IF at = {} THEN 0 ELSE Max(at) - Min(at)

(* lite_cache_flow_control_hit; every body has the same size, so the size  *)
(* gate is a count gate.                                                   *)
FlowControlHit(q) ==
    LET c == buffer.cache[q]
        rounds == MapThenSumSet(LAMBDA p : Len(buffer.cache[p].rounds), Queue)
    IN \/ rounds * PullBatch > ThresholdAll
       \/ c.count > ThresholdQueue
       \/ c.count > 0 /\ Span(c) > MaxSpan

-----------------------------------------------------------------------------
(* The broker and the start of a queue *)

(* What a failed or unanswered query makes of the start: the policy of a   *)
(* group that never committed.                                             *)
PolicyStart(q) == IF From = "first" THEN 0 ELSE tail[q]

(* resolve_initial_offset: a seek, else the committed offset, else the     *)
(* policy.                                                                 *)
Starts(q) ==
    IF state.seek[q] # Absent THEN {state.seek[q]}
    ELSE {IF committed[q] # Absent THEN committed[q] ELSE PolicyStart(q)}
         \union IF "query" \in Fault THEN {PolicyStart(q)} ELSE {}

(* A group that never committed skips what its policy skips.               *)
SkipTo(q, o) ==
    settled' = IF committed[q] = Absent /\ state.seek[q] = Absent
               THEN [settled EXCEPT ![q] = @ \union Below(o)] ELSE settled

Produce(q) ==
    /\ tail[q] < MaxOff
    /\ tail' = [tail EXCEPT ![q] = @ + 1]
    /\ UNCHANGED <<state, buffer, loop, poll, ctl, com, running, committed, settled, pinned, used>>

Rows(q, o) ==
    [i \in 1..Min({PullBatch, tail[q] - o}) |-> [q |-> q, off |-> o + i - 1]]

-----------------------------------------------------------------------------
(* pull_service_loop: rebalancing *)

NextTarget(targets) ==
    IF targets = {} THEN [NoLoop EXCEPT !.pc = "top"]
    ELSE [NoLoop EXCEPT !.pc = "queue", !.todo = targets, !.q = Min(targets)]

Targets(s) == {q \in s.assigned : q \notin s.paused /\ q \notin s.parks}

(* A round without a rebalance visits the queues at once.                  *)
LoopTop ==
    /\ loop.pc = "top" /\ running
    /\ AssignMode \/ state.rebalanced
    /\ Targets(state) # {}
    /\ loop' = NextTarget(Targets(state))
    /\ UNCHANGED <<state, buffer, poll, ctl, com, running, committed, settled, pinned, used, tail>>

RebalanceRead ==
    /\ loop.pc = "top" /\ running /\ ~AssignMode
    /\ loop' = [NoLoop EXCEPT !.pc = IF state.subscribed THEN "allocate" ELSE "leave"]
    /\ UNCHANGED <<state, buffer, poll, ctl, com, running, committed, settled, pinned, used, tail>>

Without(f, lost) == [q \in Queue |-> IF q \in lost THEN Absent ELSE f[q]]

(* The cursors of the queues of lost, gone in one step.                    *)
Released(s, lost) ==
    [s EXCEPT !.next = Without(@, lost), !.consume = Without(@, lost),
              !.seek = Without(@, lost), !.parks = @ \ lost]

(* rebalance: what the strategy answers may be any set of queues.          *)
RebalanceApply(alloc) ==
    /\ loop.pc = "allocate" \/ (loop.pc = "leave" /\ alloc = {})
    /\ running
    /\ (loop.pc = "allocate" /\ alloc # state.assigned) => used.churn < MaxChurn
    /\ used' = [used EXCEPT !.churn = IF loop.pc = "allocate" /\ alloc # state.assigned
                                      THEN @ + 1 ELSE @]
    /\ LET removed == state.assigned \ alloc
       IN /\ state' = [Released(state, removed) EXCEPT !.assigned = alloc]
          /\ pinned' = Without(pinned, removed)
          /\ loop' = [NoLoop EXCEPT !.pc = "revoke", !.todo = alloc \ state.assigned,
                                    !.lost = removed,
                                    !.flush = {q \in removed : state.table[q] # Absent}]
    /\ UNCHANGED <<buffer, poll, ctl, com, running, committed, settled, tail>>

RebalanceRevoke ==
    /\ loop.pc = "revoke"
    /\ buffer' = Revoked(buffer, loop.lost)
    /\ loop' = [loop EXCEPT !.pc = "persist", !.lost = loop.flush]
    /\ UNCHANGED <<state, poll, ctl, com, running, committed, settled, pinned, used, tail>>

Stored(q, o) ==
    \/ committed' = [committed EXCEPT ![q] = o]
    \/ "persist" \in Fault /\ UNCHANGED committed

(* persist_offset, of the offset the table holds now                       *)
RebalancePersist(q) ==
    /\ loop.pc = "persist" /\ running /\ loop.flush # {} /\ q = Min(loop.flush)
    /\ IF state.table[q] # Absent THEN Stored(q, state.table[q]) ELSE UNCHANGED committed
    /\ loop' = [loop EXCEPT !.flush = @ \ {q}]
    /\ UNCHANGED <<state, buffer, poll, ctl, com, running, settled, pinned, used, tail>>

RebalanceForget ==
    /\ loop.pc = "persist" /\ running /\ loop.flush = {}
    /\ state' = [state EXCEPT !.table = Without(@, loop.lost), !.rebalanced = TRUE]
    /\ loop' = [loop EXCEPT !.pc = "resolve", !.lost = {}]
    /\ UNCHANGED <<buffer, poll, ctl, com, running, committed, settled, pinned, used, tail>>

(* resolve_offsets_for: queues that have a cursor keep it.                 *)
ResolveQuery ==
    /\ loop.pc = "resolve" /\ running
    /\ LET open == {q \in loop.todo : state.next[q] = Absent}
       IN IF open = {} THEN loop' = NextTarget(Targets(state))
          ELSE \/ \E o \in Starts(Min(open)) :
                     loop' = [loop EXCEPT !.pc = "resolved", !.q = Min(open), !.off = o]
               \/ /\ "query" \in Fault /\ From = "last"
                  /\ loop' = [loop EXCEPT !.todo = @ \ {Min(open)}]
    /\ UNCHANGED <<state, buffer, poll, ctl, com, running, committed, settled, pinned, used, tail>>

ResolveInsert ==
    /\ loop.pc = "resolved" /\ running
    /\ state' = [state EXCEPT !.next[loop.q] = loop.off]
    /\ SkipTo(loop.q, loop.off)
    /\ loop' = [loop EXCEPT !.pc = "resolve", !.todo = @ \ {loop.q}, !.q = 0, !.off = Absent]
    /\ UNCHANGED <<buffer, poll, ctl, com, running, committed, pinned, used, tail>>

-----------------------------------------------------------------------------
(* pull_service_loop: pull_one *)

QueueDone == loop' = NextTarget(loop.todo \ {loop.q})

Parked(s, q) == [s EXCEPT !.parks = @ \union {q}]

PullTop ==
    /\ loop.pc = "queue" /\ running
    /\ LET q == loop.q
       IN IF FlowControlHit(q)
          THEN state' = Parked(state, q) /\ QueueDone
          ELSE /\ IF state.next[q] # Absent
                  THEN loop' = [loop EXCEPT !.pc = "pull", !.off = state.next[q]]
                  ELSE \/ \E o \in Starts(q) :
                             loop' = [loop EXCEPT !.pc = "insert", !.off = o]
                       \/ "query" \in Fault /\ From = "last" /\ QueueDone
               /\ UNCHANGED state
    /\ UNCHANGED <<buffer, poll, ctl, com, running, committed, settled, pinned, used, tail>>

PullInsert ==
    /\ loop.pc = "insert" /\ running
    /\ state' = [state EXCEPT !.next[loop.q] = loop.off]
    /\ SkipTo(loop.q, loop.off)
    /\ loop' = [loop EXCEPT !.pc = "pull"]
    /\ UNCHANGED <<buffer, poll, ctl, com, running, committed, pinned, used, tail>>

(* The cursor is still the offset the request was built on.                *)
Intact == state.next[loop.q] = loop.off

(* client_side_tag_filter                                                  *)
Kept(rows) == SelectSeq(rows, LAMBDA r : r.off \notin Filtered)

PullAnswer ==
    /\ loop.pc = "pull" /\ running
    /\ LET q == loop.q
           rows == Rows(q, loop.off)
       IN /\ state' = IF Intact THEN [state EXCEPT !.next[q] = loop.off + Len(rows)] ELSE state
          /\ pinned' = IF loop.off = pinned[q] THEN [pinned EXCEPT ![q] = Absent] ELSE pinned
          /\ IF Intact /\ Kept(rows) # <<>>
             THEN loop' = [loop EXCEPT !.pc = "enqueue", !.off = Absent, !.msgs = Kept(rows)]
             ELSE QueueDone
    /\ UNCHANGED <<buffer, poll, ctl, com, running, committed, settled, used, tail>>

(* A failed pull, and FLOW_CONTROL, which parks the queue.                 *)
PullFails ==
    /\ loop.pc = "pull" /\ running /\ "pull" \in Fault
    /\ \/ UNCHANGED state
       \/ state' = Parked(state, loop.q)
    /\ QueueDone
    /\ UNCHANGED <<buffer, poll, ctl, com, running, committed, settled, pinned, used, tail>>

(* notify_waiters                                                          *)
Woken(p) == IF p.pc = "wait" THEN [p EXCEPT !.woken = TRUE] ELSE p

Enqueue ==
    /\ loop.pc = "enqueue"
    /\ buffer' = Extended(buffer, loop.q, loop.msgs)
    /\ poll' = Woken(poll)
    /\ QueueDone
    /\ UNCHANGED <<state, ctl, com, running, committed, settled, pinned, used, tail>>

(* The deadline of a park passes.                                          *)
Unpark(q) ==
    /\ q \in state.parks
    /\ state' = [state EXCEPT !.parks = @ \ {q}]
    /\ UNCHANGED <<buffer, loop, poll, ctl, com, running, committed, settled, pinned, used, tail>>

(* The task is aborted where it awaits.                                    *)
LoopAborted ==
    /\ ~running /\ loop.pc \notin {"none", "revoke", "enqueue"}
    /\ loop' = NoLoop
    /\ UNCHANGED <<state, buffer, poll, ctl, com, running, committed, settled, pinned, used, tail>>

-----------------------------------------------------------------------------
(* poll *)

AutoCommitDue ==
    /\ AutoCommit /\ running /\ ~state.due
    /\ state' = [state EXCEPT !.due = TRUE]
    /\ UNCHANGED <<buffer, loop, poll, ctl, com, running, committed, settled, pinned, used, tail>>

PollStart ==
    /\ poll.pc = "idle" /\ running
    /\ OneThread => ctl.pc = "idle"
    /\ IF AutoCommit /\ state.due
       THEN /\ poll' = [NoPoll EXCEPT !.pc = "commit"]
            /\ com' = [com EXCEPT !["poll"].pc = "read"]
            /\ state' = [state EXCEPT !.due = FALSE]
       ELSE poll' = [NoPoll EXCEPT !.pc = "check"] /\ UNCHANGED <<com, state>>
    /\ UNCHANGED <<buffer, loop, ctl, running, committed, settled, pinned, used, tail>>

PollCommitted ==
    /\ poll.pc = "commit" /\ com["poll"].pc = "none"
    /\ poll' = [NoPoll EXCEPT !.pc = "check"]
    /\ UNCHANGED <<state, buffer, loop, ctl, com, running, committed, settled, pinned, used, tail>>

HandedOut(rows) ==
    [q \in Queue |-> settled[q] \union {r.off : r \in {x \in ToSet(rows) : x.q = q}}]

(* try_drain, the wakeup armed first                                       *)
PollCheck ==
    /\ poll.pc = "check"
    /\ LET n == Min({PollBatch, Len(buffer.msgs)})
           rows == SubSeq(buffer.msgs, 1, n)
       IN IF n = 0
          THEN /\ poll' = IF poll.late THEN NoPoll ELSE [NoPoll EXCEPT !.pc = "wait"]
               /\ UNCHANGED <<buffer, settled>>
          ELSE /\ poll' = [NoPoll EXCEPT !.pc = "advance", !.got = rows]
               /\ buffer' = Drained(buffer, n)
               /\ settled' = HandedOut(rows)
    /\ UNCHANGED <<state, loop, ctl, com, running, committed, pinned, used, tail>>

Consumed(q, rows) == Max({state.consume[q]} \union {r.off + 1 : r \in rows})

(* advance_consume_offset, of the queues held with a cursor                *)
PollAdvance ==
    /\ poll.pc = "advance"
    /\ state' = [state EXCEPT !.consume = [q \in Queue |->
          IF q \in state.assigned /\ state.next[q] # Absent
          THEN Consumed(q, {r \in ToSet(poll.got) : r.q = q})
          ELSE @[q]]]
    /\ poll' = NoPoll
    /\ UNCHANGED <<buffer, loop, ctl, com, running, committed, settled, pinned, used, tail>>

(* Woken or out of time, poll looks at the buffer once more.               *)
PollWakes ==
    /\ poll.pc = "wait"
    /\ \E late \in {~poll.woken, TRUE} : poll' = [NoPoll EXCEPT !.pc = "check", !.late = late]
    /\ UNCHANGED <<state, buffer, loop, ctl, com, running, committed, settled, pinned, used, tail>>

-----------------------------------------------------------------------------
(* commit, commit_queues *)

CommitRead(t) ==
    /\ com[t].pc = "read"
    /\ LET scope == IF t = "poll" THEN state.assigned ELSE {ctl.q}
       IN com' = [com EXCEPT ![t].pc = "write", ![t].scope = scope,
                             ![t].val = [q \in Queue |-> IF q \in scope THEN state.consume[q]
                                                         ELSE Absent]]
    /\ UNCHANGED <<state, buffer, loop, poll, ctl, running, committed, settled, pinned, used, tail>>

(* Faulty: a commit writes the pull cursor.                                *)
CommitWritePulled(t) ==
    /\ com[t].pc = "write"
    /\ state' = [state EXCEPT !.table = [q \in Queue |->
          IF com[t].val[q] # Absent /\ q \in state.assigned THEN state.next[q] ELSE @[q]]]
    /\ com' = [com EXCEPT ![t] = IF @.persist THEN [@ EXCEPT !.pc = "flush"] ELSE NoCom]
    /\ UNCHANGED <<buffer, loop, poll, ctl, running, committed, settled, pinned, used, tail>>
(* commit_targets                                                          *)
CommitWrite(t) ==
    /\ com[t].pc = "write"
    /\ state' = [state EXCEPT !.table = [q \in Queue |->
          IF com[t].val[q] # Absent /\ q \in state.assigned THEN com[t].val[q] ELSE @[q]]]
    /\ com' = [com EXCEPT ![t] = IF @.persist THEN [@ EXCEPT !.pc = "flush"] ELSE NoCom]
    /\ UNCHANGED <<buffer, loop, poll, ctl, running, committed, settled, pinned, used, tail>>

(* persist_offset_table: entries outside the scope are dropped.            *)
CommitFlush(t) ==
    /\ com[t].pc = "flush"
    /\ LET scope == com[t].scope
           send == {q \in scope \intersect state.assigned : state.table[q] # Absent}
       IN /\ state' = IF scope = {} THEN state
                      ELSE [state EXCEPT !.table = Without(@, Queue \ scope)]
          /\ com' = [com EXCEPT ![t] = IF send = {} THEN NoCom
                       ELSE [@ EXCEPT !.pc = "send", !.scope = send,
                                      !.val = Without(state.table, Queue \ send)]]
    /\ UNCHANGED <<buffer, loop, poll, ctl, running, committed, settled, pinned, used, tail>>

CommitSend(t) ==
    /\ com[t].pc = "send"
    /\ LET q == Min(com[t].scope)
       IN /\ Stored(q, com[t].val[q])
          /\ com' = [com EXCEPT ![t] = IF @.scope = {q} THEN NoCom
                       ELSE [@ EXCEPT !.scope = @ \ {q}, !.val[q] = Absent]]
    /\ UNCHANGED <<state, buffer, loop, poll, ctl, running, settled, pinned, used, tail>>

-----------------------------------------------------------------------------
(* What else the application does *)

Begins(op) ==
    /\ op \in Ops /\ running /\ ctl.pc = "idle" /\ used.ops < MaxOps
    /\ OneThread => poll.pc = "idle"
    /\ used' = [used EXCEPT !.ops = @ + 1]

SeekBegin(q, o) ==
    /\ Begins("seek")
    /\ q \in state.assigned /\ (state.next[q] = Absent => "early" \in Ops)
    /\ ctl' = [NoCtl EXCEPT !.pc = "seek", !.q = q, !.off = o]
    /\ UNCHANGED <<state, buffer, loop, poll, com, running, committed, settled, pinned, tail>>

(* apply_seek, after the broker gave the range.  Without "rewind" an       *)
(* application only skips messages.                                        *)
SeekApply ==
    /\ ctl.pc = "seek"
    /\ LET q == ctl.q
           o == ctl.off
           want == Below(o) \union Filtered
       IN /\ settled[q] \subseteq want \/ "rewind" \in Ops
          /\ state' = [state EXCEPT !.seek[q] = o, !.next[q] = o, !.consume[q] = o]
          /\ settled' = [settled EXCEPT ![q] = want]
          /\ pinned' = [pinned EXCEPT ![q] = o]
    /\ ctl' = [ctl EXCEPT !.pc = "prune"]
    /\ UNCHANGED <<buffer, loop, poll, com, running, committed, used, tail>>

SeekPrune ==
    /\ ctl.pc = "prune"
    /\ buffer' = Pruned(buffer, ctl.q, ctl.off)
    /\ ctl' = NoCtl
    /\ UNCHANGED <<state, loop, poll, com, running, committed, settled, pinned, used, tail>>

(* The state half of assign and of unsubscribe                             *)
Leaves(lost, held) ==
    /\ state' = [Released(state, lost) EXCEPT !.assigned = held, !.paused = @ \ lost,
                                              !.subscribed = held # {} /\ @]
    /\ pinned' = Without(pinned, lost)
    /\ ctl' = IF lost = {} THEN NoCtl ELSE [NoCtl EXCEPT !.pc = "revoke", !.lost = lost]

Assign(S) ==
    /\ Begins("assign") /\ AssignMode /\ S # {}
    /\ Leaves(state.assigned \ S, S)
    /\ UNCHANGED <<buffer, loop, poll, com, running, committed, settled, tail>>

Unsubscribe ==
    /\ Begins("unsubscribe") /\ ~AssignMode
    /\ Leaves(state.assigned, {})
    /\ UNCHANGED <<buffer, loop, poll, com, running, committed, settled, tail>>

CtlRevoke ==
    /\ ctl.pc = "revoke"
    /\ buffer' = Revoked(buffer, ctl.lost)
    /\ ctl' = NoCtl
    /\ UNCHANGED <<state, loop, poll, com, running, committed, settled, pinned, used, tail>>

Subscribe ==
    /\ Begins("unsubscribe") /\ ~state.subscribed
    /\ state' = [state EXCEPT !.subscribed = TRUE]
    /\ UNCHANGED <<buffer, loop, poll, ctl, com, running, committed, settled, pinned, tail>>

Pause(q) ==
    /\ Begins("pause")
    /\ state' = [state EXCEPT !.paused = @ \union {q}]
    /\ UNCHANGED <<buffer, loop, poll, ctl, com, running, committed, settled, pinned, tail>>

Resume(q) ==
    /\ Begins("pause") /\ q \in state.paused
    /\ state' = [state EXCEPT !.paused = @ \ {q}]
    /\ UNCHANGED <<buffer, loop, poll, ctl, com, running, committed, settled, pinned, tail>>

CommitQueue(q, persist) ==
    /\ Begins("commit")
    /\ ctl' = [NoCtl EXCEPT !.pc = "commit", !.q = q]
    /\ com' = [com EXCEPT !["ctl"] = [NoCom EXCEPT !.pc = "read", !.persist = persist]]
    /\ UNCHANGED <<state, buffer, loop, poll, running, committed, settled, pinned, tail>>

CtlCommitted ==
    /\ ctl.pc = "commit" /\ com["ctl"].pc = "none"
    /\ ctl' = NoCtl
    /\ UNCHANGED <<state, buffer, loop, poll, com, running, committed, settled, pinned, used, tail>>

(* What shutdown puts into the table for a queue it holds.                 *)
Final(q) == IF state.consume[q] = Absent THEN state.table[q] ELSE state.consume[q]

(* shutdown: the loop is aborted, pollers are woken, the table is flushed. *)
Shutdown ==
    /\ Begins("shutdown")
    /\ running' = FALSE
    /\ poll' = Woken(poll)
    /\ state' = IF AutoCommit
                THEN [state EXCEPT !.table = [q \in Queue |->
                        IF q \in state.assigned THEN Final(q) ELSE @[q]]]
                ELSE state
    /\ com' = [com EXCEPT !["ctl"] = [NoCom EXCEPT !.pc = "flush", !.scope = state.assigned]]
    /\ ctl' = [NoCtl EXCEPT !.pc = "closing"]
    /\ UNCHANGED <<buffer, loop, committed, settled, pinned, tail>>

(* The process ends, after a shutdown or by a crash, and starts again.     *)
Restart ==
    /\ \/ ctl.pc = "closing" /\ com["ctl"].pc = "none"
       \/ "crash" \in Fault
    /\ used.starts < MaxStarts
    /\ used' = [used EXCEPT !.starts = @ + 1]
    /\ state' = FreshState /\ buffer' = FreshBuffer
    /\ loop' = FreshLoop /\ poll' = NoPoll /\ ctl' = NoCtl
    /\ com' = [t \in {"poll", "ctl"} |-> NoCom]
    /\ running' = TRUE /\ pinned' = NoOffset
    /\ UNCHANGED <<committed, settled, tail>>

-----------------------------------------------------------------------------
LoopStep ==
    \/ LoopTop \/ RebalanceRead \/ RebalanceRevoke \/ RebalanceForget
    \/ ResolveQuery \/ ResolveInsert \/ PullTop \/ PullInsert \/ PullAnswer \/ PullFails
    \/ Enqueue \/ LoopAborted
    \/ \E alloc \in SUBSET Queue : RebalanceApply(alloc)
    \/ \E q \in Queue : RebalancePersist(q)

ComSteps(t) == CommitRead(t) \/ CommitWrite(t) \/ CommitFlush(t) \/ CommitSend(t)

PollStep ==
    PollStart \/ PollCommitted \/ PollCheck \/ PollAdvance \/ PollWakes \/ ComSteps("poll")

CtlStep == SeekApply \/ SeekPrune \/ CtlRevoke \/ CtlCommitted \/ ComSteps("ctl")

Timer == AutoCommitDue \/ \E q \in Queue : Unpark(q)

Op ==
    \/ Unsubscribe \/ Subscribe \/ Shutdown
    \/ \E S \in SUBSET Queue : Assign(S)
    \/ \E q \in Queue : Pause(q) \/ Resume(q) \/ \E p \in BOOLEAN : CommitQueue(q, p)
    \/ \E q \in Queue : \E o \in 0..tail[q] : SeekBegin(q, o)

Broker == \E q \in Queue : Produce(q)

Next == Broker \/ LoopStep \/ PollStep \/ CtlStep \/ Timer \/ Op \/ Restart

Spec == Init /\ [][Next]_vars

-----------------------------------------------------------------------------
(* Properties *)

Held == {r.q : r \in ToSet(buffer.msgs)}

TypeOK ==
    /\ state.assigned \subseteq Queue /\ state.paused \subseteq Queue
    /\ \A f \in {state.next, state.consume, state.table, state.seek, committed, pinned} :
          f \in [Queue -> -1..MaxOff]
    /\ loop.pc \in {"none", "top", "allocate", "leave", "revoke", "persist", "resolve",
                    "resolved", "queue", "insert", "pull", "enqueue"}
    /\ poll.pc \in {"idle", "commit", "check", "wait", "advance"}
    /\ ctl.pc \in {"idle", "seek", "prune", "revoke", "commit", "closing"}
    /\ \A t \in DOMAIN com : com[t].pc \in {"none", "read", "write", "flush", "send"}
    /\ settled \in [Queue -> SUBSET Offset] /\ tail \in [Queue -> 0..MaxOff]

(* The accumulators the flow-control gates read agree with the buffer:     *)
(* every message is counted once, at its offset, in some pending round     *)
(* (LiteBuffer keeps the two in step through pulls, polls, seeks and       *)
(* revoked queues).                                                        *)
CacheExact ==
    \A q \in Queue :
        LET rows == SelectSeq(buffer.msgs, LAMBDA r : r.q = q)
            c == buffer.cache[q]
        IN /\ c.count = Len(rows)
           /\ \A o \in Offset : c.offsets[o] = Len(SelectSeq(rows, LAMBDA r : r.off = o))
           /\ FoldLeft(LAMBDA a, b : a + b, 0, c.rounds) = c.count
           /\ 0 \notin ToSet(c.rounds)

(* What is cached is at most one pull beyond the thresholds, over all      *)
(* queues and for each (lite_cache_flow_control_hit before every pull).    *)
CacheBounded ==
    /\ Len(buffer.msgs) <= ThresholdAll + PullBatch
    /\ \A q \in Queue : Len(SelectSeq(buffer.msgs, LAMBDA r : r.q = q)) <= ThresholdQueue + PullBatch

(* The consumed cursor never passes a message the application still has to *)
(* get: "messages sitting undelivered in the local buffer are not          *)
(* consumed, and committing them early" loses them (commit).               *)
CursorSafe ==
    \A q \in Queue : Below(state.consume[q]) \subseteq settled[q]

(* Of every queue, the offset kept for the group never passes a message    *)
(* nobody got: across polls, commits, skipping seeks, rebalances, failed   *)
(* RPCs and restarts the consumer keeps the promise of AtLeastOnce.        *)
Promise(q) == INSTANCE AtLeastOnce WITH settled <- settled[q], committed <- committed[q]
PromiseStep == \A q \in Queue : [Promise(q)!Next]_<<settled[q], committed[q]>>

(* A message in the buffer belongs to a queue this consumer holds, or to   *)
(* one whose revocation is about to remove it: "A pull round that is       *)
(* already in flight cannot smuggle a revoked queue back in"               *)
(* (revoke_queue).                                                         *)
OnlyHeld ==
    Held \subseteq state.assigned
        \union (IF loop.pc = "revoke" THEN loop.lost ELSE {})
        \union (IF ctl.pc = "revoke" THEN ctl.lost ELSE {})

(* The pull after a seek starts where the seek said: offsets "pinned by    *)
(* seek()" take precedence over every other start (LiteState).             *)
SeekPinned == \A q \in Queue : pinned[q] # Absent => state.next[q] = pinned[q]

(* poll() does not sleep while there is something to hand out: the wakeup  *)
(* is armed before the buffer is looked at.                                *)
WaiterWoken == poll.pc = "wait" /\ ~poll.woken => buffer.msgs = <<>>

(* A queue that stays held and is not paused is handed out to the last     *)
(* message, and the auto-commit brings the group's offset to its end.      *)
CatchesUp ==
    \A q \in Queue :
        <>[](q \in state.assigned /\ q \notin state.paused)
            => <>[](settled[q] = Below(tail[q]) /\ committed[q] = tail[q])
=============================================================================
