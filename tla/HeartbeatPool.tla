--------------------------- MODULE HeartbeatPool ---------------------------
(***************************************************************************)
(* The concurrent heartbeat round (client/mq_client.rs): one job per       *)
(* broker goes to a pool of workers, and the round waits at a gate for one *)
(* permit of every job.  Rounds of several callers share the pool; the     *)
(* instance may be shut down and started again under them.                 *)
(***************************************************************************)
EXTENDS Naturals, Sequences, FiniteSets

CONSTANTS
    Round,     \* callers of send_heartbeat_concurrently
    Targets,   \* brokers of a round
    Worker,    \* concurrent_heartbeat_thread_pool_size workers
    MaxStarts  \* bound on start

PoolAssumption == {Targets, MaxStarts} \subseteq Nat \ {0}

None == "none"

VARIABLES
    pool,     \* heartbeat_pool is set
    starts,   \* pools made so far
    chan,     \* jobs in its channel, by the round they belong to
    work,     \* the job of every worker
    pc,       \* of every round
    permits,  \* of every round's gate
    ok        \* beats that succeeded

vars == <<pool, starts, chan, work, pc, permits, ok>>

Init ==
    /\ pool = FALSE /\ starts = 0 /\ chan = <<>> /\ work = [w \in Worker |-> None]
    /\ pc = [r \in Round |-> "idle"]
    /\ permits = [r \in Round |-> 0] /\ ok = [r \in Round |-> 0]

(* start: a new pool replaces the previous one.                            *)
Start ==
    /\ ~pool /\ starts < MaxStarts
    /\ pool' = TRUE /\ starts' = starts + 1
    /\ UNCHANGED <<chan, work, pc, permits, ok>>

(* shutdown_factory: the workers are aborted, and with them the channel    *)
(* and what it holds is dropped.  The last pool of the bound stays.        *)
Shutdown ==
    /\ pool /\ starts < MaxStarts
    /\ pool' = FALSE /\ chan' = <<>> /\ work' = [w \in Worker |-> None]
    /\ UNCHANGED <<starts, pc, permits, ok>>

(* Every job is submitted under the pool's lock; without a pool the round  *)
(* sends serially.                                                         *)
Submit(r) ==
    /\ pc[r] = "idle"
    /\ \/ /\ pool
          /\ chan' = chan \o [i \in 1..Targets |-> r]
          /\ pc' = [pc EXCEPT ![r] = "gate"]
          /\ UNCHANGED ok
       \/ /\ ~pool
          /\ \E n \in 0..Targets : ok' = [ok EXCEPT ![r] = n]
          /\ pc' = [pc EXCEPT ![r] = "done"]
          /\ UNCHANGED chan
    /\ UNCHANGED <<pool, starts, work, permits>>

TakeJob(w) ==
    /\ work[w] = None /\ chan # <<>>
    /\ work' = [work EXCEPT ![w] = Head(chan)] /\ chan' = Tail(chan)
    /\ UNCHANGED <<pool, starts, pc, permits, ok>>

(* The job: a beat that succeeds or fails, then a permit.                  *)
RunJob(w) ==
    /\ work[w] # None
    /\ LET r == work[w]
       IN  /\ \E good \in 0..1 : ok' = [ok EXCEPT ![r] = @ + good]
           /\ permits' = [permits EXCEPT ![r] = @ + 1]
    /\ work' = [work EXCEPT ![w] = None]
    /\ UNCHANGED <<pool, starts, chan, pc>>

(* Faulty: the round waits for one beat.                                   *)
PassEarly(r) ==
    /\ pc[r] = "gate" /\ permits[r] >= 1
    /\ pc' = [pc EXCEPT ![r] = "done"]
    /\ UNCHANGED <<pool, starts, chan, work, permits, ok>>
(* acquire_many *)
Pass(r) ==
    /\ pc[r] = "gate" /\ permits[r] >= Targets
    /\ pc' = [pc EXCEPT ![r] = "done"]
    /\ UNCHANGED <<pool, starts, chan, work, permits, ok>>

Work(w) == TakeJob(w) \/ RunJob(w)

Next ==
    \/ Start \/ Shutdown
    \/ \E r \in Round : Submit(r) \/ Pass(r)
    \/ \E w \in Worker : Work(w)

Spec == Init /\ [][Next]_vars

-----------------------------------------------------------------------------

(* Workers and channel belong to a pool that is open.                      *)
TypeOK ==
    /\ ok \in [Round -> 0..Targets] /\ permits \in [Round -> 0..Targets]
    /\ ~pool => chan = <<>> /\ \A w \in Worker : work[w] = None

Jobs(r) ==
    Cardinality({i \in DOMAIN chan : chan[i] = r}) + Cardinality({w \in Worker : work[w] = r})

(* A round passes its gate only when none of its jobs is left to change    *)
(* the count it returns.                                                   *)
AllCounted == \A r \in Round : pc[r] = "done" => Jobs(r) = 0

(* No round hangs at its gate.                                             *)
RoundEnds == \A r \in Round : pc[r] = "gate" ~> pc[r] = "done"
=============================================================================
