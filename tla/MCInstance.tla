----------------------------- MODULE MCInstance -----------------------------
(***************************************************************************)
(* What the facades of one process share and what keeps the instance known *)
(* to the brokers: the registry of instances, the loops of an instance, the *)
(* heartbeats and their pool, and the division of a topic's queues in a    *)
(* group.  They share no state here, so one of them runs in a behaviour:   *)
(* part says which one, and with which constants.  The others stay as they *)
(* started.                                                                *)
(***************************************************************************)
EXTENDS GroupRebalance, TLC

CONSTANTS
    Parts  \* the parts that may run

VARIABLES
    part,   \* the component, or the instance of it, that runs
    \* InstanceRegistry
    map, made, running, tenants, regStarted, client, regPc, held, tail,
    \* InstanceLoops
    loopsStarted, stop, tasks, loop, call, shutdowns,
    \* Heartbeat
    version, actual, cached, beaten, support, prints, reg, ever, hbRound, hbChurn, hbLost,
    \* HeartbeatPool
    pool, starts, chan, work, poolPc, permits, ok

(* Client 13 is in a room without queues, queues 3 and 4 are in a room     *)
(* without consumers when 12 is away.                                      *)
MCRoom ==
    [x \in 1..4 \cup 11..13 |->
        CASE x \in {1, 2, 11} -> "r1"
          [] x \in {3, 4, 12} -> "r2"
          [] x = 13 -> "r3"]
(* The resolver does not know queue 3.                                     *)
MCRoomUnknown == [MCRoom EXCEPT ![3] = ""]
MCHash == [q \in 1..4 |-> CASE q = 1 -> 5 [] q = 2 -> 20 [] q = 3 -> 35 [] q = 4 -> 50]
(* Clients 11 and 12 collide at 30.                                        *)
MCVirtual ==
    [c \in 11..13 |-> CASE c = 11 -> <<10, 30>> [] c = 12 -> <<30, 40>> [] c = 13 -> <<15>>]
MCStrategies == {"AVG", "AVG_BY_CIRCLE", "MACHINE_ROOM", "CONSISTENT_HASH", "MACHINE_ROOM_NEARBY"}

(* The facades of one client id.                                           *)
Mixed == (1 :> "producer") @@ (2 :> "push") @@ (3 :> "pull") @@ (4 :> "pull")
Senders == (1 :> "producer") @@ (2 :> "push") @@ (3 :> "producer")
Admins == (1 :> "producer") @@ (2 :> "admin") @@ (3 :> "push")

-----------------------------------------------------------------------------
(* Consumers that stay, in rooms that are known, or not all known.         *)
GroupStatic == INSTANCE GroupRebalance WITH Room <- MCRoom, Idcs <- {"r1", "r2"},
    HashOf <- MCHash, Virtual <- MCVirtual, Queue <- 1..4, Client <- 11..13,
    Strategies <- MCStrategies, MaxChurn <- 0, MaxLost <- 0
GroupUnknown == INSTANCE GroupRebalance WITH Room <- MCRoomUnknown, Idcs <- {"r1", "r2"},
    HashOf <- MCHash, Virtual <- MCVirtual, Queue <- {1, 2, 3}, Client <- {11, 12},
    Strategies <- MCStrategies, MaxChurn <- 0, MaxLost <- 0

-----------------------------------------------------------------------------
(* A producer, a push consumer and two pull consumers.                     *)
Registry == INSTANCE InstanceRegistry WITH Facade <- 1..4, Kind <- Mixed, MaxInst <- 6,
    Waits <- TRUE, Overlap <- {}, started <- regStarted, pc <- regPc
ASSUME Registry!KindAssumption /\ Registry!ModeAssumption
(* Shutdowns that do not wait for their finalizing tasks.                  *)
Detached == INSTANCE InstanceRegistry WITH Facade <- 1..3, Kind <- Senders, MaxInst <- 3,
    Waits <- FALSE, Overlap <- {}, started <- regStarted, pc <- regPc
ASSUME Detached!KindAssumption /\ Detached!ModeAssumption
(* An admin among the tenants.                                             *)
WithAdmin == INSTANCE InstanceRegistry WITH Facade <- 1..3, Kind <- Admins, MaxInst <- 4,
    Waits <- TRUE, Overlap <- {}, started <- regStarted, pc <- regPc
ASSUME WithAdmin!KindAssumption /\ WithAdmin!ModeAssumption

-----------------------------------------------------------------------------
(* Restarts of an instance with two duties.                                *)
Loops == INSTANCE InstanceLoops WITH Caller <- {"c1"}, Kind <- {"route", "beat"},
    Dynamic <- TRUE, Overlap <- FALSE, MaxLoops <- 4, MaxShutdowns <- 3,
    started <- loopsStarted
ASSUME Loops!LoopsAssumption

-----------------------------------------------------------------------------
(* Two brokers; brokers restart, the route and the subscriptions change.   *)
(* Without restarts and changes of the route.                              *)
Beats == INSTANCE Heartbeat WITH Broker <- {1, 2}, V2Broker <- {1}, UseV2 <- TRUE,
    Loop <- {"route", "rebalance"}, MaxVersion <- 2, MaxChurn <- 0, MaxLost <- 1,
    round <- hbRound, churn <- hbChurn, lost <- hbLost
ASSUME Beats!BrokerAssumption /\ Beats!HeartbeatBounds
(* Without lost beats.                                                     *)
BeatsRoute == INSTANCE Heartbeat WITH Broker <- {1, 2}, V2Broker <- {1}, UseV2 <- TRUE,
    Loop <- {"beat", "route"}, MaxVersion <- 2, MaxChurn <- 1, MaxLost <- 0, round <- hbRound,
    churn <- hbChurn, lost <- hbLost
ASSUME BeatsRoute!BrokerAssumption /\ BeatsRoute!HeartbeatBounds
(* With lost beats, the subscriptions stay.                                *)
BeatsLost == INSTANCE Heartbeat WITH Broker <- {1, 2}, V2Broker <- {1}, UseV2 <- TRUE,
    Loop <- {"beat", "route"}, MaxVersion <- 1, MaxChurn <- 1, MaxLost <- 1, round <- hbRound,
    churn <- hbChurn, lost <- hbLost
ASSUME BeatsLost!BrokerAssumption /\ BeatsLost!HeartbeatBounds

-----------------------------------------------------------------------------
(* Two rounds on two workers, and a pool that is replaced.                 *)
Pool == INSTANCE HeartbeatPool WITH Round <- {"r1", "r2"}, Targets <- 2,
    Worker <- {"w1", "w2"}, MaxStarts <- 1, pc <- poolPc
ASSUME Pool!PoolAssumption
PoolRestart == INSTANCE HeartbeatPool WITH Round <- {"r1", "r2"}, Targets <- 2,
    Worker <- {"w1", "w2"}, MaxStarts <- 2, pc <- poolPc
ASSUME PoolRestart!PoolAssumption

-----------------------------------------------------------------------------
regVars == <<map, made, running, tenants, regStarted, client, regPc, held, tail>>
loopsVars == <<loopsStarted, stop, tasks, loop, call, shutdowns>>
hbVars == <<version, actual, cached, beaten, support, prints, reg, ever, hbRound, hbChurn,
            hbLost>>
poolVars == <<pool, starts, chan, work, poolPc, permits, ok>>

allVars == <<part, vars, regVars, loopsVars, hbVars, poolVars>>

PartsInit ==
    /\ part \in Parts
    /\ CASE part = "group_static" -> GroupStatic!Init
         [] part = "group_unknown" -> GroupUnknown!Init
         [] OTHER -> Init
    /\ part \notin {"group", "group_static", "group_unknown"} => route = {} /\ members = {} /\ strategy = "AVG"
    /\ CASE part = "registry_detached" -> Detached!Init
         [] part = "registry_admins" -> WithAdmin!Init
         [] OTHER -> Registry!Init
    /\ Loops!Init
    /\ CASE part = "heartbeat_route" -> BeatsRoute!Init
         [] part = "heartbeat_lost" -> BeatsLost!Init
         [] OTHER -> Beats!Init
    /\ part \notin {"heartbeat", "heartbeat_route", "heartbeat_lost"} => actual = {1}
    /\ CASE part = "pool_restart" -> PoolRestart!Init
         [] OTHER -> Pool!Init

PartsNext ==
    \/ /\ \/ part = "group" /\ Next
          \/ part = "group_static" /\ GroupStatic!Next
          \/ part = "group_unknown" /\ GroupUnknown!Next
       /\ UNCHANGED <<part, regVars, loopsVars, hbVars, poolVars>>
    \/ /\ \/ part = "registry" /\ Registry!Next
          \/ part = "registry_detached" /\ Detached!Next
          \/ part = "registry_admins" /\ WithAdmin!Next
       /\ UNCHANGED <<part, vars, loopsVars, hbVars, poolVars>>
    \/ /\ part = "loops" /\ Loops!Next
       /\ UNCHANGED <<part, vars, regVars, hbVars, poolVars>>
    \/ /\ \/ part = "heartbeat" /\ Beats!Next
          \/ part = "heartbeat_route" /\ BeatsRoute!Next
          \/ part = "heartbeat_lost" /\ BeatsLost!Next
       /\ UNCHANGED <<part, vars, regVars, loopsVars, poolVars>>
    \/ /\ \/ part = "pool" /\ Pool!Next
          \/ part = "pool_restart" /\ PoolRestart!Next
       /\ UNCHANGED <<part, vars, regVars, loopsVars, hbVars>>

PartsSpec == PartsInit /\ [][PartsNext]_allVars

(* The rebalance loop of every member goes round, every task that beats    *)
(* and every worker of the pool goes on, and a round with enough permits   *)
(* passes its gate.                                                        *)
LiveSpec ==
    /\ PartsSpec
    /\ \A c \in Client : WF_vars(part = "group" /\ RoundStep(c))
    /\ \A t \in {"beat", "route"} :
          /\ WF_hbVars(part = "heartbeat_route" /\ BeatsRoute!Step(t))
          /\ WF_hbVars(part = "heartbeat_lost" /\ BeatsLost!Step(t))
    /\ \A r \in {"r1", "r2"} : WF_poolVars(part = "pool" /\ Pool!Pass(r))
    /\ \A w \in {"w1", "w2"} : WF_poolVars(part = "pool" /\ Pool!Work(w))

-----------------------------------------------------------------------------
(* Every component's state has its type.                                   *)
TypesOK ==
    /\ CASE part = "group_static" -> GroupStatic!TypeOK
         [] part = "group_unknown" -> GroupUnknown!TypeOK
         [] OTHER -> TypeOK
    /\ CASE part = "registry_detached" -> Detached!TypeOK
         [] part = "registry_admins" -> WithAdmin!TypeOK
         [] OTHER -> Registry!TypeOK
    /\ Loops!TypeOK
    /\ CASE part = "heartbeat_route" -> BeatsRoute!TypeOK
         [] part = "heartbeat_lost" -> BeatsLost!TypeOK
         [] OTHER -> Beats!TypeOK
    /\ IF part = "pool_restart" THEN PoolRestart!TypeOK ELSE Pool!TypeOK

(* A facade whose start succeeded works on a running instance until its    *)
(* own shutdown, the one all facades of its client id share, whoever else  *)
(* comes and goes; an admin among them stops nobody's (InstanceRegistry).  *)
InUse ==
    /\ part = "registry" => Registry!InUse /\ Registry!Shared
    /\ part = "registry_detached" => Detached!InUse /\ Detached!Shared
    /\ part = "registry_admins" => WithAdmin!TenantInUse

(* Nothing is left over.  When everybody has left, no instance runs and    *)
(* none is registered (InstanceRegistry); however often an instance is     *)
(* started and shut down, a duty has one loop that was not told to end,    *)
(* and none after shutdown has returned (InstanceLoops).                   *)
NothingLeft ==
    /\ part = "registry" => Registry!NoLeak
    /\ part = "registry_detached" => Detached!NoLeak
    /\ part = "registry_admins" => WithAdmin!NoLeak
    /\ part = "loops" => Loops!OneLoopPerKind /\ Loops!NoneLeftBehind

(* A fingerprint stands for a full body the broker accepted, and the set   *)
(* recorded after a refresh is one a beat reached (Heartbeat); a round of  *)
(* the pool returns its count when none of its jobs can change it any more *)
(* (HeartbeatPool).                                                        *)
BeatsCounted ==
    /\ part = "heartbeat" => Beats!PrintEarned /\ Beats!BeatenReached
    /\ part = "heartbeat_route" => BeatsRoute!PrintEarned /\ BeatsRoute!BeatenReached
    /\ part = "heartbeat_lost" => BeatsLost!PrintEarned /\ BeatsLost!BeatenReached
    /\ part = "pool" => Pool!AllCounted
    /\ part = "pool_restart" => PoolRestart!AllCounted

(* When everyone on a list has divided it, no two share a queue of it and  *)
(* none is left over, and the even strategies are even to one queue        *)
(* (Allocate).                                                             *)
SharesComplete ==
    /\ part = "group" => SameViewCovers
    /\ part = "group_static" =>
          GroupStatic!SameViewDisjoint /\ GroupStatic!SameViewCovers /\ GroupStatic!SameViewEven
    /\ part = "group_unknown" => GroupUnknown!SameViewDisjoint /\ GroupUnknown!SameViewCovers

(* In the end every broker of the route holds the current subscriptions    *)
(* (Heartbeat), and no round of the pool hangs at its gate                 *)
(* (HeartbeatPool).                                                        *)
Registered ==
    /\ part = "heartbeat_route" => BeatsRoute!Registered
    /\ part = "heartbeat_lost" => BeatsLost!Registered
    /\ part = "pool" => Pool!RoundEnds

(* Once members and route rest, every queue ends up with one owner         *)
(* (GroupRebalance).                                                       *)
Settles == part = "group" => <>[]Partitioned
=============================================================================
