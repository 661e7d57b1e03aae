-------------------------- MODULE InstanceRegistry --------------------------
(***************************************************************************)
(* The client instances of one client id (client/mq_client.rs) and the     *)
(* facades that share them.  start() finds or makes an instance, starts it *)
(* and registers a tenant; shutdown() leaves it, and a finalizing task     *)
(* (client/shutdown.rs) stops the instance if nobody is left.  An admin    *)
(* makes an instance of its own and is no tenant of it.                    *)
(***************************************************************************)
EXTENDS Naturals, FiniteSets

CONSTANTS
    Facade,   \* producers, consumers and admins with this client id
    Kind,     \* "producer", "push", "pull" or "admin" for every facade
    MaxInst,  \* bound on the instances made
    Waits,    \* shutdown waits for its finalizing task: a multi-thread runtime
    Overlap   \* calls that may overlap a start: "others" and "own" shutdowns

KindAssumption == Kind \in [Facade -> {"producer", "push", "pull", "admin"}]
ModeAssumption ==
    MaxInst \in Nat \ {0} /\ Waits \in BOOLEAN /\ Overlap \subseteq {"others", "own"}

Inst == 1..MaxInst
None == 0

VARIABLES
    map,      \* INSTANCE_MAP: the instance registered for the client id
    made,     \* instances made so far
    running,  \* started instances
    tenants,  \* the three registration tables of every instance
    started,  \* facades whose flag is set
    client,   \* the instance every facade holds
    pc, held, \* progress of every facade's call and the instance it works on
    tail      \* finalizing tasks: the facade and the instance it captured

vars == <<map, made, running, tenants, started, client, pc, held, tail>>

Init ==
    /\ map = None /\ made = 0 /\ running = {}
    /\ tenants = [i \in Inst |-> {}]
    /\ started = {} /\ client = [f \in Facade |-> None]
    /\ pc = [f \in Facade |-> "idle"] /\ held = [f \in Facade |-> None]
    /\ tail = {}

(* Only weak references are in the map: an instance lives while its tasks  *)
(* run or a facade or a call holds it.                                     *)
Alive(i) ==
    \/ i \in running
    \/ \E f \in Facade : client[f] = i \/ held[f] = i
    \/ \E t \in tail : t.inst = i

(* find_instance *)
Found == IF map # None /\ Alive(map) THEN map ELSE None

(* remove_from_instance_map: only its own entry.                           *)
Removed(i) == IF map = i THEN None ELSE map

Quiet(f) ==
    /\ "others" \notin Overlap => \A g \in Facade \ {f} : pc[g] = "idle"
    /\ "own" \notin Overlap => pc[f] = "idle"

-----------------------------------------------------------------------------
(* start() *)

(* The flag, the checks, create_mq_client_instance's look-up.              *)
Start(f) ==
    /\ pc[f] = "idle" /\ f \notin started /\ Quiet(f)
    /\ Waits => \A t \in tail : t.facade # f /\ "others" \in Overlap
    /\ started' = started \cup {f}
    /\ LET i == IF Kind[f] = "admin" THEN None ELSE Found
       IN  /\ held' = [held EXCEPT ![f] = i]
           /\ pc' = [pc EXCEPT ![f] = IF i = None THEN "make" ELSE "boot"]
    /\ UNCHANGED <<map, made, running, tenants, client, tail>>

(* with_config *)
Make(f) ==
    /\ pc[f] = "make" /\ made < MaxInst
    /\ made' = made + 1 /\ map' = made + 1
    /\ held' = [held EXCEPT ![f] = made + 1]
    /\ pc' = [pc EXCEPT ![f] = "boot"]
    /\ UNCHANGED <<running, tenants, started, client, tail>>

(* MQClientInstance::start; a first start may fail and undoes itself.      *)
Boot(f) ==
    /\ pc[f] = "boot"
    /\ LET i == held[f]
       IN  \/ /\ running' = running \cup {i}
              /\ pc' = [pc EXCEPT ![f] = "register"]
              /\ UNCHANGED <<map, started, held>>
           \/ /\ i \notin running
              /\ map' = Removed(i) /\ started' = started \ {f}
              /\ pc' = [pc EXCEPT ![f] = "idle"] /\ held' = [held EXCEPT ![f] = None]
              /\ UNCHANGED running
    /\ UNCHANGED <<made, tenants, client, tail>>

Register(f) ==
    /\ pc[f] = "register"
    /\ client' = [client EXCEPT ![f] = held[f]]
    /\ tenants' = IF Kind[f] = "admin" THEN tenants
                  ELSE [tenants EXCEPT ![held[f]] = @ \cup {f}]
    /\ pc' = [pc EXCEPT ![f] = "idle"] /\ held' = [held EXCEPT ![f] = None]
    /\ UNCHANGED <<map, made, running, started, tail>>

-----------------------------------------------------------------------------
(* shutdown() *)

(* Faulty: an instance is stopped whoever still uses it.                   *)
StopAlways(i, left) ==
    IF i # None
    THEN running' = running \ {i} /\ map' = Removed(i)
    ELSE UNCHANGED <<running, map>>
(* MQClientInstance::shutdown with the tenants that would be left.         *)
Stop(i, left) ==
    IF i # None /\ left[i] = {}
    THEN running' = running \ {i} /\ map' = Removed(i)
    ELSE UNCHANGED <<running, map>>

Without(i, f) == [j \in Inst |-> IF j = i THEN tenants[j] \ {f} ELSE tenants[j]]

(* A pull consumer (and a lite one) leaves everything to the finalizing    *)
(* task; an admin stops its instance at once.  The others leave the tables *)
(* and, as the last, the map.                                              *)
Shutdown(f) ==
    /\ f \in started /\ Quiet(f)
    /\ started' = started \ {f}
    /\ LET i == client[f]
       IN  CASE Kind[f] = "pull" ->
                    /\ tail' = tail \cup {[facade |-> f, inst |-> None]}
                    /\ UNCHANGED <<map, running, tenants, client>>
             [] Kind[f] = "admin" ->
                    /\ Stop(i, tenants)
                    /\ client' = [client EXCEPT ![f] = None]
                    /\ UNCHANGED <<tenants, tail>>
             [] OTHER ->
                    /\ tenants' = Without(i, f)
                    /\ map' = IF i # None /\ tenants'[i] = {} THEN Removed(i) ELSE map
                    /\ tail' = IF i = None THEN tail
                               ELSE tail \cup {[facade |-> f, inst |-> i]}
                    /\ client' = [client EXCEPT ![f] = None]
                    /\ UNCHANGED running
    /\ UNCHANGED <<made, pc, held>>

(* The finalizing task.  A pull consumer's takes the client the consumer   *)
(* holds by then.                                                          *)
Finalize(t) ==
    /\ t \in tail /\ tail' = tail \ {t}
    /\ LET i == IF t.inst = None THEN client[t.facade] ELSE t.inst
       IN  /\ tenants' = IF t.inst = None THEN Without(i, t.facade) ELSE tenants
           /\ Stop(i, tenants')
    /\ client' = IF t.inst = None THEN [client EXCEPT ![t.facade] = None] ELSE client
    /\ UNCHANGED <<made, started, pc, held>>

-----------------------------------------------------------------------------
Next ==
    \/ \E f \in Facade : Start(f) \/ Make(f) \/ Boot(f) \/ Register(f) \/ Shutdown(f)
    \/ \E t \in tail : Finalize(t)

Spec == Init /\ [][Next]_vars

(* Ids are instances that were made, a call between find and register      *)
(* holds one, and the admin is nobody's tenant.                            *)
TypeOK ==
    /\ made \in 0..MaxInst /\ map \in 0..made /\ running \subseteq 1..made
    /\ started \subseteq Facade /\ client \in [Facade -> 0..made]
    /\ held \in [Facade -> 0..made]
    /\ pc \in [Facade -> {"idle", "make", "boot", "register"}]
    /\ \A f \in Facade : held[f] = None <=> pc[f] \in {"idle", "make"}
    /\ \A i \in Inst : tenants[i] \subseteq {f \in Facade : Kind[f] # "admin"}

Active(f) == f \in started /\ pc[f] = "idle"

(* A facade whose start succeeded works on a running instance until its    *)
(* own shutdown, whoever else comes and goes.                              *)
InUse == \A f \in Facade : Active(f) => client[f] \in running

(* The same for those that are tenants: an admin that shares their client  *)
(* id stops nobody's instance.                                             *)
TenantInUse == \A f \in Facade : Active(f) /\ Kind[f] # "admin" => client[f] \in running

(* Two facades with the same client id land on the same instance.          *)
Shared == \A f, g \in Facade : Active(f) /\ Active(g) => client[f] = client[g]

(* When everybody has left and the finalizing tasks are done, no instance  *)
(* runs and none is registered.                                            *)
NoLeak ==
    (started = {} /\ tail = {} /\ \A f \in Facade : pc[f] = "idle")
        => running = {} /\ Found = None
=============================================================================
