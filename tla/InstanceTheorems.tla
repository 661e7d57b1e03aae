-------------------------- MODULE InstanceTheorems --------------------------
(***************************************************************************)
(* What the facades of a process share and what keeps them served, for any *)
(* facades, duties and brokers: the instances of a client id, the loops of *)
(* an instance and the heartbeats.                                         *)
(***************************************************************************)
EXTENDS InstanceRegistry, FiniteSetTheorems, TLAPS

CONSTANTS
    \* InstanceLoops
    Caller, Duty, Dynamic, LoopsOverlap, MaxLoops, MaxShutdowns,
    \* Heartbeat
    Broker, V2Broker, UseV2, Loop, MaxVersion, MaxChurn, MaxLost

VARIABLES
    \* InstanceLoops
    loopsStarted, stop, tasks, loop, call, shutdowns,
    \* Heartbeat
    version, actual, cached, beaten, support, prints, reg, ever, round, churn, lost

Lp == INSTANCE InstanceLoops WITH started <- loopsStarted, Kind <- Duty, Overlap <- LoopsOverlap
Hb == INSTANCE Heartbeat

-----------------------------------------------------------------------------

(* The instances of a client id, for any facades that start and shut down  *)
(* one after the other.                                                    *)

(* No call overlaps a start; shutdowns wait for their finalizing tasks, or *)
(* no facade is one that leaves the registration to that task.             *)
OneByOne == Overlap = {} /\ (Waits \/ \A f \in Facade : Kind[f] # "pull")

Tenant(f) == Kind[f] # "admin"

Types ==
    /\ made \in 0..MaxInst /\ map \in 0..made /\ running \subseteq 1..made
    /\ tenants \in [Inst -> SUBSET Facade] /\ started \subseteq Facade
    /\ client \in [Facade -> 0..made] /\ held \in [Facade -> 0..made]
    /\ pc \in [Facade -> {"idle", "make", "boot", "register"}]
    /\ tail \in SUBSET [facade : Facade, inst : 0..made]
    /\ \A f \in Facade : held[f] = None <=> pc[f] \in {"idle", "make"}

(* Calls that start run alone; with waiting shutdowns no finalizing task   *)
(* runs beside them.                                                       *)
Alone ==
    /\ \A f, g \in Facade : pc[f] # "idle" /\ g # f => pc[g] = "idle"
    /\ \A f \in Facade : pc[f] # "idle" => f \in started
    /\ Waits /\ tail # {} => \A f \in Facade : pc[f] = "idle"

(* What a facade that is a tenant or becomes one can rely on.              *)
Used(f) ==
    /\ Active(f) /\ Tenant(f) =>
          client[f] # None /\ client[f] \in running /\ f \in tenants[client[f]]
    /\ pc[f] = "register" => held[f] \in running
    /\ pc[f] # "idle" => client[f] = None
    /\ \A i \in Inst : f \in tenants[i] =>
          /\ client[f] = i /\ Tenant(f)
          /\ f \in started \/ \E t \in tail : t.facade = f /\ t.inst = None
    /\ client[f] # None => f \in started \/ \E t \in tail : t.facade = f /\ t.inst = None

(* What a finalizing task may stop nobody finds or has found.              *)
Stopping(t) ==
    /\ t.inst = None => Waits /\ t.facade \notin started /\ Kind[t.facade] = "pull"
    /\ t.inst # None /\ tenants[t.inst] = {} =>
          map # t.inst /\ \A f \in Facade : held[f] # t.inst

(* A running instance has somebody who will stop it.                       *)
Kept(i) ==
    \/ tenants[i] # {}
    \/ \E t \in tail : t.inst = i
    \/ \E f \in Facade : pc[f] = "register" /\ held[f] = i
    \/ \E f \in Facade : Active(f) /\ ~Tenant(f) /\ client[f] = i

RegInv ==
    /\ Types /\ Alone /\ \A f \in Facade : Used(f)
    /\ \A t \in tail : Stopping(t)
    /\ \A i \in running : Kept(i)

(* Without admins, everybody who works works on the registered instance.   *)
Mapped ==
    /\ \A f \in Facade : Active(f) => client[f] = map
    /\ \A f \in Facade : pc[f] \in {"boot", "register"} => held[f] = map
    /\ \A f, g \in Facade : pc[f] = "make" => ~Active(g)

-----------------------------------------------------------------------------
(* start() finds an instance or will make one.                            *)
LEMMA RegStart ==
    ASSUME ModeAssumption, OneByOne, RegInv, NEW f \in Facade, Start(f)
    PROVE  RegInv'
<1>0. Types /\ Alone /\ (\A g \in Facade : Used(g)) /\ (\A t \in tail : Stopping(t))
      /\ \A i \in running : Kept(i)
  BY Zenon DEF RegInv
<1>1. /\ \A g \in Facade : pc[g] = "idle" /\ pc[f] = "idle" /\ f \notin started
      /\ started' = started \cup {f} /\ (Waits => tail = {})
      /\ UNCHANGED <<map, made, running, tenants, client, tail>>
  BY Zenon DEF Start, Quiet, OneByOne
<1>2. PICK i \in {None, Found} : /\ held' = [held EXCEPT ![f] = i]
                                 /\ pc' = [pc EXCEPT ![f] = IF i = None THEN "make" ELSE "boot"]
  BY Zenon DEF Start
<1>3. i \in 0..made /\ (i = None \/ i = map)
  BY <1>0, <1>2 DEF Found, Types, None
<1>4. /\ held'[f] = i /\ pc'[f] = IF i = None THEN "make" ELSE "boot"
      /\ \A g \in Facade : g # f => held'[g] = held[g] /\ pc'[g] = "idle"
      /\ held' \in [Facade -> 0..made]
      /\ pc' \in [Facade -> {"idle", "make", "boot", "register"}]
      /\ pc'[f] # "idle" /\ pc'[f] # "register"
  BY <1>0, <1>1, <1>2, <1>3, Zenon DEF Types
<1>5. Types'
  BY <1>0, <1>1, <1>3, <1>4, Zenon DEF Types, None
<1>6. Alone'
  BY <1>0, <1>1, <1>4, Zenon DEF Alone
<1>f. client[f] = None
  BY <1>0, <1>1, Zenon DEF Used, Stopping
<1>7. ASSUME NEW g \in Facade PROVE Used(g)'
  BY <1>0, <1>1, <1>4, <1>f, Zenon DEF Used, Active, Tenant
<1>8. ASSUME NEW t \in tail' PROVE Stopping(t)'
  <2>1. \A g \in Facade : held[g] = None
    BY <1>0, <1>1, Zenon DEF Types
  <2> QED BY <1>0, <1>1, <1>3, <1>4, <2>1, ZenonT(40) DEF Stopping, None
<1>9. ASSUME NEW j \in running' PROVE Kept(j)'
  BY <1>0, <1>1, <1>4 DEF Kept, Active, Tenant
<1> QED BY <1>5, <1>6, <1>7, <1>8, <1>9, Zenon DEF RegInv

(* with_config registers an instance nobody else has.                      *)
LEMMA RegMake ==
    ASSUME ModeAssumption, OneByOne, RegInv, NEW f \in Facade, Make(f)
    PROVE  RegInv'
<1>0. Types /\ Alone /\ (\A g \in Facade : Used(g)) /\ (\A t \in tail : Stopping(t))
      /\ \A i \in running : Kept(i)
  BY Zenon DEF RegInv
<1>1. /\ pc[f] = "make" /\ made' = made + 1 /\ map' = made + 1 /\ made < MaxInst
      /\ held' = [held EXCEPT ![f] = made + 1] /\ pc' = [pc EXCEPT ![f] = "boot"]
      /\ UNCHANGED <<running, tenants, started, client, tail>>
  BY Zenon DEF Make
<1>2. /\ made' \in 0..MaxInst /\ map' \in 0..made' /\ 0..made \subseteq 0..made'
      /\ 1..made \subseteq 1..made' /\ made + 1 \notin 0..made /\ made + 1 \in 0..made'
      /\ made + 1 # None
  BY <1>0, <1>1 DEF Types, ModeAssumption, None
<1>3. /\ held'[f] = made + 1 /\ pc'[f] = "boot"
      /\ \A g \in Facade : g # f => held'[g] = held[g] /\ pc'[g] = pc[g]
      /\ held' \in [Facade -> 0..made']
      /\ pc' \in [Facade -> {"idle", "make", "boot", "register"}]
  BY <1>0, <1>1, <1>2, Zenon DEF Types
<1>4. client \in [Facade -> 0..made'] /\ tail \in SUBSET [facade : Facade, inst : 0..made']
      /\ \A t \in tail : t.inst \in 0..made
  BY <1>0, <1>2, Zenon DEF Types
<1>5. Types'
  BY <1>0, <1>1, <1>2, <1>3, <1>4, Zenon DEF Types
<1>6. Alone'
  BY <1>0, <1>1, <1>3, Zenon DEF Alone
<1>7. ASSUME NEW g \in Facade PROVE Used(g)'
  BY <1>0, <1>1, <1>3 DEF Used, Active, Tenant
<1>8. ASSUME NEW t \in tail' PROVE Stopping(t)'
  BY <1>0, <1>1, <1>2, <1>3, <1>4 DEF Stopping
<1>9. ASSUME NEW j \in running' PROVE Kept(j)'
  BY <1>0, <1>1, <1>3, Zenon DEF Kept, Active, Tenant
<1> QED BY <1>5, <1>6, <1>7, <1>8, <1>9, Zenon DEF RegInv

(* remove_from_instance_map empties the entry or leaves it.                *)
LEMMA RemovedMap ==
    ASSUME Types, NEW i
    PROVE  Removed(i) \in {map, None} /\ (i # None => Removed(i) # i) /\ Removed(i) \in 0..made
  BY DEF Removed, Types, None

(* MQClientInstance::start runs the instance or gives it up.               *)
LEMMA RegBoot ==
    ASSUME ModeAssumption, OneByOne, RegInv, NEW f \in Facade, Boot(f)
    PROVE  RegInv'
<1>0. Types /\ Alone /\ (\A g \in Facade : Used(g)) /\ (\A t \in tail : Stopping(t))
      /\ \A i \in running : Kept(i)
  BY Zenon DEF RegInv
<1> DEFINE i == held[f]
<1>1. pc[f] = "boot" /\ UNCHANGED <<made, tenants, client, tail>>
  BY Zenon DEF Boot
<1>2. i \in 1..made /\ i # None
  BY <1>0, <1>1 DEF Types, None
<1>3. CASE /\ running' = running \cup {i} /\ pc' = [pc EXCEPT ![f] = "register"]
           /\ UNCHANGED <<map, started, held>>
  <2>1. /\ pc'[f] = "register" /\ \A g \in Facade : g # f => pc'[g] = pc[g]
        /\ pc' \in [Facade -> {"idle", "make", "boot", "register"}]
        /\ running' \subseteq 1..made
    BY <1>0, <1>2, <1>3, Zenon DEF Types
  <2>5. Types'
    BY <1>0, <1>1, <1>2, <1>3, <2>1, Zenon DEF Types
  <2>6. Alone'
    BY <1>0, <1>1, <1>3, <2>1, Zenon DEF Alone
  <2>7. ASSUME NEW g \in Facade PROVE Used(g)'
    BY <1>0, <1>1, <1>3, <2>1 DEF Used, Active, Tenant
  <2>8. ASSUME NEW t \in tail' PROVE Stopping(t)'
    BY <1>0, <1>1, <1>3, Zenon DEF Stopping
  <2>9. ASSUME NEW j \in running' PROVE Kept(j)'
    BY <1>0, <1>1, <1>3, <2>1, Zenon DEF Kept, Active, Tenant
  <2> QED BY <2>5, <2>6, <2>7, <2>8, <2>9, Zenon DEF RegInv
<1>4. CASE /\ i \notin running /\ map' = Removed(i) /\ started' = started \ {f}
           /\ pc' = [pc EXCEPT ![f] = "idle"] /\ held' = [held EXCEPT ![f] = None]
           /\ UNCHANGED running
  <2>1. /\ pc'[f] = "idle" /\ held'[f] = None
        /\ \A g \in Facade : g # f => pc'[g] = pc[g] /\ held'[g] = held[g]
        /\ pc' \in [Facade -> {"idle", "make", "boot", "register"}]
        /\ held' \in [Facade -> 0..made]
    BY <1>0, <1>4 DEF Types, None
  <2>2. map' \in {map, None} /\ map' \in 0..made
    BY <1>0, <1>4, RemovedMap, Zenon
  <2>3. \A g \in Facade : g # f => pc[g] = "idle" /\ pc'[g] = "idle"
    BY <1>0, <1>1, <2>1, Zenon DEF Alone
  <2>n. \A j \in Inst : j # None
    BY DEF Inst, None
  <2>4. client[f] = None /\ \A j \in Inst : f \notin tenants[j]
    BY <1>0, <1>1, <2>n DEF Used
  <2>5. Types'
    BY <1>0, <1>1, <1>4, <2>1, <2>2, ZenonT(40) DEF Types
  <2>6. Alone'
    BY <1>0, <1>1, <1>4, <2>1, <2>3, Zenon DEF Alone
  <2>7. ASSUME NEW g \in Facade PROVE Used(g)'
    BY <1>0, <1>1, <1>4, <2>1, <2>3, <2>4, SMTT(30) DEF Used, Active, Tenant
  <2>8. ASSUME NEW t \in tail' PROVE Stopping(t)'
    BY <1>0, <1>1, <1>4, <2>1, <2>2 DEF Stopping
  <2>9. ASSUME NEW j \in running' PROVE Kept(j)'
    BY <1>0, <1>1, <1>4, <2>1, <2>3, Zenon DEF Kept, Active, Tenant
  <2> QED BY <2>5, <2>6, <2>7, <2>8, <2>9, Zenon DEF RegInv
<1> QED BY <1>3, <1>4, Zenon DEF Boot

(* The facade becomes a tenant of the instance it started.                 *)
LEMMA RegRegister ==
    ASSUME ModeAssumption, OneByOne, RegInv, NEW f \in Facade, Register(f)
    PROVE  RegInv'
<1>0. Types /\ Alone /\ (\A g \in Facade : Used(g)) /\ (\A t \in tail : Stopping(t))
      /\ \A i \in running : Kept(i)
  BY Zenon DEF RegInv
<1> DEFINE i == held[f]
<1>1. /\ pc[f] = "register" /\ client' = [client EXCEPT ![f] = i]
      /\ tenants' = IF Tenant(f) THEN [tenants EXCEPT ![i] = @ \cup {f}] ELSE tenants
      /\ pc' = [pc EXCEPT ![f] = "idle"] /\ held' = [held EXCEPT ![f] = None]
      /\ UNCHANGED <<map, made, running, started, tail>>
  BY Zenon DEF Register, Tenant
<1>2. i \in 1..made /\ i # None /\ i \in running /\ i \in Inst
  <2>1. i \in running
    BY <1>0, <1>1, Zenon DEF Used
  <2> QED BY <1>0, <2>1 DEF Types, None, Inst, ModeAssumption
<1>3. /\ pc'[f] = "idle" /\ held'[f] = None /\ client'[f] = i
      /\ \A g \in Facade : g # f => pc'[g] = pc[g] /\ held'[g] = held[g] /\ client'[g] = client[g]
      /\ pc' \in [Facade -> {"idle", "make", "boot", "register"}]
      /\ held' \in [Facade -> 0..made] /\ client' \in [Facade -> 0..made]
  BY <1>0, <1>1, <1>2 DEF Types, None
<1>4. /\ tenants' \in [Inst -> SUBSET Facade]
      /\ \A j \in Inst : tenants[j] \subseteq tenants'[j]
      /\ \A j \in Inst : \A g \in tenants'[j] : g \in tenants[j] \/ (g = f /\ j = i /\ Tenant(f))
      /\ Tenant(f) => f \in tenants'[i]
  BY <1>0, <1>1, <1>2, Zenon DEF Types
<1>a. client[f] = None /\ f \in started
  BY <1>0, <1>1, Zenon DEF Used, Alone
<1>b. \A j \in Inst : f \notin tenants[j]
  BY <1>0, <1>a DEF Used, Inst, None
<1>c. \A g \in Facade : g # f => pc[g] = "idle"
  BY <1>0, <1>1, Zenon DEF Alone
<1>d. running \subseteq Inst /\ \A t \in tail : t.inst # None => t.inst \in Inst
  BY <1>0 DEF Types, Inst, None, ModeAssumption
<1>e. \A g \in Facade : client[g] # None => client[g] \in Inst
  BY <1>0 DEF Types, Inst, None, ModeAssumption
<1>5. Types'
  BY <1>0, <1>1, <1>3, <1>4, ZenonT(40) DEF Types
<1>6. Alone'
  BY <1>0, <1>1, <1>3, <1>c, Zenon DEF Alone
<1>7. ASSUME NEW g \in Facade PROVE Used(g)'
  <2>1. CASE g = f
    BY <1>0, <1>1, <1>2, <1>3, <1>4, <1>a, <1>b, <2>1 DEF Used, Active, Tenant
  <2>2. CASE g # f
    BY <1>0, <1>1, <1>3, <1>4, <1>c, <1>e, <2>2, SMTT(30) DEF Used, Active, Tenant
  <2> QED BY <2>1, <2>2, Zenon
<1>8. ASSUME NEW t \in tail' PROVE Stopping(t)'
  BY <1>0, <1>1, <1>3, <1>4, <1>d, SMTT(30) DEF Stopping, None
<1>9. ASSUME NEW j \in running' PROVE Kept(j)'
  <2>1. CASE j = i
    BY <1>1, <1>3, <1>4, <1>a, <2>1, Zenon DEF Kept, Active
  <2>2. CASE j # i
    BY <1>0, <1>1, <1>3, <1>4, <1>a, <1>d, <2>2, SMTT(30) DEF Kept, Active
  <2> QED BY <2>1, <2>2, Zenon
<1> QED BY <1>5, <1>6, <1>7, <1>8, <1>9, Zenon DEF RegInv

(* The tables of an instance without a facade, and the others' as they     *)
(* were.                                                                   *)
LEMMA LeftTables ==
    ASSUME ModeAssumption, RegInv, NEW f \in Facade, tenants' = Without(client[f], f)
    PROVE  /\ tenants' \in [Inst -> SUBSET Facade]
           /\ \A j \in Inst : tenants'[j] = tenants[j] \ {f}
<1>1. tenants \in [Inst -> SUBSET Facade]
  BY Zenon DEF RegInv, Types
<1>2. \A j \in Inst : j # client[f] => f \notin tenants[j]
  BY Zenon DEF RegInv, Used
<1> QED BY <1>1, <1>2, Zenon DEF Without

(* Between calls every instance in use is one that was made.               *)
LEMMA RegIds ==
    ASSUME ModeAssumption, RegInv
    PROVE  /\ running \subseteq Inst /\ \A j \in Inst : j # None
           /\ \A t \in tail : t.inst # None => t.inst \in Inst
           /\ \A g \in Facade : client[g] # None => client[g] \in Inst
  BY SMTT(30) DEF RegInv, Types, Inst, None, ModeAssumption

(* shutdown(), for the three kinds of facades.                             *)
LEMMA RegShutdown ==
    ASSUME ModeAssumption, OneByOne, RegInv, NEW f \in Facade, Shutdown(f)
    PROVE  RegInv'
<1>0. Types /\ Alone /\ (\A g \in Facade : Used(g)) /\ (\A t \in tail : Stopping(t))
      /\ \A i \in running : Kept(i)
  BY Zenon DEF RegInv
<1> DEFINE i == client[f]
<1>1. /\ f \in started /\ \A g \in Facade : pc[g] = "idle"
      /\ started' = started \ {f} /\ UNCHANGED <<made, pc, held>>
  BY Zenon DEF Shutdown, Quiet, OneByOne
<1>2. \A g \in Facade : held[g] = None
  BY <1>0, <1>1, Zenon DEF Types
<1>n. running \subseteq Inst /\ (\A j \in Inst : j # None)
      /\ (\A t \in tail : t.inst # None => t.inst \in Inst)
      /\ (\A g \in Facade : client[g] # None => client[g] \in Inst)
  BY RegIds, Zenon
<1>6. Alone'
  BY <1>0, <1>1, Zenon DEF Alone
<1>a. CASE Kind[f] = "pull"
  <2>1. /\ tail' = tail \cup {[facade |-> f, inst |-> None]} /\ Waits
        /\ UNCHANGED <<map, running, tenants, client>>
    BY <1>a, Zenon DEF Shutdown, OneByOne
  <2>2. Types'
    BY <1>0, <1>1, <2>1 DEF Types, None
  <2>3. ASSUME NEW g \in Facade PROVE Used(g)'
    <3>1. f \notin started' /\ [facade |-> f, inst |-> None] \in tail' /\ tail \subseteq tail'
      BY <1>1, <2>1, Zenon
    <3>2. CASE g = f
      BY <1>0, <1>1, <2>1, <3>1, <3>2, ZenonT(40) DEF Used, Active
    <3>3. CASE g # f
      BY <1>0, <1>1, <2>1, <3>1, <3>3, SMTT(30) DEF Used, Active, Tenant
    <3> QED BY <3>2, <3>3, Zenon
  <2>4. ASSUME NEW t \in tail' PROVE Stopping(t)'
    BY <1>0, <1>1, <1>a, <2>1 DEF Stopping
  <2>5. ASSUME NEW j \in running' PROVE Kept(j)'
    BY <1>0, <1>1, <1>a, <2>1, Zenon DEF Kept, Active, Tenant
  <2> QED BY <1>6, <2>2, <2>3, <2>4, <2>5, Zenon DEF RegInv
<1>b. CASE Kind[f] = "admin"
  <2>1. Stop(i, tenants) /\ client' = [client EXCEPT ![f] = None] /\ UNCHANGED <<tenants, tail>>
    BY <1>b, Zenon DEF Shutdown
  <2>2. /\ client'[f] = None /\ \A g \in Facade : g # f => client'[g] = client[g]
        /\ client' \in [Facade -> 0..made]
    BY <1>0, <2>1 DEF Types, None
  <2>3. /\ map' \in {map, None} /\ map' \in 0..made
        /\ running' \subseteq running
        /\ \A j \in running : j \notin running' => j = i /\ tenants[i] = {}
        /\ i \in running' => tenants[i] # {}
    BY <1>0, <1>n, <2>1, RemovedMap, Zenon DEF Stop, Types, None
  <2>n. \A j \in Inst : f \notin tenants[j]
    BY <1>0, <1>b, Zenon DEF Used, Tenant
  <2>4. Types'
    BY <1>0, <1>1, <2>1, <2>2, <2>3, Zenon DEF Types
  <2>5. ASSUME NEW g \in Facade PROVE Used(g)'
    <3>2. CASE g = f
      BY <1>0, <1>1, <2>1, <2>2, <2>n, <3>2, ZenonT(40) DEF Used, Active
    <3>3. CASE g # f
      BY <1>0, <1>1, <1>n, <2>1, <2>2, <2>3, <3>3, SMTT(30) DEF Used, Active, Tenant
    <3> QED BY <3>2, <3>3, Zenon
  <2>6. ASSUME NEW t \in tail' PROVE Stopping(t)'
    BY <1>0, <1>1, <1>n, <2>1, <2>3, Zenon DEF Stopping
  <2>7. ASSUME NEW j \in running' PROVE Kept(j)'
    BY <1>0, <1>1, <2>1, <2>2, <2>3, SMTT(30) DEF Kept, Active, Tenant
  <2> QED BY <1>6, <2>4, <2>5, <2>6, <2>7, Zenon DEF RegInv
<1>c. CASE Kind[f] \notin {"pull", "admin"}
  <2>0. i # None /\ i \in running /\ f \in tenants[i] /\ i \in Inst /\ i \in 0..made
    BY <1>0, <1>1, <1>c, <1>n, Zenon DEF Used, Active, Tenant, Types
  <2>1. /\ tenants' = Without(i, f)
        /\ map' = IF tenants'[i] = {} THEN Removed(i) ELSE map
        /\ tail' = tail \cup {[facade |-> f, inst |-> i]}
        /\ client' = [client EXCEPT ![f] = None]
        /\ UNCHANGED running
    BY <1>c, <2>0, Zenon DEF Shutdown
  <2>2. /\ client'[f] = None /\ \A g \in Facade : g # f => client'[g] = client[g]
        /\ client' \in [Facade -> 0..made]
    BY <1>0, <2>1 DEF Types, None
  <2>3. tenants' \in [Inst -> SUBSET Facade] /\ \A j \in Inst : tenants'[j] = tenants[j] \ {f}
    BY <2>1, LeftTables, Zenon
  <2>4. map' \in {map, None} /\ map' \in 0..made /\ (tenants'[i] = {} => map' # i)
    BY <1>0, <2>0, <2>1, RemovedMap, Zenon DEF Types
  <2>5. Types'
    BY <1>0, <1>1, <2>0, <2>1, <2>2, <2>3, <2>4, SMTT(30) DEF Types
  <2>m. \A j \in Inst : j # i => f \notin tenants[j]
    BY <1>0, Zenon DEF Used
  <2>6. ASSUME NEW g \in Facade PROVE Used(g)'
    <3>1. f \notin started' /\ tail \subseteq tail'
      BY <1>1, <2>1, Zenon
    <3>2. CASE g = f
      BY <1>1, <2>2, <2>3, <3>1, <3>2, ZenonT(40) DEF Used, Active
    <3>3. CASE g # f
      BY <1>0, <1>1, <1>n, <2>1, <2>2, <2>3, <3>1, <3>3, SMTT(30) DEF Used, Active, Tenant
    <3> QED BY <3>2, <3>3, Zenon
  <2>7. ASSUME NEW t \in tail' PROVE Stopping(t)'
    <3>1. CASE t \in tail
      BY <1>0, <1>1, <1>2, <1>n, <2>3, <2>4, <2>m, <3>1, SMTT(30) DEF Stopping
    <3>2. CASE t = [facade |-> f, inst |-> i]
      BY <1>1, <1>2, <2>0, <2>4, <3>2, Zenon DEF Stopping
    <3> QED BY <2>1, <3>1, <3>2, Zenon
  <2>8. ASSUME NEW j \in running' PROVE Kept(j)'
    <3>1. CASE j = i
      <4>1. [facade |-> f, inst |-> i] \in tail' /\ [facade |-> f, inst |-> i].inst = j
        BY <2>1, <3>1, Zenon
      <4> QED BY <4>1, Zenon DEF Kept
    <3>2. CASE j # i
      BY <1>0, <1>1, <1>n, <2>1, <2>2, <2>3, <2>m, <3>2, SMTT(30) DEF Kept, Active, Tenant
    <3> QED BY <3>1, <3>2, Zenon
  <2> QED BY <1>6, <2>5, <2>6, <2>7, <2>8, Zenon DEF RegInv
<1> QED BY <1>a, <1>b, <1>c, Zenon

(* MQClientInstance::shutdown stops an instance without tenants, and only  *)
(* it leaves the map.                                                      *)
LEMMA StopEffect ==
    ASSUME ModeAssumption, Types, NEW i, NEW left, Stop(i, left)
    PROVE  /\ map' \in {map, None} /\ map' \in 0..made
           /\ running' \subseteq running
           /\ \A j \in running : j \notin running' => j = i /\ left[i] = {}
           /\ i # None /\ left[i] = {} => i \notin running' /\ map' # i
<1>1. Removed(i) \in {map, None} /\ (i # None => Removed(i) # i) /\ Removed(i) \in 0..made
  BY RemovedMap, Zenon
<1>2. map \in 0..made
  BY Zenon DEF Types
<1> QED BY <1>1, <1>2, Zenon DEF Stop

(* The finalizing task stops an instance nobody uses.                      *)
LEMMA RegFinalize ==
    ASSUME ModeAssumption, OneByOne, RegInv, NEW t \in tail, Finalize(t)
    PROVE  RegInv'
<1>0. Types /\ Alone /\ (\A g \in Facade : Used(g)) /\ (\A u \in tail : Stopping(u))
      /\ \A i \in running : Kept(i)
  BY Zenon DEF RegInv
<1> DEFINE f == t.facade
<1>1. tail' = tail \ {t} /\ UNCHANGED <<made, started, pc, held>> /\ f \in Facade /\ Stopping(t)
  BY <1>0, Zenon DEF Finalize, Types
<1>n. running \subseteq Inst /\ (\A j \in Inst : j # None)
      /\ (\A u \in tail : u.inst # None => u.inst \in Inst)
      /\ (\A g \in Facade : client[g] # None => client[g] \in Inst)
  BY RegIds, Zenon
<1>6. Alone'
  BY <1>0, <1>1, Zenon DEF Alone
<1>a. CASE t.inst # None
  <2>1. Stop(t.inst, tenants) /\ UNCHANGED <<tenants, client>>
    BY <1>a, Zenon DEF Finalize
  <2>2. /\ map' \in {map, None} /\ map' \in 0..made
        /\ running' \subseteq running
        /\ \A j \in running : j \notin running' => j = t.inst /\ tenants[t.inst] = {}
        /\ tenants[t.inst] = {} => t.inst \notin running' /\ map' # t.inst
    BY <1>0, <1>a, <2>1, StopEffect, Zenon
  <2>3. Types'
    BY <1>0, <1>1, <2>1, <2>2, ZenonT(40) DEF Types
  <2>4. ASSUME NEW g \in Facade PROVE Used(g)'
    <3>1. pc[g] = "register" => held[g] \in running'
      BY <1>0, <1>1, <1>a, <2>2, SMTT(30) DEF Used, Stopping
    <3>2. Active(g) /\ Tenant(g) => client[g] \in running'
      BY <1>0, <2>2 DEF Used
    <3> QED BY <1>0, <1>1, <1>a, <2>1, <3>1, <3>2, SMTT(30) DEF Used, Active, Tenant
  <2>5. ASSUME NEW u \in tail' PROVE Stopping(u)'
    BY <1>0, <1>1, <2>1, <2>2, Zenon DEF Stopping
  <2>6. ASSUME NEW j \in running' PROVE Kept(j)'
    BY <1>0, <1>1, <2>1, <2>2, SMTT(30) DEF Kept, Active, Tenant
  <2> QED BY <1>6, <2>3, <2>4, <2>5, <2>6, Zenon DEF RegInv
<1>b. CASE t.inst = None
  <2> DEFINE i == client[f]
  <2>1. Stop(i, tenants') /\ tenants' = Without(i, f) /\ client' = [client EXCEPT ![f] = None]
    BY <1>b, Zenon DEF Finalize
  <2>2. f \notin started /\ \A g \in Facade : pc[g] = "idle"
    BY <1>0, <1>1, <1>b, Zenon DEF Stopping, Alone
  <2>3. \A g \in Facade : held[g] = None
    BY <1>0, <2>2, Zenon DEF Types
  <2>4. /\ client'[f] = None /\ \A g \in Facade : g # f => client'[g] = client[g]
        /\ client' \in [Facade -> 0..made]
    BY <1>0, <1>1, <2>1 DEF Types, None
  <2>5. tenants' \in [Inst -> SUBSET Facade] /\ \A j \in Inst : tenants'[j] = tenants[j] \ {f}
    BY <1>1, <2>1, LeftTables, ZenonT(40)
  <2>6. /\ map' \in {map, None} /\ map' \in 0..made
        /\ running' \subseteq running
        /\ \A j \in running : j \notin running' => j = i /\ tenants'[i] = {}
        /\ i # None /\ tenants'[i] = {} => i \notin running' /\ map' # i
    BY <1>0, <2>1, StopEffect
  <2>m. \A j \in Inst : j # i => f \notin tenants[j]
    BY <1>0, <1>1, Zenon DEF Used
  <2>7. Types'
    BY <1>0, <1>1, <2>4, <2>5, <2>6, Zenon DEF Types
  <2>8. ASSUME NEW g \in Facade PROVE Used(g)'
    <3>1. CASE g = f
      <4>1. ~Active(f)' /\ pc'[f] = "idle" /\ client'[f] = None
        BY <1>1, <2>2, <2>4, Zenon DEF Active
      <4>2. \A j \in Inst : f \notin tenants'[j]
        BY <2>5, Zenon
      <4> QED BY <3>1, <4>1, <4>2, Zenon DEF Used
    <3>2. CASE g # f
      <4>1. Active(g) /\ Tenant(g) => /\ client[g] \in running' /\ client[g] \in Inst
                                      /\ g \in tenants'[client[g]]
        BY <1>0, <1>n, <2>5, <2>6, <3>2 DEF Used
      <4>2. (Active(g)' <=> Active(g)) /\ pc'[g] = "idle" /\ client'[g] = client[g]
        BY <1>1, <2>2, <2>4, <3>2, Zenon DEF Active
      <4>3. started' = started /\ \A u \in tail : u.facade = g => u \in tail'
        BY <1>1, <3>2, Zenon
      <4>4. \A j \in Inst : g \in tenants'[j] => g \in tenants[j]
        BY <2>5, Zenon
      <4> QED BY <1>0, <4>1, <4>2, <4>3, <4>4, ZenonT(40) DEF Used, Tenant
    <3> QED BY <3>1, <3>2, Zenon
  <2>9. ASSUME NEW u \in tail' PROVE Stopping(u)'
    <3>1. u \in tail /\ (u.inst # None => u.inst \in Inst) /\ Stopping(u)
      BY <1>0, <1>1, <1>n, Zenon
    <3>2. ASSUME u.inst # None, tenants'[u.inst] = {} PROVE map' # u.inst
      BY <2>5, <2>6, <2>m, <3>1, <3>2, SMTT(30) DEF Stopping
    <3> QED BY <1>1, <2>3, <3>1, <3>2, Zenon DEF Stopping
  <2>10. ASSUME NEW j \in running' PROVE Kept(j)'
    <3>1. j \in Inst /\ j # None /\ Kept(j)
      BY <1>0, <1>n, <2>6, Zenon
    <3>2. tenants[j] # {} => tenants'[j] # {}
      BY <2>5, <2>6, <2>m, <3>1
    <3> QED BY <1>1, <1>b, <2>2, <2>4, <3>1, <3>2, Zenon DEF Kept, Active, Tenant
  <2> QED BY <1>6, <2>7, <2>8, <2>9, <2>10, Zenon DEF RegInv
<1> QED BY <1>a, <1>b, Zenon

(* Every step of a facade or of a finalizing task keeps the invariant.     *)
LEMMA RegStep == ASSUME ModeAssumption, OneByOne, RegInv, [Next]_vars PROVE RegInv'
<1>1. CASE UNCHANGED vars
  <2>1. Types' /\ Alone'
    BY <1>1, Zenon DEF vars, RegInv, Types, Alone
  <2>2. ASSUME NEW f \in Facade PROVE Used(f)'
    BY <1>1, Zenon DEF vars, RegInv, Used, Active, Tenant
  <2>3. ASSUME NEW t \in tail' PROVE Stopping(t)'
    BY <1>1, Zenon DEF vars, RegInv, Stopping
  <2>4. ASSUME NEW i \in running' PROVE Kept(i)'
    BY <1>1, Zenon DEF vars, RegInv, Kept, Active, Tenant
  <2> QED BY <2>1, <2>2, <2>3, <2>4, Zenon DEF RegInv
<1> QED BY <1>1, RegStart, RegMake, RegBoot, RegRegister, RegShutdown, RegFinalize, Zenon DEF Next

(* Nobody is there at first.                                               *)
LEMMA RegInitially == ASSUME ModeAssumption, Init PROVE RegInv
  BY DEF Init, RegInv, Types, Alone, Used, Active, None, Inst, ModeAssumption

(* MQClientInstance::shutdown and the registration tables: a producer or   *)
(* consumer whose start succeeded works on a running instance until its    *)
(* own shutdown, whoever else comes and goes, admins included.             *)
THEOREM TenantsServed ==
    ASSUME ModeAssumption, OneByOne PROVE Spec => []TenantInUse
<1>1. Init => RegInv
  BY RegInitially, Zenon
<1>2. RegInv /\ [Next]_vars => RegInv'
  BY RegStep, Zenon
<1>3. RegInv => TenantInUse
  BY Zenon DEF RegInv, Used, Tenant, TenantInUse
<1> QED BY <1>1, <1>2, <1>3, PTL DEF Spec

(* shutdown and its finalizing task: when everybody has left, no instance  *)
(* runs and none is registered, admins included.                           *)
THEOREM NothingLeaks ==
    ASSUME ModeAssumption, OneByOne PROVE Spec => []NoLeak
<1>1. Init => RegInv
  BY RegInitially, Zenon
<1>2. RegInv /\ [Next]_vars => RegInv'
  BY RegStep, Zenon
<1>3. RegInv => NoLeak
  <2> SUFFICES ASSUME RegInv, started = {}, tail = {}, \A f \in Facade : pc[f] = "idle"
               PROVE  running = {} /\ Found = None
    BY Zenon DEF NoLeak
  <2>1. \A f \in Facade : client[f] = None /\ held[f] = None
    BY Zenon DEF RegInv, Used, Types
  <2>2. \A j \in Inst : tenants[j] = {}
    BY RegIds, Zenon DEF RegInv, Used, Types
  <2>3. running = {}
    BY <2>2, RegIds, Zenon DEF RegInv, Kept, Active
  <2> QED BY <2>1, <2>3, Zenon DEF Found, Alive
<1> QED BY <1>1, <1>2, <1>3, PTL DEF Spec

(* Without an admin nothing replaces the registered instance while it is   *)
(* used.                                                                   *)
LEMMA MappedStep ==
    ASSUME ModeAssumption, OneByOne, \A f \in Facade : Tenant(f),
           RegInv, Mapped, [Next]_vars
    PROVE  Mapped'
<1>0. Types /\ Alone /\ (\A g \in Facade : Used(g)) /\ (\A u \in tail : Stopping(u))
  BY Zenon DEF RegInv
<1>n. (\A j \in Inst : j # None) /\ (\A g \in Facade : client[g] # None => client[g] \in Inst)
  BY RegIds, Zenon
<1>u. \A g \in Facade : Active(g) =>
          client[g] = map /\ map # None /\ map \in running /\ g \in tenants[map]
  BY <1>0 DEF Used, Mapped
<1>1. ASSUME NEW f \in Facade, Start(f) PROVE Mapped'
  <2>1. /\ \A g \in Facade : pc[g] = "idle" /\ f \notin started
        /\ started' = started \cup {f} /\ UNCHANGED <<map, client>>
    BY <1>1, Zenon DEF Start, Quiet, OneByOne
  <2>2. /\ held' = [held EXCEPT ![f] = Found]
        /\ pc' = [pc EXCEPT ![f] = IF Found = None THEN "make" ELSE "boot"]
    BY <1>1, Zenon DEF Start, Tenant
  <2>3. /\ held'[f] = Found /\ pc'[f] = IF Found = None THEN "make" ELSE "boot"
        /\ \A g \in Facade : g # f => pc'[g] = "idle"
    BY <1>0, <2>1, <2>2, Zenon DEF Types
  <2>4. Found = None \/ Found = map
    BY Zenon DEF Found
  <2>5. ASSUME NEW g \in Facade, Active(g) PROVE Found = map /\ map # None
    BY <1>u, <2>5, Zenon DEF Found, Alive
  <2>6. \A g \in Facade : Active(g)' => g # f /\ Active(g)
    BY <2>1, <2>3, Zenon DEF Active
  <2> QED BY <1>u, <2>1, <2>3, <2>4, <2>5, <2>6, Zenon DEF Mapped
<1>2. ASSUME NEW f \in Facade, Make(f) PROVE Mapped'
  <2>1. /\ pc[f] = "make" /\ map' = made + 1 /\ UNCHANGED <<started, client>>
        /\ held' = [held EXCEPT ![f] = made + 1] /\ pc' = [pc EXCEPT ![f] = "boot"]
    BY <1>2, Zenon DEF Make
  <2>2. /\ held'[f] = map' /\ pc'[f] = "boot"
        /\ \A g \in Facade : g # f => pc'[g] = "idle" /\ pc[g] = "idle"
    BY <1>0, <2>1, Zenon DEF Types, Alone
  <2>3. \A g \in Facade : ~Active(g) /\ ~Active(g)'
    BY <2>1, <2>2, Zenon DEF Mapped, Active
  <2> QED BY <2>2, <2>3, Zenon DEF Mapped
<1>3. ASSUME NEW f \in Facade, Boot(f) PROVE Mapped'
  <2>1. /\ pc[f] = "boot" /\ held[f] = map /\ UNCHANGED client
        /\ \A g \in Facade : g # f => pc[g] = "idle"
    BY <1>0, <1>3, Zenon DEF Boot, Mapped, Alone
  <2>2. CASE pc' = [pc EXCEPT ![f] = "register"] /\ UNCHANGED <<map, started, held>>
    <3>1. pc'[f] = "register" /\ \A g \in Facade : g # f => pc'[g] = "idle"
      BY <1>0, <2>1, <2>2, Zenon DEF Types
    <3> QED BY <2>1, <2>2, <3>1, Zenon DEF Mapped, Active
  <2>3. CASE /\ map \notin running /\ started' = started \ {f}
             /\ pc' = [pc EXCEPT ![f] = "idle"]
    <3>1. \A g \in Facade : pc'[g] = "idle"
      BY <1>0, <2>1, <2>3, Zenon DEF Types
    <3>2. \A g \in Facade : ~Active(g)'
      BY <1>u, <2>1, <2>3, Zenon DEF Active
    <3> QED BY <3>1, <3>2, Zenon DEF Mapped
  <2> QED BY <1>3, <2>1, <2>2, <2>3, Zenon DEF Boot
<1>4. ASSUME NEW f \in Facade, Register(f) PROVE Mapped'
  <2>1. /\ pc[f] = "register" /\ held[f] = map /\ client' = [client EXCEPT ![f] = map]
        /\ pc' = [pc EXCEPT ![f] = "idle"] /\ UNCHANGED <<map, started>>
        /\ \A g \in Facade : g # f => pc[g] = "idle"
    BY <1>0, <1>4, Zenon DEF Register, Mapped, Alone
  <2>2. /\ \A g \in Facade : pc'[g] = "idle" /\ client'[f] = map
        /\ \A g \in Facade : g # f => client'[g] = client[g]
    BY <1>0, <2>1, Zenon DEF Types
  <2> QED BY <2>1, <2>2, Zenon DEF Mapped, Active
<1>5. ASSUME NEW f \in Facade, Shutdown(f) PROVE Mapped'
  <2>1. /\ \A g \in Facade : pc[g] = "idle" /\ f \in started
        /\ started' = started \ {f} /\ UNCHANGED pc
    BY <1>5, Zenon DEF Shutdown, Quiet, OneByOne
  <2>2. CASE UNCHANGED <<map, client>>
    BY <2>1, <2>2, Zenon DEF Mapped, Active
  <2>3. CASE Kind[f] # "pull"
    <3>1. /\ tenants' = Without(client[f], f) /\ client' = [client EXCEPT ![f] = None]
          /\ map' = IF client[f] # None /\ tenants'[client[f]] = {} THEN Removed(client[f]) ELSE map
      BY <1>5, <2>3, Zenon DEF Shutdown, Tenant
    <3>2. \A j \in Inst : tenants'[j] = tenants[j] \ {f}
      BY <3>1, LeftTables, Zenon
    <3>3. \A g \in Facade : g # f => client'[g] = client[g]
      BY <1>0, <3>1, Zenon DEF Types
    <3>4. \A g \in Facade : Active(g)' => g # f /\ Active(g) /\ client'[g] = map
      BY <2>1, <3>3, Zenon DEF Active, Mapped
    <3>5. ASSUME NEW g \in Facade, Active(g)' PROVE map' = map
      <4>1. map \in Inst /\ g \in tenants[map] /\ g # f
        BY <1>n, <1>u, <3>4, <3>5, Zenon
      <4> QED BY <3>1, <3>2, <4>1, Zenon DEF Removed
    <3> QED BY <2>1, <3>4, <3>5, Zenon DEF Mapped
  <2> QED BY <1>5, <2>2, <2>3, Zenon DEF Shutdown
<1>6. ASSUME NEW t \in tail, Finalize(t) PROVE Mapped'
  <2>1. UNCHANGED <<started, pc, held>> /\ t.facade \in Facade
    BY <1>0, <1>6, Zenon DEF Finalize, Types
  <2>2. CASE t.inst # None
    <3>1. Stop(t.inst, tenants) /\ UNCHANGED <<tenants, client>>
      BY <1>6, <2>2, Zenon DEF Finalize
    <3>2. CASE map' = map
      BY <2>1, <3>1, <3>2, Zenon DEF Mapped, Active
    <3>3. CASE map = t.inst /\ tenants[t.inst] = {}
      BY <1>0, <2>2, <3>3, Zenon DEF Stopping
    <3> QED BY <3>1, <3>2, <3>3, Zenon DEF Stop, Removed
  <2>3. CASE t.inst = None
    <3> DEFINE f == t.facade
               i == client[f]
    <3>1. Stop(i, tenants') /\ tenants' = Without(i, f) /\ client' = [client EXCEPT ![f] = None]
      BY <1>6, <2>3, Zenon DEF Finalize
    <3>2. f \notin started /\ \A g \in Facade : pc[g] = "idle"
      BY <1>0, <2>1, <2>3, Zenon DEF Stopping, Alone
    <3>3. \A j \in Inst : tenants'[j] = tenants[j] \ {f}
      BY <2>1, <3>1, LeftTables, Zenon
    <3>4. \A g \in Facade : g # f => client'[g] = client[g]
      BY <1>0, <3>1, Zenon DEF Types
    <3>5. \A g \in Facade : Active(g)' => g # f /\ Active(g) /\ client'[g] = map
      BY <2>1, <3>2, <3>4, Zenon DEF Active, Mapped
    <3>6. ASSUME NEW g \in Facade, Active(g)' PROVE map' = map
      <4>1. map \in Inst /\ g \in tenants[map] /\ g # f
        BY <1>n, <1>u, <3>5, <3>6, Zenon
      <4> QED BY <3>1, <3>3, <4>1, Zenon DEF Stop, Removed
    <3> QED BY <2>1, <3>2, <3>5, <3>6, Zenon DEF Mapped
  <2> QED BY <2>2, <2>3, Zenon
<1>7. CASE UNCHANGED vars
  BY <1>7, Zenon DEF vars, Mapped, Active
<1> QED BY <1>1, <1>2, <1>3, <1>4, <1>5, <1>6, <1>7, Zenon DEF Next

(* create_mq_client_instance: without admins, every facade that started    *)
(* works on a running instance, and all of them on the same one.           *)
THEOREM OneInstance ==
    ASSUME ModeAssumption, OneByOne, \A f \in Facade : Kind[f] # "admin"
    PROVE  Spec => [](InUse /\ Shared)
<1>1. Init => RegInv /\ Mapped
  BY RegInitially, Zenon DEF Init, Mapped, Active
<1>2. RegInv /\ Mapped /\ [Next]_vars => RegInv' /\ Mapped'
  BY RegStep, MappedStep, Zenon DEF Tenant
<1>3. RegInv /\ Mapped => InUse /\ Shared
  BY Zenon DEF RegInv, Used, Tenant, InUse, Shared, Mapped
<1> QED BY <1>1, <1>2, <1>3, PTL DEF Spec

-----------------------------------------------------------------------------
(* The loops of an instance, for any duties and calls one after the other. *)

LoopRec == [kind : Duty \cup {"none"}, aborted : BOOLEAN, woken : BOOLEAN,
            pc : {"none", "top", "wait", "work", "dead"}]
CallRec == [pc : Lp!CallPc, todo : SUBSET Duty, id : 0..MaxLoops]

(* Ids are given in order; no two calls overlap.                           *)
LoopTypes ==
    /\ loopsStarted \in BOOLEAN
    /\ loop \in [Lp!Id -> LoopRec] /\ call \in [Caller -> CallRec]
    /\ \E n \in 0..MaxLoops : Lp!Spawned = 1..n
    /\ \A c, d \in Caller : call[c].pc # "idle" /\ d # c => call[d].pc = "idle"

Starting == {"fetch", "spawn", "push"}

(* Somebody holds the handle of every loop that was not told to end, and   *)
(* the duties a start has yet to spawn have none.                          *)
Handles ==
    /\ \A l \in Lp!Running :
          l \in tasks \/ \E c \in Caller : call[c].pc = "push" /\ call[c].id = l
    /\ \A c \in Caller : call[c].pc \in Starting =>
          loopsStarted /\ \A l \in Lp!Running : loop[l].kind \notin call[c].todo

LoopsInv == LoopTypes /\ Handles /\ Lp!OneLoopPerKind /\ Lp!NoneLeftBehind

-----------------------------------------------------------------------------
(* A step that spawns nothing ends loops or leaves them.                   *)
Fewer ==
    /\ loop' \in [Lp!Id -> LoopRec]
    /\ \A l \in Lp!Id : /\ loop'[l].kind = loop[l].kind
                        /\ loop'[l].pc = "none" <=> loop[l].pc = "none"
    /\ Lp!Running' \subseteq Lp!Running

(* A send on the stop channel ends no loop by itself.                      *)
LEMMA SendFewer == ASSUME NEW v \in BOOLEAN, LoopTypes, Lp!Send(v) PROVE Fewer
<1> DEFINE R == {l \in Lp!Id : loop[l].pc = "wait"}
<1>1. loop' = [l \in Lp!Id |-> IF l \in R THEN [loop[l] EXCEPT !.woken = TRUE] ELSE loop[l]]
  BY Zenon DEF Lp!Send
<1>2. \A l \in Lp!Id : loop[l] \in LoopRec
  BY Zenon DEF LoopTypes
<1>3. \A l \in Lp!Id : /\ loop'[l] \in LoopRec /\ loop'[l].kind = loop[l].kind
                       /\ loop'[l].pc = loop[l].pc /\ loop'[l].aborted = loop[l].aborted
  BY <1>1, <1>2, Zenon DEF LoopRec
<1>4. Lp!Running' \subseteq Lp!Running
  BY <1>3, Zenon DEF Lp!Running, Lp!Live
<1> QED BY <1>1, <1>3, <1>4, Zenon DEF Fewer

(* A step of a loop starts none.                                           *)
LEMMA StepFewer == ASSUME LoopTypes, NEW l \in Lp!Id, Lp!LoopStep(l) PROVE Fewer
<1>1. loop[l] \in LoopRec /\ loop \in [Lp!Id -> LoopRec]
  BY Zenon DEF LoopTypes
<1>2. PICK p \in {"wait", "work", "top", "dead"} : Lp!Become(l, p)
          /\ loop[l].pc \in {"top", "wait", "work"}
  BY Zenon DEF Lp!LoopStep, Lp!WaitBegin, Lp!Woken, Lp!Tick, Lp!WorkDone, Lp!Dropped, Lp!Live
<1>3. loop' = [loop EXCEPT ![l] = [loop[l] EXCEPT !.pc = p, !.woken = FALSE]]
  BY <1>1, <1>2, Zenon DEF Lp!Become
<1>4. /\ loop' \in [Lp!Id -> LoopRec] /\ loop'[l].pc = p /\ loop'[l].kind = loop[l].kind
      /\ loop'[l].aborted = loop[l].aborted /\ \A m \in Lp!Id : m # l => loop'[m] = loop[m]
  BY <1>1, <1>3, Zenon DEF LoopRec
<1>5. Lp!Running' \subseteq Lp!Running
  BY <1>2, <1>4, Zenon DEF Lp!Running, Lp!Live
<1> QED BY <1>2, <1>4, <1>5, Zenon DEF Fewer

(* The ids given out stay the first ones.                                  *)
LEMMA FewerSpawned ==
    ASSUME LoopTypes, Fewer
    PROVE  (\E n \in 0..MaxLoops : Lp!Spawned = 1..n)' /\ (Lp!OneLoopPerKind
        => Lp!OneLoopPerKind')
<1>1. Lp!Spawned' = Lp!Spawned
  BY Zenon DEF Fewer, Lp!Spawned
<1>2. Lp!OneLoopPerKind => Lp!OneLoopPerKind'
  BY DEF Fewer, Lp!OneLoopPerKind, Lp!Running, Lp!Live
<1> QED BY <1>1, <1>2, Zenon DEF LoopTypes

(* A call that goes on while loops end: what it must still keep.           *)
LEMMA CallGoesOn ==
    ASSUME Lp!LoopsAssumption, LoopsInv, Fewer, NEW c \in Caller, NEW r \in CallRec,
           call[c].pc # "idle" \/ Lp!Idle, call' = [call EXCEPT ![c] = r],
           loopsStarted' \in BOOLEAN,
           \A l \in Lp!Running' : l \in tasks' \/ (r.pc = "push" /\ r.id = l),
           r.pc \in Starting => loopsStarted'
               /\ \A l \in Lp!Running' : loop[l].kind \notin r.todo,
           r.pc = "idle" /\ ~loopsStarted' => Lp!Running' = {}
    PROVE  LoopsInv'
<1>0. LoopTypes /\ call[c] \in CallRec /\ Lp!OneLoopPerKind
  BY Zenon DEF LoopsInv, LoopTypes
<1>1. /\ call'[c] = r /\ \A d \in Caller : d # c => call'[d] = call[d] /\ call[d].pc = "idle"
      /\ call' \in [Caller -> CallRec]
  BY <1>0, Zenon DEF LoopTypes, Lp!Idle
<1>2. LoopTypes'
  BY <1>0, <1>1, FewerSpawned, SMTT(30) DEF LoopTypes, Fewer
<1>3. \A l \in Lp!Running' : loop'[l].kind = loop[l].kind
  BY Zenon DEF Fewer, Lp!Running, Lp!Live
<1>4. Handles'
  BY <1>1, <1>3, Zenon DEF Handles, Starting
<1>5. Lp!NoneLeftBehind'
  BY <1>1, Zenon DEF Lp!NoneLeftBehind, Lp!Idle
<1> QED BY <1>0, <1>2, <1>4, <1>5, FewerSpawned, Zenon DEF LoopsInv

(* Every step of a call or of a loop keeps the invariant.                  *)
LEMMA LoopsStep ==
    ASSUME Lp!LoopsAssumption, LoopsOverlap = FALSE, LoopsInv, [Lp!Next]_Lp!vars
    PROVE  LoopsInv'
<1>0. /\ LoopTypes /\ Handles /\ Lp!OneLoopPerKind /\ Lp!NoneLeftBehind
      /\ loopsStarted \in BOOLEAN /\ \A c \in Caller : call[c] \in CallRec
  BY Zenon DEF LoopsInv, LoopTypes
<1>n. \A c \in Caller, d \in Caller : call[c].pc # "idle" /\ call[d].pc # "idle" => c = d
  BY <1>0, Zenon DEF LoopTypes
<1>f. ASSUME UNCHANGED loop PROVE Fewer
  BY <1>0, <1>f, Zenon DEF Fewer, Lp!Running, Lp!Live, LoopTypes
<1>1. ASSUME NEW c \in Caller, Lp!StartBegin(c) PROVE LoopsInv'
  <2> DEFINE p == IF Dynamic THEN "fetch" ELSE "spawn"
             r == [Lp!NoCall EXCEPT !.pc = p, !.todo = Duty]
  <2>0. p \in {"fetch", "spawn"} /\ 0 \in 0..MaxLoops
    BY DEF Lp!LoopsAssumption
  <2> HIDE DEF p
  <2>1. r \in CallRec /\ r.pc = p
    BY <2>0, Zenon DEF Lp!NoCall, CallRec, Lp!CallPc
  <2>2. Fewer /\ Lp!Idle /\ ~loopsStarted /\ loopsStarted' = TRUE
            /\ call' = [call EXCEPT ![c] = r] /\ tasks' = tasks
    BY <1>0, <1>1, SendFewer, Zenon DEF Lp!StartBegin, Lp!MayCall, p
  <2>3. Lp!Running' = {}
    BY <1>0, <2>2, Zenon DEF Lp!NoneLeftBehind, Fewer
  <2> HIDE DEF r
  <2> QED BY <1>0, <2>0, <2>1, <2>2, <2>3, CallGoesOn, Zenon
<1>2. ASSUME NEW c \in Caller, Lp!Fetched(c) PROVE LoopsInv'
  <2> DEFINE r == [call[c] EXCEPT !.pc = "spawn"]
  <2>1. r \in CallRec /\ r.pc = "spawn" /\ r.todo = call[c].todo
    BY <1>0, Zenon DEF CallRec, Lp!CallPc
  <2>2. call[c].pc = "fetch" /\ call' = [call EXCEPT ![c] = r]
            /\ UNCHANGED <<loopsStarted, tasks, loop>>
    BY <1>2, Zenon DEF Lp!Fetched, Lp!Enter
  <2>3. Fewer /\ Lp!Running' = Lp!Running
    BY <1>f, <2>2, Zenon DEF Lp!Running, Lp!Live
  <2>4. \A l \in Lp!Running : l \in tasks /\ loop[l].kind \notin call[c].todo
    BY <1>0, <1>n, <2>2, Zenon DEF Handles, Starting
  <2>5. loopsStarted
    BY <1>0, <2>2, Zenon DEF Handles, Starting
  <2> HIDE DEF r
  <2> QED BY <1>0, <2>1, <2>2, <2>3, <2>4, <2>5, CallGoesOn, Zenon
<1>3. ASSUME NEW c \in Caller, Lp!FetchFails(c) PROVE LoopsInv'
  <2> DEFINE r == [call[c] EXCEPT !.pc = "failSignal"]
  <2>1. r \in CallRec /\ r.pc = "failSignal"
    BY <1>0, Zenon DEF CallRec, Lp!CallPc
  <2>2. /\ call[c].pc = "fetch" /\ call' = [call EXCEPT ![c] = r] /\ loopsStarted' = FALSE
        /\ UNCHANGED <<tasks, loop>>
    BY <1>3, Zenon DEF Lp!FetchFails, Lp!Enter
  <2>3. Fewer /\ Lp!Running' = Lp!Running
    BY <1>f, <2>2, Zenon DEF Lp!Running, Lp!Live
  <2>4. \A l \in Lp!Running : l \in tasks
    BY <1>0, <1>n, <2>2, Zenon DEF Handles
  <2> HIDE DEF r
  <2> QED BY <1>0, <2>1, <2>2, <2>3, <2>4, CallGoesOn, Zenon DEF Starting
<1>4. ASSUME NEW c \in Caller, Lp!Spawn(c) PROVE LoopsInv'
  <2>1. PICK n \in 0..MaxLoops : Lp!Spawned = 1..n
    BY <1>0, Zenon DEF LoopTypes
  <2>2. Lp!Cardinality(Lp!Spawned) = n
    <3>1. Cardinality(Lp!Spawned) = n
      BY <2>1, FS_Interval DEF Lp!LoopsAssumption
    <3>2. Lp!Cardinality(Lp!Spawned) = Cardinality(Lp!Spawned)
      BY ZenonT(40) DEF Lp!Cardinality, Cardinality
    <3> QED BY <3>1, <3>2
  <2>3. PICK k \in call[c].todo :
           /\ loop' = [loop EXCEPT ![n + 1] = [Lp!NoLoop EXCEPT !.kind = k, !.pc = "top"]]
           /\ call' = [call EXCEPT ![c] = [pc |-> "push", todo |-> call[c].todo \ {k},
                  id |-> n + 1]]
    BY <1>4, <2>2 DEF Lp!Spawn
  <2>4. call[c].pc = "spawn" /\ n < MaxLoops /\ UNCHANGED <<loopsStarted, tasks>>
    BY <1>4, <2>2 DEF Lp!Spawn
  <2> DEFINE r == [pc |-> "push", todo |-> call[c].todo \ {k}, id |-> n + 1]
             new == [Lp!NoLoop EXCEPT !.kind = k, !.pc = "top"]
  <2>5. /\ n + 1 \in Lp!Id /\ n + 1 \notin Lp!Spawned /\ n + 1 \in 0..MaxLoops
        /\ (1..n) \cup {n + 1} = 1..(n + 1)
    BY <2>1, <2>4 DEF Lp!Id, Lp!LoopsAssumption
  <2>6. r \in CallRec /\ r.pc = "push" /\ r.id = n + 1 /\ r.todo = call[c].todo \ {k}
            /\ k \in Duty
    BY <1>0, <2>5, Zenon DEF CallRec, Lp!CallPc
  <2>7. new \in LoopRec /\ new.kind = k /\ new.pc = "top" /\ new.aborted = FALSE
    BY <2>6, Zenon DEF Lp!NoLoop, LoopRec
  <2> HIDE DEF r, new
  <2>8. /\ loop' \in [Lp!Id -> LoopRec] /\ loop'[n + 1] = new
        /\ \A l \in Lp!Id : l # n + 1 => loop'[l] = loop[l]
    BY <1>0, <2>3, <2>5, <2>7, Zenon DEF LoopTypes, new
  <2>9. /\ call' \in [Caller -> CallRec] /\ call'[c] = r
        /\ \A d \in Caller : d # c => call'[d] = call[d] /\ call[d].pc = "idle"
    BY <1>0, <1>n, <2>3, <2>4, <2>6, Zenon DEF LoopTypes, r
  <2>10. /\ Lp!Running' = Lp!Running \cup {n + 1} /\ n + 1 \notin Lp!Running
         /\ Lp!Spawned' = Lp!Spawned \cup {n + 1}
    BY <2>5, <2>7, <2>8, Zenon DEF Lp!Running, Lp!Live, Lp!Spawned
  <2>11. LoopTypes'
    <3>1. \E m \in 0..MaxLoops : Lp!Spawned' = 1..m
      BY <2>1, <2>5, <2>10, Zenon
    <3>2. \A d, e \in Caller : call'[d].pc # "idle" /\ e # d => call'[e].pc = "idle"
      BY <2>9, Zenon
    <3> QED BY <1>0, <2>4, <2>8, <2>9, <3>1, <3>2, ZenonT(40) DEF LoopTypes
  <2>12. \A l \in Lp!Running : /\ l \in tasks /\ loop[l].kind \notin call[c].todo /\ l \in Lp!Id
                               /\ loop'[l] = loop[l]
    BY <1>0, <1>n, <2>4, <2>8, <2>10, SMTT(30) DEF Handles, Starting, Lp!Running, Lp!Live
  <2>13. Handles'
    <3>1. loopsStarted
      BY <1>0, <2>4, Zenon DEF Handles, Starting
    <3> QED BY <2>4, <2>6, <2>7, <2>8, <2>9, <2>10, <2>12, <3>1, Zenon DEF Handles, Starting
  <2>14. Lp!OneLoopPerKind'
    BY <1>0, <2>7, <2>8, <2>10, <2>12, SMTT(30) DEF Lp!OneLoopPerKind
  <2>15. Lp!NoneLeftBehind'
    BY <2>6, <2>9, Zenon DEF Lp!NoneLeftBehind, Lp!Idle
  <2> QED BY <2>11, <2>13, <2>14, <2>15, Zenon DEF LoopsInv
<1>5. ASSUME NEW c \in Caller, Lp!Push(c) PROVE LoopsInv'
  <2> DEFINE r == IF call[c].todo = {} THEN Lp!NoCall
                      ELSE [call[c] EXCEPT !.pc = "spawn", !.id = 0]
  <2>1. /\ r \in CallRec /\ r.pc \in {"idle", "spawn"}
        /\ r.pc = "spawn" => r.todo = call[c].todo
    <3>1. Lp!NoCall \in CallRec /\ Lp!NoCall.pc = "idle" /\ 0 \in 0..MaxLoops
      BY DEF Lp!NoCall, CallRec, Lp!CallPc, Lp!LoopsAssumption
    <3>2. /\ [call[c] EXCEPT !.pc = "spawn", !.id = 0] \in CallRec
          /\ [call[c] EXCEPT !.pc = "spawn", !.id = 0].pc = "spawn"
          /\ [call[c] EXCEPT !.pc = "spawn", !.id = 0].todo = call[c].todo
      BY <1>0, <3>1, Zenon DEF CallRec, Lp!CallPc
    <3> QED BY <3>1, <3>2, Zenon
  <2>2. /\ call[c].pc = "push" /\ call' = [call EXCEPT ![c] = r]
               /\ UNCHANGED <<loopsStarted, loop>>
        /\ tasks' = tasks \cup {call[c].id}
    BY <1>5, Zenon DEF Lp!Push
  <2>3. Fewer /\ Lp!Running' = Lp!Running
    BY <1>f, <2>2, Zenon DEF Lp!Running, Lp!Live
  <2>4. \A l \in Lp!Running : l \in tasks' /\ loop[l].kind \notin call[c].todo
    BY <1>0, <1>n, <2>2, Zenon DEF Handles, Starting
  <2>5. loopsStarted
    BY <1>0, <2>2, Zenon DEF Handles, Starting
  <2> HIDE DEF r
  <2> QED BY <1>0, <2>1, <2>2, <2>3, <2>4, <2>5, CallGoesOn, ZenonT(40) DEF Starting
<1>6. ASSUME NEW c \in Caller, Lp!ShutdownBegin(c) PROVE LoopsInv'
  <2> DEFINE r == [call[c] EXCEPT !.pc = "signal"]
  <2>1. r \in CallRec /\ r.pc = "signal"
    BY <1>0, Zenon DEF CallRec, Lp!CallPc
  <2>2. Lp!Idle /\ call' = [call EXCEPT ![c] = r] /\ loopsStarted' = FALSE
            /\ UNCHANGED <<tasks, loop>>
    BY <1>6, Zenon DEF Lp!ShutdownBegin, Lp!MayCall, Lp!Enter
  <2>3. Fewer /\ Lp!Running' = Lp!Running
    BY <1>f, <2>2, Zenon DEF Lp!Running, Lp!Live
  <2>4. \A l \in Lp!Running : l \in tasks
    BY <1>0, <2>2, Zenon DEF Handles, Lp!Idle
  <2> HIDE DEF r
  <2> QED BY <1>0, <2>1, <2>2, <2>3, <2>4, CallGoesOn, ZenonT(40) DEF Starting
<1>7. ASSUME NEW c \in Caller, Lp!Signal(c) PROVE LoopsInv'
  <2>1. PICK p \in {"abort", "failAbort"} : call' = [call EXCEPT ![c] = [call[c] EXCEPT !.pc = p]]
    BY <1>7, Zenon DEF Lp!Signal, Lp!Enter
  <2> DEFINE r == [call[c] EXCEPT !.pc = p]
  <2>2. r \in CallRec /\ r.pc = p
    BY <1>0, Zenon DEF CallRec, Lp!CallPc
  <2>3. call[c].pc \in {"signal", "failSignal"} /\ Fewer /\ UNCHANGED <<loopsStarted, tasks>>
    BY <1>0, <1>7, SendFewer, Zenon DEF Lp!Signal
  <2>4. \A l \in Lp!Running' : l \in tasks
    BY <1>0, <1>n, <2>3, Zenon DEF Handles, Fewer
  <2> HIDE DEF r
  <2>5. call' = [call EXCEPT ![c] = r]
    BY <2>1, Zenon DEF r
  <2> QED BY <1>0, <2>2, <2>3, <2>4, <2>5, CallGoesOn, ZenonT(40) DEF Starting
<1>8. ASSUME NEW c \in Caller, Lp!Abort(c) PROVE LoopsInv'
  <2>1. /\ call[c].pc \in {"abort", "failAbort"} /\ call' = [call EXCEPT ![c] = Lp!NoCall]
        /\ loop' = [l \in Lp!Id |-> IF l \in tasks THEN [loop[l] EXCEPT !.aborted = TRUE]
               ELSE loop[l]]
        /\ UNCHANGED loopsStarted
    BY <1>8, Zenon DEF Lp!Abort
  <2>2. Lp!NoCall \in CallRec /\ Lp!NoCall.pc = "idle"
    BY DEF Lp!NoCall, CallRec, Lp!CallPc, Lp!LoopsAssumption
  <2>3. \A l \in Lp!Id : loop[l] \in LoopRec
    BY <1>0, Zenon DEF LoopTypes
  <2>4. \A l \in Lp!Id : /\ loop'[l] \in LoopRec /\ loop'[l].kind = loop[l].kind
                         /\ loop'[l].pc = loop[l].pc
                         /\ loop'[l].aborted = (loop[l].aborted \/ l \in tasks)
    BY <2>1, <2>3, Zenon DEF LoopRec
  <2>5. \A l \in Lp!Running : l \in tasks
    BY <1>0, <1>n, <2>1, Zenon DEF Handles
  <2>6. Lp!Running' = {}
    BY <2>4, <2>5, Zenon DEF Lp!Running, Lp!Live
  <2>7. Fewer
    BY <2>1, <2>4, <2>6, Zenon DEF Fewer
  <2> QED BY <1>0, <2>1, <2>2, <2>6, <2>7, CallGoesOn, Zenon DEF Starting
<1>9. ASSUME Fewer, UNCHANGED <<loopsStarted, tasks, call>> PROVE LoopsInv'
  <2>1. LoopTypes' /\ Lp!OneLoopPerKind'
    BY <1>0, <1>9, FewerSpawned, Zenon DEF LoopTypes, Fewer
  <2>2. \A l \in Lp!Running' : l \in Lp!Running /\ loop'[l].kind = loop[l].kind
    BY <1>9, Zenon DEF Fewer, Lp!Running, Lp!Live
  <2>3. Handles'
    BY <1>0, <1>9, <2>2, Zenon DEF Handles
  <2>4. Lp!NoneLeftBehind'
    BY <1>0, <1>9, <2>2, Zenon DEF Lp!NoneLeftBehind, Lp!Idle
  <2> QED BY <2>1, <2>3, <2>4, Zenon DEF LoopsInv
<1>10. ASSUME NEW l \in Lp!Id, Lp!LoopStep(l) PROVE LoopsInv'
  <2>1. UNCHANGED <<loopsStarted, tasks, call>>
    BY <1>10, Zenon DEF Lp!LoopStep, Lp!WaitBegin, Lp!Woken, Lp!Tick, Lp!WorkDone, Lp!Dropped
  <2> QED BY <1>0, <1>9, <1>10, <2>1, StepFewer, Zenon
<1>11. CASE UNCHANGED Lp!vars
  BY <1>9, <1>11, <1>f, Zenon DEF Lp!vars
<1> QED BY <1>1, <1>2, <1>3, <1>4, <1>5, <1>6, <1>7, <1>8, <1>10, <1>11, Zenon DEF Lp!Next,
           Lp!CallStep

(* At first nothing is spawned.                                            *)
LEMMA LoopsInitially == ASSUME Lp!LoopsAssumption, Lp!Init PROVE LoopsInv
<1>1. Lp!NoLoop \in LoopRec /\ Lp!NoLoop.pc = "none"
  BY Zenon DEF Lp!NoLoop, LoopRec
<1>2. Lp!NoCall \in CallRec /\ Lp!NoCall.pc = "idle"
  BY DEF Lp!NoCall, CallRec, Lp!CallPc, Lp!LoopsAssumption
<1>3. Lp!Spawned = 1..0 /\ 0 \in 0..MaxLoops /\ Lp!Running = {}
  BY <1>1 DEF Lp!Init, Lp!Spawned, Lp!Running, Lp!Live, Lp!LoopsAssumption
<1>4. LoopTypes
  BY <1>1, <1>2, <1>3, Zenon DEF Lp!Init, LoopTypes
<1>5. Handles
  BY <1>2, <1>3, Zenon DEF Lp!Init, Handles, Starting
<1> QED BY <1>3, <1>4, <1>5, Zenon DEF LoopsInv, Lp!OneLoopPerKind, Lp!NoneLeftBehind

(* start, push_task and shutdown_factory: calls that follow one another    *)
(* leave one loop per duty that was not told to end, and none after a      *)
(* shutdown or a failed start has returned.                                *)
THEOREM LoopsHeld ==
    ASSUME Lp!LoopsAssumption, LoopsOverlap = FALSE
    PROVE  Lp!Spec => [](Lp!OneLoopPerKind /\ Lp!NoneLeftBehind)
<1>1. Lp!Init => LoopsInv
  BY LoopsInitially, Zenon
<1>2. LoopsInv /\ [Lp!Next]_Lp!vars => LoopsInv'
  BY LoopsStep, Zenon
<1>3. LoopsInv => Lp!OneLoopPerKind /\ Lp!NoneLeftBehind
  BY Zenon DEF LoopsInv
<1> QED BY <1>1, <1>2, <1>3, PTL DEF Lp!Spec

-----------------------------------------------------------------------------
(* Heartbeats, for any brokers, tasks that beat and disturbances.  What a  *)
(* beat may leave out and which brokers count as reached both rest on what *)
(* a round in progress knows of the broker it is talking to.               *)

Rnd == [pc : {"idle", "next", "sent", "answered"}, data : Nat, addrs : SUBSET Broker,
        todo : SUBSET Broker, ok : Nat, addr : Broker \cup {Hb!None}, simple : BOOLEAN,
        v2 : BOOLEAN, sub : BOOLEAN]

Beats ==
    /\ version \in Nat \ {0} /\ actual \subseteq Broker /\ cached \subseteq Broker
    /\ beaten \subseteq Broker /\ support \subseteq Broker
    /\ prints \in [Broker -> Nat] /\ DOMAIN ever = Broker
    /\ round \in [Loop -> Rnd]

(* The broker a round talks to has the data of a full body once it has     *)
(* answered; one that gets a body without subscriptions has had some; and  *)
(* a round of the route loop that counts a success reached one of the      *)
(* brokers it will record.                                                 *)
Talk(t) ==
    LET r == round[t] IN
    /\ r.pc # "idle" => r.data # 0
    /\ r.pc \in {"sent", "answered"} => r.addr \in Broker
    /\ r.pc \in {"sent", "answered"} /\ r.simple => ever[r.addr] # {}
    /\ r.pc = "answered" /\ ~r.simple => r.data \in ever[r.addr]
    /\ t = "route" /\ r.pc # "idle" => r.todo \subseteq r.addrs
    /\ t = "route" /\ r.pc \in {"sent", "answered"} => r.addr \in r.addrs
    /\ t = "route" /\ r.ok > 0 => \E b \in r.addrs : ever[b] # {}

Talks == \A t \in Loop : Talk(t)

BeatInv == Beats /\ Talks /\ Hb!PrintEarned /\ Hb!BeatenReached

-----------------------------------------------------------------------------
(* What a broker accepted is not taken back.                               *)
EverGrows == \A b \in Broker : ever[b] \subseteq ever'[b]

(* A round that is not touched says what it said.                          *)
LEMMA TalkKept ==
    ASSUME NEW t \in Loop, Beats, Talk(t), EverGrows, round'[t] = round[t]
    PROVE  Talk(t)'
<1>1. round[t] \in Rnd
  BY Zenon DEF Beats
<1>2. round[t].addrs \subseteq Broker
  BY <1>1, Zenon DEF Rnd
<1> QED BY <1>2, Zenon DEF Talk, EverGrows

(* A round that goes on to its next broker keeps what it is about.         *)
LEMMA OnRound ==
    ASSUME NEW r \in Rnd, NEW n \in Nat
    PROVE  /\ Hb!On(r, n) \in Rnd /\ Hb!On(r, n).pc = "next" /\ Hb!On(r, n).data = r.data
           /\ Hb!On(r, n).addrs = r.addrs /\ Hb!On(r, n).todo = r.todo /\ Hb!On(r, n).ok = n
  BY Zenon DEF Hb!On, Hb!Idle, Rnd

(* The steps of one task, each with what it does to its own round.         *)
LEMMA BeatStep ==
    ASSUME Hb!HeartbeatBounds, BeatInv, NEW t \in Loop, Hb!Step(t)
    PROVE  BeatInv'
<1>0. /\ round \in [Loop -> Rnd] /\ round[t] \in Rnd /\ Talk(t) /\ version \in Nat \ {0}
      /\ cached \subseteq Broker /\ actual \subseteq Broker /\ beaten \subseteq Broker
      /\ support \subseteq Broker /\ prints \in [Broker -> Nat] /\ DOMAIN ever = Broker
  BY Zenon DEF BeatInv, Beats, Talks
<1>s. ASSUME EverGrows, Talk(t)', \A u \in Loop : u # t => round'[u] = round[u]
      PROVE  Talks'
  BY <1>s, TalkKept, Zenon DEF Talks, BeatInv
<1>e. ASSUME ever' = ever PROVE EverGrows
  BY <1>e, Zenon DEF EverGrows
<1>1. CASE Hb!Begin(t)
  <2>1. /\ Hb!Begun(t) \in Rnd /\ Hb!Begun(t).pc = "next" /\ Hb!Begun(t).data = version
               /\ Hb!Begun(t).ok = 0
    BY <1>0, Zenon DEF Hb!Begun, Rnd
  <2>2. /\ round' = [round EXCEPT ![t] = Hb!Begun(t)] /\ t # "route" /\ ever' = ever
        /\ UNCHANGED <<version, actual, cached, beaten, support>>
        /\ prints' = prints \/ prints' = [b \in Broker |-> Hb!None]
    BY <1>1, Zenon DEF Hb!Begin, Hb!outside
  <2>3. round' \in [Loop -> Rnd] /\ round'[t] = Hb!Begun(t) /\ \A u \in Loop : u # t
            => round'[u] = round[u]
    BY <1>0, <2>1, <2>2, Zenon
  <2>4. Talk(t)'
    BY <1>0, <2>1, <2>2, <2>3, Zenon DEF Talk
  <2>5. Beats'
    BY <1>0, <2>2, <2>3 DEF Beats, Hb!None
  <2>6. Hb!PrintEarned' /\ Hb!BeatenReached'
    BY <2>2, Zenon DEF Hb!PrintEarned, Hb!BeatenReached, BeatInv, Hb!None
  <2> QED BY <1>s, <1>e, <2>2, <2>3, <2>4, <2>5, <2>6, Zenon DEF BeatInv
<1>2. CASE t = "route" /\ Hb!Refresh
  <2> DEFINE new == [round[t] EXCEPT !.pc = "next", !.data = version, !.ok = 0,
                                     !.addrs = actual, !.todo = actual]
  <2>1. new \in Rnd /\ new.pc = "next" /\ new.data = version /\ new.ok = 0
        /\ new.addrs = actual /\ new.todo = actual
    BY <1>0, Zenon DEF Rnd
  <2>2. /\ round' = round \/ round' = [round EXCEPT ![t] = new]
        /\ cached' = actual /\ ever' = ever
        /\ UNCHANGED <<version, actual, beaten, support, prints>>
    BY <1>2, Zenon DEF Hb!Refresh, Hb!outside, Hb!instance
  <2> HIDE DEF new
  <2>3. /\ round' \in [Loop -> Rnd] /\ \A u \in Loop : u # t => round'[u] = round[u]
        /\ round'[t] = round[t] \/ round'[t] = new
    BY <1>0, <2>1, <2>2, ZenonT(40)
  <2>4. Talk(t)'
    BY <1>0, <2>1, <2>2, <2>3, SMTT(30) DEF Talk
  <2>5. Beats'
    BY <1>0, <2>2, <2>3, Zenon DEF Beats
  <2>6. Hb!PrintEarned' /\ Hb!BeatenReached'
    BY <2>2, Zenon DEF Hb!PrintEarned, Hb!BeatenReached, BeatInv
  <2> QED BY <1>s, <1>e, <2>2, <2>3, <2>4, <2>5, <2>6, Zenon DEF BeatInv
<1>3. ASSUME NEW b \in Broker, Hb!Send(t, b) PROVE BeatInv'
  <2> DEFINE new == [round[t] EXCEPT !.pc = "sent", !.todo = round[t].todo \ {b}, !.addr = b,
                                     !.simple = Hb!Simple(b, round[t].data)]
  <2>0. Hb!Simple(b, round[t].data) \in BOOLEAN
    BY Zenon DEF Hb!Simple, Hb!HeartbeatBounds
  <2>1. /\ new \in Rnd /\ new.pc = "sent" /\ new.data = round[t].data /\ new.ok = round[t].ok
        /\ new.addrs = round[t].addrs /\ new.todo = round[t].todo \ {b} /\ new.addr = b
        /\ new.simple = Hb!Simple(b, round[t].data)
    BY <1>0, <2>0, Zenon DEF Rnd
  <2>2. /\ round' = [round EXCEPT ![t] = new] /\ ever' = ever /\ round[t].pc = "next"
        /\ b \in round[t].todo /\ UNCHANGED <<version, actual, cached, beaten, support, prints>>
    BY <1>3, Zenon DEF Hb!Send, Hb!outside, Hb!instance
  <2> HIDE DEF new
  <2>3. /\ round' \in [Loop -> Rnd] /\ \A u \in Loop : u # t => round'[u] = round[u]
        /\ round'[t] = new
    BY <1>0, <2>1, <2>2, Zenon
  <2>4. Hb!Simple(b, round[t].data) => ever[b] # {}
    BY <1>0, <2>2, Zenon DEF Hb!Simple, Talk, BeatInv, Hb!PrintEarned, Hb!None
  <2>5. Talk(t)'
    BY <1>0, <2>1, <2>2, <2>3, <2>4, Zenon DEF Talk
  <2>6. Beats'
    BY <1>0, <2>2, <2>3, Zenon DEF Beats
  <2>7. Hb!PrintEarned' /\ Hb!BeatenReached'
    BY <2>2, Zenon DEF Hb!PrintEarned, Hb!BeatenReached, BeatInv
  <2> QED BY <1>s, <1>e, <2>2, <2>3, <2>5, <2>6, <2>7, ZenonT(40) DEF BeatInv
<1>4. ASSUME NEW again \in BOOLEAN, Hb!BrokerAnswers(t, again) PROVE BeatInv'
  <2> DEFINE b == round[t].addr
             sub == again \/ (round[t].simple /\ reg[b] # round[t].data)
             new == [round[t] EXCEPT !.pc = "answered", !.v2 = UseV2 /\ b \in V2Broker,
                                     !.sub = sub]
  <2>0. (UseV2 /\ b \in V2Broker) \in BOOLEAN /\ sub \in BOOLEAN
    BY Zenon
  <2>1. /\ new \in Rnd /\ new.pc = "answered" /\ new.data = round[t].data /\ new.ok = round[t].ok
        /\ new.addrs = round[t].addrs /\ new.todo = round[t].todo /\ new.addr = b
        /\ new.simple = round[t].simple
    BY <1>0, <2>0, ZenonT(40) DEF Rnd
  <2>2. /\ round' = [round EXCEPT ![t] = new] /\ round[t].pc = "sent"
        /\ ever' = IF round[t].simple THEN ever ELSE [ever EXCEPT ![b] = @ \cup {round[t].data}]
        /\ UNCHANGED <<version, actual, cached, beaten, support, prints>>
    BY <1>4, Zenon DEF Hb!BrokerAnswers, Hb!instance
  <2> HIDE DEF new, sub
  <2>3. /\ round' \in [Loop -> Rnd] /\ \A u \in Loop : u # t => round'[u] = round[u]
        /\ round'[t] = new
    BY <1>0, <2>1, <2>2, Zenon
  <2>4. b \in Broker
    BY <1>0, <2>2, Zenon DEF Talk
  <2>5. /\ EverGrows /\ DOMAIN ever' = Broker
        /\ ~round[t].simple => round[t].data \in ever'[b]
        /\ round[t].simple => ever' = ever
    BY <1>0, <2>2, <2>4, Zenon DEF EverGrows
  <2>6. round[t].addrs \subseteq Broker
    BY <1>0, ZenonT(40) DEF Rnd
  <2>7. Talk(t)'
    BY <1>0, <2>1, <2>2, <2>3, <2>4, <2>5, <2>6, SMTT(30) DEF Talk, EverGrows
  <2>8. Beats'
    BY <1>0, <2>2, <2>3, <2>5, Zenon DEF Beats
  <2>9. Hb!PrintEarned' /\ Hb!BeatenReached'
    BY <1>0, <2>2, <2>5, Zenon DEF Hb!PrintEarned, Hb!BeatenReached, BeatInv, EverGrows
  <2> QED BY <1>s, <2>3, <2>5, <2>7, <2>8, <2>9, Zenon DEF BeatInv
<1>5. CASE Hb!Lose(t)
  <2> DEFINE new == Hb!On(round[t], round[t].ok)
  <2>1. round[t].ok \in Nat
    BY <1>0, Zenon DEF Rnd
  <2>2. /\ new \in Rnd /\ new.pc = "next" /\ new.data = round[t].data
        /\ new.addrs = round[t].addrs /\ new.todo = round[t].todo /\ new.ok = round[t].ok
    BY <1>0, <2>1, OnRound, Zenon
  <2>3. /\ round' = [round EXCEPT ![t] = new] /\ round[t].pc = "sent" /\ ever' = ever
        /\ UNCHANGED <<version, actual, cached, beaten, support, prints>>
    BY <1>5, Zenon DEF Hb!Lose, Hb!instance
  <2> HIDE DEF new
  <2>4. /\ round' \in [Loop -> Rnd] /\ \A u \in Loop : u # t => round'[u] = round[u]
        /\ round'[t] = new
    BY <1>0, <2>2, <2>3, Zenon
  <2>5. Talk(t)'
    BY <1>0, <2>2, <2>3, <2>4, Zenon DEF Talk
  <2>6. Beats'
    BY <1>0, <2>3, <2>4, Zenon DEF Beats
  <2>7. Hb!PrintEarned' /\ Hb!BeatenReached'
    BY <2>3, Zenon DEF Hb!PrintEarned, Hb!BeatenReached, BeatInv
  <2> QED BY <1>s, <1>e, <2>3, <2>4, <2>5, <2>6, <2>7, Zenon DEF BeatInv
<1>6. CASE Hb!Apply(t)
  <2> DEFINE r == round[t]
             full == UseV2 /\ ~r.simple /\ r.v2
             new == Hb!On(r, 1)
  <2>1. /\ new \in Rnd /\ new.pc = "next" /\ new.data = r.data
        /\ new.addrs = r.addrs /\ new.todo = r.todo /\ new.ok = 1
    BY <1>0, OnRound, Zenon
  <2>2. /\ round' = [round EXCEPT ![t] = new] /\ r.pc = "answered" /\ ever' = ever
        /\ support' = IF full THEN support \cup {r.addr} ELSE support
        /\ \/ prints' = prints \/ prints' = [prints EXCEPT ![r.addr] = Hb!None]
           \/ full /\ prints' = [prints EXCEPT ![r.addr] = r.data]
        /\ UNCHANGED <<version, actual, cached, beaten>>
    BY <1>6, Zenon DEF Hb!Apply, Hb!outside
  <2>3. /\ r.addr \in Broker /\ ever[r.addr] # {} /\ (~r.simple => r.data \in ever[r.addr])
        /\ t = "route" => r.addr \in r.addrs
        /\ r.data \in Nat
    BY <1>0, <2>2, Zenon DEF Talk, Rnd
  <2> HIDE DEF new
  <2>4. /\ round' \in [Loop -> Rnd] /\ \A u \in Loop : u # t => round'[u] = round[u]
        /\ round'[t] = new
    BY <1>0, <2>1, <2>2, ZenonT(40)
  <2>5. Talk(t)'
    BY <1>0, <2>1, <2>2, <2>3, <2>4, SMTT(30) DEF Talk
  <2>6. Beats'
    BY <1>0, <2>2, <2>3, <2>4, SMTT(30) DEF Beats, Hb!None
  <2>7. Hb!PrintEarned'
    BY <1>0, <2>2, <2>3, Zenon DEF Hb!PrintEarned, BeatInv, Hb!None
  <2>8. Hb!BeatenReached'
    BY <2>2, Zenon DEF Hb!BeatenReached, BeatInv
  <2> QED BY <1>s, <1>e, <2>2, <2>4, <2>5, <2>6, <2>7, <2>8, ZenonT(40) DEF BeatInv
<1>7. CASE Hb!EndRound(t)
  <2>1. Hb!Idle \in Rnd /\ Hb!Idle.pc = "idle" /\ Hb!Idle.ok = 0
    BY Zenon DEF Hb!Idle, Rnd, Hb!None
  <2>2. /\ round' = [round EXCEPT ![t] = Hb!Idle] /\ ever' = ever
        /\ beaten' = IF t = "route" /\ round[t].ok > 0 THEN round[t].addrs ELSE beaten
        /\ UNCHANGED <<version, actual, cached, support, prints>>
    BY <1>7, Zenon DEF Hb!EndRound, Hb!outside, Hb!instance
  <2>3. /\ round' \in [Loop -> Rnd] /\ \A u \in Loop : u # t => round'[u] = round[u]
        /\ round'[t] = Hb!Idle
    BY <1>0, <2>1, <2>2, ZenonT(40)
  <2>4. Talk(t)'
    BY <2>1, <2>3, SMTT(30) DEF Talk
  <2>5. Beats'
    BY <1>0, <2>2, <2>3, Zenon DEF Beats, Rnd
  <2>6. Hb!PrintEarned'
    BY <2>2, Zenon DEF Hb!PrintEarned, BeatInv
  <2>7. Hb!BeatenReached'
    BY <1>0, <2>2, Zenon DEF Hb!BeatenReached, BeatInv, Talk
  <2> QED BY <1>s, <1>e, <2>2, <2>3, <2>4, <2>5, <2>6, <2>7, ZenonT(40) DEF BeatInv
<1> QED BY <1>1, <1>2, <1>3, <1>4, <1>5, <1>6, <1>7, ZenonT(40) DEF Hb!Step

(* A subscription, a restart of a broker or a change of the route touches  *)
(* no round and nothing the instance remembers.                            *)
LEMMA BeatInvStep ==
    ASSUME Hb!HeartbeatBounds, BeatInv, [Hb!Next]_Hb!vars
    PROVE  BeatInv'
<1>1. ASSUME version' \in Nat \ {0}, actual' \subseteq Broker,
             UNCHANGED <<cached, beaten, support, prints, ever, round>>
      PROVE  BeatInv'
  <2>1. Beats' /\ EverGrows
    BY <1>1, Zenon DEF BeatInv, Beats, EverGrows
  <2>2. Talks'
    BY <1>1, <2>1, TalkKept, Zenon DEF BeatInv, Talks
  <2>3. Hb!PrintEarned' /\ Hb!BeatenReached'
    BY <1>1, Zenon DEF BeatInv, Hb!PrintEarned, Hb!BeatenReached
  <2> QED BY <2>1, <2>2, <2>3, Zenon DEF BeatInv
<1>2. version \in Nat \ {0} /\ actual \subseteq Broker
  BY Zenon DEF BeatInv, Beats
<1>3. CASE Hb!Subscribe
  BY <1>1, <1>2, <1>3, SMTT(30) DEF Hb!Subscribe, Hb!instance
<1>4. ASSUME NEW b \in Broker, Hb!BrokerRestarts(b) PROVE BeatInv'
  BY <1>1, <1>2, <1>4, Zenon DEF Hb!BrokerRestarts, Hb!instance
<1>5. ASSUME NEW S \in (SUBSET Broker) \ {{}}, Hb!RouteChanges(S) PROVE BeatInv'
  BY <1>1, <1>2, <1>5, Zenon DEF Hb!RouteChanges, Hb!instance
<1>6. CASE UNCHANGED Hb!vars
  BY <1>1, <1>2, <1>6, Zenon DEF Hb!vars
<1> QED BY <1>3, <1>4, <1>5, <1>6, BeatStep, Zenon DEF Hb!Next

(* At first no broker has accepted anything and nothing is remembered.     *)
LEMMA BeatInitially == ASSUME Hb!HeartbeatBounds, Hb!Init PROVE BeatInv
<1>1. Hb!Idle \in Rnd /\ Hb!Idle.pc = "idle" /\ Hb!Idle.ok = 0
  BY Zenon DEF Hb!Idle, Rnd, Hb!None
<1>2. Beats
  BY <1>1, SMTT(30) DEF Hb!Init, Beats, Hb!None
<1>3. Talks
  BY <1>1 DEF Hb!Init, Talks, Talk
<1> QED BY <1>2, <1>3, Zenon DEF Hb!Init, BeatInv, Hb!PrintEarned, Hb!BeatenReached

(* send_heartbeat_to_broker_v2: a fingerprint is kept only for a broker    *)
(* that has accepted the full body with it, so no beat leaves out          *)
(* subscriptions a broker never had.                                       *)
THEOREM FingerprintEarned == ASSUME Hb!HeartbeatBounds PROVE Hb!Spec => []Hb!PrintEarned
<1>1. Hb!Init => BeatInv
  BY BeatInitially, Zenon
<1>2. BeatInv /\ [Hb!Next]_Hb!vars => BeatInv'
  BY BeatInvStep, Zenon
<1>3. BeatInv => Hb!PrintEarned
  BY Zenon DEF BeatInv
<1> QED BY <1>1, <1>2, <1>3, PTL DEF Hb!Spec

(* send_heartbeat_if_broker_set_changed records a set of brokers only when *)
(* one of them has accepted a beat.                                        *)
THEOREM RecordedBrokersReached == ASSUME Hb!HeartbeatBounds PROVE Hb!Spec => []Hb!BeatenReached
<1>1. Hb!Init => BeatInv
  BY BeatInitially, Zenon
<1>2. BeatInv /\ [Hb!Next]_Hb!vars => BeatInv'
  BY BeatInvStep, Zenon
<1>3. BeatInv => Hb!BeatenReached
  BY Zenon DEF BeatInv
<1> QED BY <1>1, <1>2, <1>3, PTL DEF Hb!Spec
=============================================================================
