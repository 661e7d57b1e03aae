--------------------------- MODULE GroupRebalance ---------------------------
(***************************************************************************)
(* A consumer group divides the queues of a topic (do_rebalance of         *)
(* client/consumer.rs).  There is no coordinator: each client reads the    *)
(* route, then asks a broker for the group's members, and evaluates the    *)
(* strategy on what it read.  Clients join and leave, the route changes    *)
(* and answers get lost in between, so two clients may divide different    *)
(* views.                                                                  *)
(***************************************************************************)
EXTENDS Allocate

CONSTANTS
    Queue, Client,  \* sets of numbers, the order of their names
    Strategies,     \* the strategies a group may be configured with
    MaxChurn,       \* bound on joins, leaves and changes of the route
    MaxLost         \* bound on the rounds whose question gets no answer

ASSUME GroupAssumption ==
    /\ Queue \subseteq Nat /\ IsFiniteSet(Queue)
    /\ Client \subseteq Nat /\ IsFiniteSet(Client)
    /\ \A c \in Client : Virtual[c] \in Seq(Nat)
    /\ MaxChurn \in Nat /\ MaxLost \in Nat

VARIABLES
    strategy,   \* the strategy of the group
    route,      \* the queues of the topic
    members,    \* the consumers the brokers know of
    round,      \* a client's round: what it has read so far
    assigned,   \* State.assigned
    basis,      \* the lists the assignment was computed from
    churn, lost

vars == <<strategy, route, members, round, assigned, basis, churn, lost>>

Ascending(s) == \A i, j \in DOMAIN s : i < j => s[i] < s[j]
(* The sorted lists of the elements of S: there is one if S is finite.     *)
Sorting(S) == {s \in [1..Cardinality(S) -> S] : Ascending(s)}
IsView(v) ==
    /\ v.mqs \in Seq(Queue) /\ Ascending(v.mqs)
    /\ v.cids \in Seq(Client) /\ Ascending(v.cids)
Idle == [pc |-> "idle", mqs |-> <<>>, cids |-> <<>>]
NoBasis == [mqs |-> <<>>, cids |-> <<>>]

TypeOK ==
    /\ strategy \in Strategies
    /\ route \subseteq Queue /\ members \subseteq Client
    /\ \A c \in Client : /\ round[c].pc \in {"idle", "route", "cids"}
                         /\ IsView(round[c]) /\ IsView(basis[c])
    /\ assigned \in [Client -> SUBSET Queue]
    /\ churn \in 0..MaxChurn /\ lost \in 0..MaxLost

Init ==
    /\ strategy \in Strategies
    /\ route \in SUBSET Queue /\ members \in SUBSET Client
    /\ round = [c \in Client |-> Idle]
    /\ assigned = [c \in Client |-> {}] /\ basis = [c \in Client |-> NoBasis]
    /\ churn = 0 /\ lost = 0

-----------------------------------------------------------------------------
(* A client is known to the brokers with its first heartbeat, and          *)
(* forgotten with its unregistration; what it owned is gone with it.       *)
Join(c) ==
    /\ c \notin members /\ churn < MaxChurn
    /\ churn' = churn + 1
    /\ members' = members \cup {c}
    /\ UNCHANGED <<strategy, route, round, assigned, basis, lost>>

Leave(c) ==
    /\ c \in members /\ churn < MaxChurn
    /\ churn' = churn + 1
    /\ members' = members \ {c}
    /\ round' = [round EXCEPT ![c] = Idle]
    /\ assigned' = [assigned EXCEPT ![c] = {}] /\ basis' = [basis EXCEPT ![c] = NoBasis]
    /\ UNCHANGED <<strategy, route, lost>>

RouteChanges(S) ==
    /\ S # route /\ churn < MaxChurn
    /\ churn' = churn + 1
    /\ route' = S
    /\ UNCHANGED <<strategy, members, round, assigned, basis, lost>>

(***************************************************************************)
(* do_rebalance                                                            *)
(***************************************************************************)
Assign(c, S, b) ==
    /\ assigned' = [assigned EXCEPT ![c] = S]
    /\ basis' = [basis EXCEPT ![c] = b]

(* Faulty: the queues are taken in the order of the route.                 *)
ReadRouteUnsorted(c) ==
    /\ c \in members /\ round[c].pc = "idle" /\ route # {}
    /\ \E s \in {t \in [1..Cardinality(route) -> route] : \A q \in route : \E i \in DOMAIN t : t[i] = q} :
          round' = [round EXCEPT ![c] = [pc |-> "route", mqs |-> s, cids |-> <<>>]]
    /\ UNCHANGED <<strategy, route, members, assigned, basis, churn, lost>>
(* all_queues_of_topic and sort_mqs; a topic without queues loses what was *)
(* assigned of it.                                                         *)
ReadRoute(c) ==
    /\ c \in members /\ round[c].pc = "idle"
    /\ \E s \in Sorting(route) :
          IF s = <<>>
          THEN Assign(c, {}, NoBasis) /\ UNCHANGED round
          ELSE /\ round' = [round EXCEPT ![c] = [pc |-> "route", mqs |-> s, cids |-> <<>>]]
               /\ UNCHANGED <<assigned, basis>>
    /\ UNCHANGED <<strategy, route, members, churn, lost>>

(* get_consumer_id_list_by_group: the broker answers.                      *)
ReadMembers(c) ==
    /\ round[c].pc = "route"
    /\ \E s \in Sorting(members) :
          round' = [round EXCEPT ![c] = [pc |-> "cids", mqs |-> round[c].mqs, cids |-> s]]
    /\ UNCHANGED <<strategy, route, members, assigned, basis, churn, lost>>

(* No answer: the assignment is kept.                                      *)
NoAnswer(c) ==
    /\ round[c].pc = "route" /\ lost < MaxLost
    /\ lost' = lost + 1
    /\ round' = [round EXCEPT ![c] = Idle]
    /\ UNCHANGED <<strategy, route, members, assigned, basis, churn>>

(* Faulty: a client that has queues already keeps them.                    *)
ApplyOnce(c) ==
    /\ round[c].pc = "cids"
    /\ IF AllocateFails(strategy, c, round[c].mqs, round[c].cids) \/ assigned[c] # {}
       THEN UNCHANGED <<assigned, basis>>
       ELSE Assign(c, AllocateBy(strategy, c, round[c].mqs, round[c].cids),
                   [mqs |-> round[c].mqs, cids |-> round[c].cids])
    /\ round' = [round EXCEPT ![c] = Idle]
    /\ UNCHANGED <<strategy, route, members, churn, lost>>
(* The strategy is evaluated on the two lists; its error keeps what there  *)
(* was.                                                                    *)
Apply(c) ==
    /\ round[c].pc = "cids"
    /\ IF AllocateFails(strategy, c, round[c].mqs, round[c].cids)
       THEN UNCHANGED <<assigned, basis>>
       ELSE Assign(c, AllocateBy(strategy, c, round[c].mqs, round[c].cids),
                   [mqs |-> round[c].mqs, cids |-> round[c].cids])
    /\ round' = [round EXCEPT ![c] = Idle]
    /\ UNCHANGED <<strategy, route, members, churn, lost>>

-----------------------------------------------------------------------------
RoundStep(c) == ReadRoute(c) \/ ReadMembers(c) \/ NoAnswer(c) \/ Apply(c)

Next ==
    \/ \E c \in Client : Join(c) \/ Leave(c) \/ RoundStep(c)
    \/ \E S \in SUBSET Queue : RouteChanges(S)

Spec == Init /\ [][Next]_vars

-----------------------------------------------------------------------------
(* Two clients that divided the same lists do not share a queue, whatever  *)
(* either of them divided before and whoever comes and goes.               *)
SameViewDisjoint ==
    \A c, d \in Client :
        (c # d /\ basis[c] = basis[d] /\ basis[c].mqs # <<>>) => assigned[c] \cap assigned[d] = {}

(* When everyone on a list has divided it, no queue of it is left over.    *)
SameViewCovers ==
    \A c \in Client :
        LET b == basis[c]
            all == {b.cids[k] : k \in DOMAIN b.cids}
        IN  (b.mqs # <<>> /\ \A d \in all : basis[d] = b)
              => UNION {assigned[d] : d \in all} = Served(strategy, b.mqs, b.cids)

(* Of two clients that divided the same lists evenly, neither has two      *)
(* queues more than the other.                                             *)
SameViewEven ==
    \A c, d \in Client :
        (/\ strategy \in {"AVG", "AVG_BY_CIRCLE", "MACHINE_ROOM"}
         /\ basis[c] = basis[d]
         /\ {c, d} \subseteq {basis[c].cids[k] : k \in DOMAIN basis[c].cids})
            => Cardinality(assigned[c]) <= Cardinality(assigned[d]) + 1

(* Every queue has one owner, as it does in the end once members and route *)
(* rest, after any mixture of views and lost answers.                      *)
Partitioned ==
    members # {} =>
        \A q \in route :
            (strategy = "MACHINE_ROOM" => Room[q] \in Idcs)
                => Cardinality({c \in Client : q \in assigned[c]}) = 1
=============================================================================
