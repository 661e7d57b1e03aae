----------------------------- MODULE Heartbeat -----------------------------
(***************************************************************************)
(* How a client instance keeps its groups registered with every broker     *)
(* (client/mq_client.rs): the periodic heartbeat, the beat after a route   *)
(* refresh that shows new brokers, the beat after a rebalance, and the     *)
(* fingerprints of heartbeat V2, which let a beat leave out subscriptions  *)
(* the broker already has.                                                 *)
(*                                                                         *)
(* The registration is abstracted to a version, and its fingerprint to the *)
(* same number.  Brokers are modelled by the answers the client expects.   *)
(***************************************************************************)
EXTENDS Naturals, FiniteSets

CONSTANTS
    Broker,      \* broker addresses
    V2Broker,    \* those that understand fingerprints
    UseV2,       \* use_heartbeat_v2
    Loop,        \* tasks that beat: subset of {"beat", "route", "rebalance"}
    MaxVersion,  \* bound on subscription changes
    MaxChurn,    \* bound on restarts of brokers and changes of the route
    MaxLost      \* bound on beats that fail

BrokerAssumption == V2Broker \subseteq Broker /\ UseV2 \in BOOLEAN
HeartbeatBounds ==
    /\ {MaxVersion, MaxChurn, MaxLost} \subseteq Nat
    /\ Loop \subseteq {"beat", "route", "rebalance"}

None == 0

VARIABLES
    version,     \* version of what is registered in the instance
    actual,      \* brokers the name server knows for the topics in use
    cached,      \* get_all_broker_addrs: brokers of the cached routes
    beaten,      \* brokers_beaten
    support,     \* broker_support_v2_heartbeat_set
    prints,      \* broker_addr_heartbeat_fingerprint_table
    reg,         \* brokers: the subscriptions they hold
    ever,        \* brokers: versions they have accepted
    round,       \* the round every task is in
    churn, lost  \* bounded disturbances so far

vars == <<version, actual, cached, beaten, support, prints, reg, ever, round, churn, lost>>
instance == <<support, prints>>
outside == <<version, actual, reg, ever, churn, lost>>

Idle == [pc |-> "idle", data |-> 0, addrs |-> {}, todo |-> {}, ok |-> 0,
         addr |-> None, simple |-> FALSE, v2 |-> FALSE, sub |-> FALSE]

Init ==
    /\ version = 1 /\ actual \in (SUBSET Broker) \ {{}}
    /\ cached = {} /\ beaten = {} /\ support = {} /\ prints = [b \in Broker |-> None]
    /\ reg = [b \in Broker |-> None] /\ ever = [b \in Broker |-> {}]
    /\ round = [t \in Loop |-> Idle] /\ churn = 0 /\ lost = 0

-----------------------------------------------------------------------------
(* outside the client's control *)

Subscribe ==
    /\ version < MaxVersion /\ version' = version + 1
    /\ UNCHANGED <<actual, cached, beaten, reg, ever, round, churn, lost>> /\ UNCHANGED instance

(* The broker forgets everybody.                                           *)
BrokerRestarts(b) ==
    /\ churn < MaxChurn /\ churn' = churn + 1
    /\ reg' = [reg EXCEPT ![b] = None]
    /\ UNCHANGED <<version, actual, cached, beaten, ever, round, lost>> /\ UNCHANGED instance

RouteChanges(S) ==
    /\ churn < MaxChurn /\ churn' = churn + 1
    /\ actual' = S /\ S # actual
    /\ UNCHANGED <<version, cached, beaten, reg, ever, round, lost>> /\ UNCHANGED instance

-----------------------------------------------------------------------------
(* The round goes on with its next broker.                                 *)
On(r, ok) == [Idle EXCEPT !.pc = "next", !.data = r.data, !.addrs = r.addrs,
                          !.todo = r.todo, !.ok = ok]

(* send_heartbeat_round: the data and the brokers are read once.           *)
Begun(t) == [round[t] EXCEPT !.pc = "next", !.data = version, !.todo = cached, !.ok = 0]

Begin(t) ==
    /\ t # "route" /\ round[t].pc = "idle"
    /\ round' = [round EXCEPT ![t] = Begun(t)]
    /\ prints' = IF t = "rebalance" /\ UseV2 THEN [b \in Broker |-> None] ELSE prints
    /\ UNCHANGED <<cached, beaten, support>> /\ UNCHANGED outside

(* update_topic_route_info_from_name_server, then                          *)
(* send_heartbeat_if_broker_set_changed.                                   *)
Refresh ==
    /\ "route" \in Loop /\ round["route"].pc = "idle"
    /\ cached' = actual
    /\ round' = IF cached' = {} \/ cached' = beaten THEN round
                ELSE [round EXCEPT !["route"] =
                          [@ EXCEPT !.pc = "next", !.data = version, !.ok = 0,
                                    !.addrs = actual, !.todo = actual]]
    /\ UNCHANGED beaten /\ UNCHANGED instance /\ UNCHANGED outside

(* The body without subscriptions is for a broker that speaks V2 and still *)
(* has this fingerprint.                                                   *)
Simple(b, data) == UseV2 /\ b \in support /\ prints[b] = data

(* send_heartbeat, or the first half of send_heartbeat_to_broker_v2, in    *)
(* the order of the addresses.                                             *)
Send(t, b) ==
    /\ round[t].pc = "next" /\ b \in round[t].todo /\ \A c \in round[t].todo : b <= c
    /\ round' = [round EXCEPT ![t] = [@ EXCEPT
            !.pc = "sent", !.todo = round[t].todo \ {b}, !.addr = b,
            !.simple = Simple(b, round[t].data)]]
    /\ UNCHANGED <<cached, beaten>> /\ UNCHANGED instance /\ UNCHANGED outside

(* The broker takes the subscriptions, or compares the fingerprint with    *)
(* what it holds; it may ask for them again at any time.                   *)
BrokerAnswers(t, again) ==
    LET b == round[t].addr
    IN  /\ round[t].pc = "sent"
        /\ reg' = IF round[t].simple THEN reg ELSE [reg EXCEPT ![b] = round[t].data]
        /\ ever' = IF round[t].simple THEN ever ELSE [ever EXCEPT ![b] = @ \cup {round[t].data}]
        /\ again => UseV2 /\ b \in V2Broker /\ churn < MaxChurn
        /\ churn' = IF again THEN churn + 1 ELSE churn
        /\ round' = [round EXCEPT ![t] = [@ EXCEPT
                !.pc = "answered", !.v2 = UseV2 /\ b \in V2Broker,
                !.sub = again \/ (round[t].simple /\ reg[b] # round[t].data)]]
        /\ UNCHANGED <<version, actual, cached, beaten, lost>> /\ UNCHANGED instance

(* The beat does not get through.                                          *)
Lose(t) ==
    /\ round[t].pc = "sent" /\ lost < MaxLost /\ lost' = lost + 1
    /\ round' = [round EXCEPT ![t] = On(@, @.ok)]
    /\ UNCHANGED <<version, actual, cached, beaten, reg, ever, churn>> /\ UNCHANGED instance

(* Faulty: a broker that asks for subscriptions again keeps its            *)
(* fingerprint.                                                            *)
ApplyKeepsPrint(t) ==
    LET r == round[t]
        full == UseV2 /\ ~r.simple /\ r.v2
    IN  /\ r.pc = "answered"
        /\ round' = [round EXCEPT ![t] = On(r, 1)]
        /\ support' = IF full THEN support \cup {r.addr} ELSE support
        /\ prints' = IF full THEN [prints EXCEPT ![r.addr] = r.data] ELSE prints
        /\ UNCHANGED <<cached, beaten>> /\ UNCHANGED outside
(* The answer is applied: a broker that speaks V2 earns its place with a   *)
(* full body, and one that asks again loses its fingerprint.               *)
Apply(t) ==
    LET r == round[t]
        full == UseV2 /\ ~r.simple /\ r.v2
    IN  /\ r.pc = "answered"
        /\ round' = [round EXCEPT ![t] = On(r, 1)]
        /\ support' = IF full THEN support \cup {r.addr} ELSE support
        /\ prints' = IF UseV2 /\ r.sub THEN [prints EXCEPT ![r.addr] = None]
                     ELSE IF full THEN [prints EXCEPT ![r.addr] = r.data]
                     ELSE prints
        /\ UNCHANGED <<cached, beaten>> /\ UNCHANGED outside

(* The end of a round; after a route refresh the brokers are recorded when *)
(* one of them answered.                                                   *)
EndRound(t) ==
    /\ round[t].pc = "next" /\ round[t].todo = {}
    /\ beaten' = IF t = "route" /\ round[t].ok > 0 THEN round[t].addrs ELSE beaten
    /\ round' = [round EXCEPT ![t] = Idle]
    /\ UNCHANGED cached /\ UNCHANGED instance /\ UNCHANGED outside

-----------------------------------------------------------------------------
Step(t) ==
    \/ Begin(t) \/ (t = "route" /\ Refresh)
    \/ \E b \in Broker : Send(t, b)
    \/ \E again \in BOOLEAN : BrokerAnswers(t, again)
    \/ Lose(t) \/ Apply(t) \/ EndRound(t)

Next ==
    \/ Subscribe
    \/ \E b \in Broker : BrokerRestarts(b)
    \/ \E S \in (SUBSET Broker) \ {{}} : RouteChanges(S)
    \/ \E t \in Loop : Step(t)

Spec == Init /\ [][Next]_vars

-----------------------------------------------------------------------------
(* Rounds read brokers that are known; V2 state is only kept with V2.      *)
TypeOK ==
    /\ version \in 1..MaxVersion /\ cached \subseteq Broker /\ beaten \subseteq Broker
    /\ prints \in [Broker -> 0..MaxVersion]
    /\ support \subseteq (IF UseV2 THEN V2Broker ELSE {})
    /\ \A t \in Loop : round[t].pc \in {"idle", "next", "sent", "answered"}

(* A fingerprint is only remembered for a broker that has accepted the     *)
(* full body with it: no beat leaves out subscriptions a broker never got. *)
PrintEarned ==
    \A b \in Broker : prints[b] # None => b \in support /\ prints[b] \in ever[b]

(* The set recorded after a refresh is one that a beat has reached.        *)
BeatenReached == beaten # {} => \E b \in beaten : ever[b] # {}

(* In the end every broker of the route holds the current subscriptions,   *)
(* after lost beats, restarts of brokers, changes of the route and of the  *)
(* subscriptions, and requests to send them again.                         *)
Registered == <>[](\A b \in actual : reg[b] = version)
=============================================================================
