------------------------------ MODULE SendRetry ------------------------------
(***************************************************************************)
(* A synchronous send and its retries (DefaultMQProducer::send_with_retry):*)
(* calls that share one TopicPublishInfo, its cursor and the fault table   *)
(* (client/latency.rs), beside the detector of unreachable brokers.        *)
(* Time is counted in ticks of TickMillis; a call's clock runs while it    *)
(* looks up an address and while it waits for a broker.                    *)
(***************************************************************************)
EXTENDS Integers, Sequences, FiniteSets, FiniteSetsExt

CONSTANTS
    Call,          \* calls of send
    Broker,
    Lists,         \* the queue lists a route may bring: sequences of brokers
    Cycle,         \* a common multiple of the lists' lengths
    Times,         \* retry_times_when_send_failed + 1
    Budget,        \* timeout of a call, in ticks
    MaxPerRequest, \* send_msg_max_timeout_per_request, in ticks, or -1
    MaxLookup,     \* longest address lookup, in ticks
    TickMillis,
    Latency,       \* send_latency_fault_enable
    Detects,       \* start_detector_enable
    SwitchBroker,  \* retry_another_broker_when_not_store_ok
    Outcomes,      \* outcomes of a request that are considered
    Down,          \* brokers that do not answer the detector
    MaxRoutes,     \* bound on route updates
    NoBroker

SendAssumption ==
    /\ NoBroker \notin Broker /\ Down \subseteq Broker
    /\ \A l \in Lists : l \in Seq(Broker) /\ (Len(l) > 0 => Cycle % Len(l) = 0)
    /\ Cycle \in Nat \ {0}
    /\ Times \in Nat /\ Budget \in Nat /\ MaxLookup \in Nat /\ MaxPerRequest \in Int
    /\ TickMillis \in Nat /\ MaxRoutes \in Nat
    /\ Outcomes \subseteq {"ok", "notStored", "retryable", "fatal", "remoting", "client", "other"}

VARIABLES
    send,   \* of every call: where it is, and its local variables
    queues, \* TopicPublishInfo: msg_queue_list and index, and route updates so far
    fault,  \* fault_item_table: a function on the brokers that have an item
    probe   \* the detector's round

vars == <<send, queues, fault, probe>>

NoCall == [pc |-> "idle", attempt |-> 0, last |-> NoBroker, chosen |-> NoBroker,
           result |-> FALSE, timeout |-> 0, spent |-> 0, waited |-> 0]

(* A broker not seen before is available, reachable and due for a probe.   *)
NewItem == [isolated |-> FALSE, reachable |-> TRUE, due |-> TRUE]

Init ==
    /\ send = [c \in Call |-> NoCall]
    /\ \E l \in Lists : queues = [list |-> l, index |-> 0, routes |-> 0]
    /\ fault = [b \in {} |-> NewItem]
    /\ probe = [todo |-> {}, cur |-> NoBroker]

(* The local variables of c become x.                                      *)
Becomes(c, x) == send' = [send EXCEPT ![c] = x]

-----------------------------------------------------------------------------
(* The fault table *)

LATENCY_MAX == <<50, 100, 550, 1800, 3000, 5000, 15000>>
NOT_AVAILABLE_DURATION == <<0, 0, 2000, 5000, 6000, 10000, 30000>>
ISOLATION_LATENCY == 10000

(* compute_not_available_duration                                          *)
NotAvailable(latency) ==
    LET reached == {i \in DOMAIN LATENCY_MAX : latency >= LATENCY_MAX[i]}
    IN  IF reached = {} THEN 0 ELSE NOT_AVAILABLE_DURATION[Max(reached)]

IsAvailable(b) == b \in DOMAIN fault => ~fault[b].isolated
Reachable(table, b) == b \in DOMAIN table => table[b].reachable
IsReachable(b) == Reachable(fault, b)

(* update_fault_item: an isolation is only ever prolonged.                 *)
UpdateFault(b, ticks, isolation, reachable) ==
    LET item == IF b \in DOMAIN fault THEN fault[b] ELSE NewItem
        lasts == NotAvailable(IF isolation THEN ISOLATION_LATENCY ELSE ticks * TickMillis)
    IN  IF ~Latency THEN UNCHANGED fault
        ELSE fault' = [x \in DOMAIN fault \union {b} |->
                 IF x = b THEN [item EXCEPT !.isolated = @ \/ lasts > 0, !.reachable = reachable]
                 ELSE fault[x]]

(* now >= start_timestamp                                                  *)
Elapse(b) ==
    /\ b \in DOMAIN fault /\ fault[b].isolated
    /\ fault' = [fault EXCEPT ![b].isolated = FALSE]
    /\ UNCHANGED <<send, queues, probe>>

-----------------------------------------------------------------------------
(* Selecting a queue *)

N == Len(queues.list)

(* The broker k places after the cursor.                                   *)
At(k, index) == queues.list[((index + k) % N) + 1]

(* Faulty: the ring is not walked to its end.                              *)
ShortTurn == 0 .. N - 2
Turn == 0 .. N - 1

(* TopicPublishInfo::select_one_message_queue with filters: the first    *)
(* broker of accepted in one turn of the ring, under the lock of the list. *)
Select(c, accepted, index, otherwise) ==
    LET found == {k \in Turn : At(k, index) \in accepted}
    IN  IF found = {}
        THEN /\ Becomes(c, [send[c] EXCEPT !.pc = otherwise])
             /\ queues' = [queues EXCEPT !.index = (index + N) % Cycle]
        ELSE /\ Becomes(c, [send[c] EXCEPT !.pc = "begin", !.chosen = At(Min(found), index)])
             /\ queues' = [queues EXCEPT !.index = (index + Min(found) + 1) % Cycle]

NotLast(c) == Broker \ {send[c].last}

(* No queue at all is an error of the client's: the next attempt.          *)
NoQueue(c) ==
    /\ Becomes(c, [send[c] EXCEPT !.attempt = @ + 1, !.pc = "select"])
    /\ UNCHANGED queues

MoreAttempts(c) == send[c].attempt < Times

(* The first tier; a retry starts over at the head of the list (the reset  *)
(* is a lock of its own: another call in between only moves the start).    *)
SelectFirst(c) ==
    /\ send[c].pc = "select" /\ MoreAttempts(c)
    /\ IF N = 0 THEN NoQueue(c)
       ELSE IF Latency
            THEN Select(c, {b \in NotLast(c) : IsAvailable(b)},
                        IF send[c].attempt > 0 THEN 0 ELSE queues.index, "reachable")
            ELSE Select(c, NotLast(c), queues.index, "any")
    /\ UNCHANGED <<fault, probe>>

SelectReachable(c) ==
    /\ send[c].pc = "reachable"
    /\ IF N = 0 THEN NoQueue(c)
       ELSE Select(c, {b \in NotLast(c) : IsReachable(b)}, queues.index, "any")
    /\ UNCHANGED <<fault, probe>>

SelectAny(c) ==
    /\ send[c].pc = "any"
    /\ IF N = 0 THEN NoQueue(c) ELSE Select(c, Broker, queues.index, "any")
    /\ UNCHANGED <<fault, probe>>

(* The route updates of the instance reach the list of a call in progress. *)
RouteUpdate ==
    /\ queues.routes < MaxRoutes
    /\ \E l \in Lists \ {queues.list} :
          queues' = [queues EXCEPT !.list = l, !.routes = @ + 1]
    /\ UNCHANGED <<send, fault, probe>>

-----------------------------------------------------------------------------
(* An attempt *)

Start(c) ==
    /\ send[c].pc = "idle"
    /\ Becomes(c, [send[c] EXCEPT !.pc = "select"])
    /\ UNCHANGED <<queues, fault, probe>>

(* What the attempts before have left of the timeout, capped while there   *)
(* is another attempt to come.                                             *)
CurTimeout(c) ==
    LET left == Budget - send[c].spent
    IN  IF MaxPerRequest > -1 /\ send[c].attempt + 1 < Times THEN Min({left, MaxPerRequest}) ELSE left

Begin(c) ==
    /\ send[c].pc = "begin"
    /\ IF Budget < send[c].spent
       THEN Becomes(c, [send[c] EXCEPT !.pc = "end", !.last = send[c].chosen])
       ELSE Becomes(c, [send[c] EXCEPT !.pc = "lookup", !.last = send[c].chosen,
                                       !.timeout = CurTimeout(c)])
    /\ UNCHANGED <<queues, fault, probe>>

(* publish_addr_for: a miss refreshes the route.                           *)
Lookup(c) ==
    /\ send[c].pc = "lookup"
    /\ \E t \in 0 .. MaxLookup : Becomes(c, [send[c] EXCEPT !.pc = "sent", !.spent = @ + t])
    /\ UNCHANGED <<queues, fault, probe>>

(* The attempt is over after t ticks: with a new attempt, or the answer    *)
(* pc.                                                                     *)
Over(c, t, pc) ==
    Becomes(c, [send[c] EXCEPT !.spent = @ + t, !.waited = @ + t, !.pc = pc,
                               !.chosen = NoBroker, !.timeout = 0,
                               !.attempt = IF pc = "select" THEN @ + 1 ELSE @])

Stored(c, t) ==
    /\ "ok" \in Outcomes
    /\ Over(c, t, "ok")
    /\ UpdateFault(send[c].chosen, t, FALSE, TRUE)

(* A store that is not SEND_OK: kept, and tried elsewhere if so configured.*)
NotStored(c, t) ==
    /\ "notStored" \in Outcomes
    /\ IF SwitchBroker
       THEN Becomes(c, [send[c] EXCEPT !.spent = @ + t, !.waited = @ + t, !.pc = "select",
                                       !.attempt = @ + 1, !.result = TRUE,
                                       !.chosen = NoBroker, !.timeout = 0])
       ELSE Over(c, t, "ok")
    /\ UpdateFault(send[c].chosen, t, FALSE, TRUE)

(* Faulty: a broker's refusal hides what an earlier broker stored.         *)
RefusedForgets(c, t) ==
    /\ \/ "retryable" \in Outcomes /\ Over(c, t, "select")
       \/ "fatal" \in Outcomes /\ Over(c, t, "failed")
    /\ UpdateFault(send[c].chosen, t, TRUE, FALSE)
(* SendErrorKind::Broker                                                   *)
Refused(c, t) ==
    /\ \/ "retryable" \in Outcomes /\ Over(c, t, "select")
       \/ "fatal" \in Outcomes /\ Over(c, t, IF send[c].result THEN "ok" ELSE "failed")
    /\ UpdateFault(send[c].chosen, t, TRUE, FALSE)

(* SendErrorKind::Remoting; a request that is not answered takes all its   *)
(* time.                                                                   *)
Unanswered(c, t) ==
    /\ "remoting" \in Outcomes
    /\ Over(c, t, "select")
    /\ UpdateFault(send[c].chosen, t, TRUE, ~Detects)

(* SendErrorKind::Client                                                   *)
ClientError(c, t) ==
    /\ "client" \in Outcomes
    /\ Over(c, t, "select")
    /\ UpdateFault(send[c].chosen, t, FALSE, TRUE)

(* An error of no tier goes straight up.                                   *)
OtherError(c, t) ==
    /\ "other" \in Outcomes
    /\ Over(c, t, "failed")
    /\ UNCHANGED fault

Answer(c) ==
    /\ send[c].pc = "sent"
    /\ \E t \in 0 .. send[c].timeout :
          \/ Stored(c, t) \/ NotStored(c, t) \/ Refused(c, t)
          \/ Unanswered(c, t) \/ ClientError(c, t) \/ OtherError(c, t)
    /\ UNCHANGED <<queues, probe>>

End(c) ==
    /\ \/ send[c].pc = "end"
       \/ send[c].pc = "select" /\ send[c].attempt >= Times
    /\ Becomes(c, [send[c] EXCEPT !.pc = IF send[c].result THEN "ok" ELSE "failed"])
    /\ UNCHANGED <<queues, fault, probe>>

-----------------------------------------------------------------------------
(* detect_by_one_round *)

ProbeRound ==
    /\ Detects /\ probe.todo = {} /\ probe.cur = NoBroker
    /\ probe' = [probe EXCEPT !.todo = {b \in DOMAIN fault : fault[b].due}]
    /\ probe'.todo # {}
    /\ UNCHANGED <<send, queues, fault>>

(* The stamp; a broker without an address loses its item.                  *)
ProbeNext(b) ==
    /\ b \in probe.todo /\ probe.cur = NoBroker
    /\ IF b \notin DOMAIN fault \/ (b \in DOMAIN fault /\ ~fault[b].due)
       THEN probe' = [probe EXCEPT !.todo = @ \ {b}] /\ UNCHANGED fault
       ELSE \/ /\ probe' = [todo |-> probe.todo \ {b}, cur |-> b]
               /\ fault' = [fault EXCEPT ![b].due = FALSE]
            \/ /\ \A i \in 1 .. N : queues.list[i] # b
               /\ probe' = [probe EXCEPT !.todo = @ \ {b}]
               /\ fault' = [x \in DOMAIN fault \ {b} |-> fault[x]]
    /\ UNCHANGED <<send, queues>>

Probed ==
    /\ probe.cur # NoBroker
    /\ probe' = [probe EXCEPT !.cur = NoBroker]
    /\ IF probe.cur \in DOMAIN fault /\ probe.cur \notin Down
       THEN fault' = [fault EXCEPT ![probe.cur].reachable = TRUE]
       ELSE UNCHANGED fault
    /\ UNCHANGED <<send, queues>>

(* detect_interval passes                                                  *)
Due(b) ==
    /\ b \in DOMAIN fault /\ ~fault[b].due /\ Detects
    /\ fault' = [fault EXCEPT ![b].due = TRUE]
    /\ UNCHANGED <<send, queues, probe>>

-----------------------------------------------------------------------------
CallStep(c) ==
    \/ SelectFirst(c) \/ SelectReachable(c) \/ SelectAny(c) \/ Begin(c) \/ Lookup(c)
    \/ Answer(c) \/ End(c)
ProbeStep == ProbeRound \/ (\E b \in Broker : ProbeNext(b)) \/ Probed

Next ==
    \/ \E c \in Call : Start(c) \/ CallStep(c)
    \/ RouteUpdate \/ ProbeStep
    \/ \E b \in Broker : Elapse(b) \/ Due(b)

Spec == Init /\ [][Next]_vars

-----------------------------------------------------------------------------
(* Properties *)

TypeOK ==
    /\ \A c \in Call :
          /\ send[c].pc \in {"idle", "select", "reachable", "any", "begin", "lookup", "sent",
                             "end", "ok", "failed"}
          /\ send[c].attempt \in 0 .. Times /\ send[c].last \in Broker \union {NoBroker}
    /\ queues.list \in Lists /\ queues.index \in 0 .. Cycle - 1
    /\ DOMAIN fault \subseteq Broker /\ probe.todo \subseteq Broker

(* Without latency faults a retry goes to another broker than the one that *)
(* just failed whenever the lists have one, whatever the other calls did   *)
(* to the cursor they share.                                               *)
GoesElsewhere ==
    \A c \in Call :
        send[c].chosen = NoBroker /\ send'[c].chosen # NoBroker /\ ~Latency =>
            \/ send'[c].chosen # send[c].last
            \/ \E l \in Lists : \A i \in 1 .. Len(l) : l[i] = send[c].last

(* A call that a broker has told of a store reports no failure: if        *)
(* everything afterwards fails it returns that result.                     *)
ReportsStore ==
    \A c \in Call :
        send[c].result /\ send'[c].pc \in {"ok", "failed"} /\ send[c].pc # send'[c].pc
            => send'[c].pc = "ok"

(* The time a call waits for brokers stays within its timeout, over all    *)
(* its attempts.                                                           *)
WithinBudget == \A c \in Call : send[c].waited <= Budget

(* Every call returns.                                                     *)
CallReturns == \A c \in Call : send[c].pc = "select" ~> send[c].pc \in {"ok", "failed"}

=============================================================================
