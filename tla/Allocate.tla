------------------------------ MODULE Allocate ------------------------------
(***************************************************************************)
(* The queue allocation strategies (client/allocate_strategy.rs): which of *)
(* the sorted queues mqs of a topic the consumer c takes, when the sorted  *)
(* list cids holds the consumers of its group.  Every client evaluates the *)
(* strategy for itself and nothing but the formula keeps two of them off   *)
(* the same queue.  Positions count from 0 as in the code.                 *)
(***************************************************************************)
EXTENDS Integers, Sequences, FiniteSets

CONSTANTS
    Room,       \* the machine room of every queue and consumer, or "" if unknown
    Idcs,       \* consumeridcs, the rooms AllocateMessageQueueByMachineRoom serves
    HashOf,     \* the ring position of every queue
    Virtual     \* the ring positions of every consumer's virtual nodes, in order

Missing == -1

(* check_config: the place of c in the group, if there is one.             *)
CheckConfig(c, mqs, cids) ==
    IF mqs # <<>> /\ \E i \in DOMAIN cids : cids[i] = c
    THEN (CHOOSE i \in DOMAIN cids : cids[i] = c /\ \A j \in 1..i - 1 : cids[j] # c) - 1
    ELSE Missing

Slice(s, from, to) == {s[k + 1] : k \in from..to - 1}

-----------------------------------------------------------------------------
(* Faulty: the consumers after the remainder start where its extra queues  *)
(* were not counted.                                                       *)
AvgStartUnshifted(n, m, i) ==
    LET avg == n \div m
        mod == n % m
    IN  IF avg = 0 THEN (IF i < n THEN i ELSE n)
        ELSE IF i < mod THEN i * (avg + 1) ELSE i * avg
(* AllocateMessageQueueAveragely: the range of consumer i of m for n       *)
(* queues; with fewer queues than consumers one queue each until none is   *)
(* left.                                                                   *)
AvgStart(n, m, i) ==
    LET avg == n \div m
        mod == n % m
    IN  IF avg = 0 THEN (IF i < n THEN i ELSE n)
        ELSE IF i < mod THEN i * (avg + 1) ELSE mod * (avg + 1) + (i - mod) * avg

AvgSize(n, m, i) == (n \div m) + (IF i < n % m THEN 1 ELSE 0)

Averagely(c, mqs, cids) ==
    LET i == CheckConfig(c, mqs, cids)
        n == Len(mqs)
        m == Len(cids)
    IN  IF i = Missing THEN {}
        ELSE Slice(mqs, AvgStart(n, m, i), AvgStart(n, m, i) + AvgSize(n, m, i))

(* AllocateMessageQueueAveragelyByCircle                                   *)
ByCircle(c, mqs, cids) ==
    LET i == CheckConfig(c, mqs, cids) IN
    IF i = Missing THEN {}
    ELSE {mqs[k + 1] : k \in {j \in 0..Len(mqs) - 1 : j % Len(cids) = i}}

(* AllocateMessageQueueByMachineRoom: the queues of the served rooms; the  *)
(* remainder is dealt from the end of the list.                            *)
ByMachineRoom(c, mqs, cids) ==
    LET i   == CheckConfig(c, mqs, cids)
        pre == SelectSeq(mqs, LAMBDA q : Room[q] \in Idcs)
        mod == Len(pre) \div Len(cids)
        rem == Len(pre) % Len(cids)
    IN  IF i = Missing THEN {}
        ELSE Slice(pre, mod * i, mod * i + mod)
             \cup (IF rem > i THEN {pre[i + mod * Len(cids) + 1]} ELSE {})

(* ConsistentHashRouter: consumers enter the ring in their order, and one  *)
(* whose virtual node falls on a taken position takes it over.             *)
Ring(cids) ==
    LET points == UNION {{Virtual[cids[i]][j] : j \in DOMAIN Virtual[cids[i]]} : i \in DOMAIN cids}
        last(h) == CHOOSE i \in DOMAIN cids :
                      /\ \E j \in DOMAIN Virtual[cids[i]] : Virtual[cids[i]][j] = h
                      /\ \A k \in DOMAIN cids : k > i =>
                            \A j \in DOMAIN Virtual[cids[k]] : Virtual[cids[k]][j] # h
    IN  [h \in points |-> cids[last(h)]]

(* Faulty: a queue behind the last node of the ring has no consumer.       *)
RouteNodeOpen(ring, q) ==
    {ring[h] : h \in {g \in DOMAIN ring : /\ g >= HashOf[q]
                                          /\ \A f \in DOMAIN ring : f >= HashOf[q] => g <= f}}
(* route_node: the next node clockwise, from the start behind the last.    *)
RouteNode(ring, q) ==
    LET up == {h \in DOMAIN ring : h >= HashOf[q]}
        S  == IF up # {} THEN up ELSE DOMAIN ring
    IN  {ring[h] : h \in {g \in S : \A f \in S : g <= f}}

(* AllocateMessageQueueConsistentHash                                      *)
ConsistentHash(c, mqs, cids) ==
    IF CheckConfig(c, mqs, cids) = Missing THEN {}
    ELSE {mqs[k] : k \in {j \in DOMAIN mqs : c \in RouteNode(Ring(cids), mqs[j])}}

(* AllocateMachineRoomNearby around Averagely: the queues of the own room  *)
(* are divided in that room; a room without consumers is divided among     *)
(* all.                                                                    *)
Nearby(c, mqs, cids) ==
    LET mqIn(r)  == SelectSeq(mqs, LAMBDA q : Room[q] = r)
        cidIn(r) == SelectSeq(cids, LAMBDA d : Room[d] = r)
        empty    == {r \in {Room[mqs[k]] : k \in DOMAIN mqs} : cidIn(r) = <<>> /\ r # Room[c]}
    IN  IF CheckConfig(c, mqs, cids) = Missing THEN {}
        ELSE Averagely(c, mqIn(Room[c]), cidIn(Room[c]))
             \cup UNION {Averagely(c, mqIn(r), cids) : r \in empty}

(* An unknown room is an error, and the error voids the round.             *)
AllocateFails(strategy, c, mqs, cids) ==
    /\ strategy = "MACHINE_ROOM_NEARBY" /\ CheckConfig(c, mqs, cids) # Missing
    /\ \/ \E k \in DOMAIN mqs : Room[mqs[k]] = ""
       \/ \E k \in DOMAIN cids : Room[cids[k]] = ""

AllocateBy(strategy, c, mqs, cids) ==
    CASE strategy = "AVG" -> Averagely(c, mqs, cids)
      [] strategy = "AVG_BY_CIRCLE" -> ByCircle(c, mqs, cids)
      [] strategy = "MACHINE_ROOM" -> ByMachineRoom(c, mqs, cids)
      [] strategy = "CONSISTENT_HASH" -> ConsistentHash(c, mqs, cids)
      [] strategy = "MACHINE_ROOM_NEARBY" -> Nearby(c, mqs, cids)

(* The queues a strategy has to give to somebody.                          *)
Served(strategy, mqs, cids) ==
    LET all == {mqs[k] : k \in DOMAIN mqs} IN
    IF strategy = "MACHINE_ROOM" THEN {q \in all : Room[q] \in Idcs} ELSE all
=============================================================================
