---------------------------- MODULE AtLeastOnce ----------------------------
(***************************************************************************)
(* What a consumer group is promised about one message queue: the offset   *)
(* the broker keeps for the group never passes a message the group still   *)
(* has to see.  A message is settled when the listener accepted it, when   *)
(* it went back to the broker for another delivery, when the subscription  *)
(* does not ask for it or when the broker deleted it.                      *)
(*                                                                         *)
(* The offset may move backwards: that costs a second delivery and loses   *)
(* nothing.                                                                *)
(***************************************************************************)
EXTENDS Integers

CONSTANT MaxOff  \* messages the queue may hold

VARIABLES
    settled,   \* the messages nobody has to see any more
    committed  \* the offset the broker keeps, -1 before the first commit

vars == <<settled, committed>>

Offset == 0..MaxOff - 1

Init == settled \subseteq Offset /\ committed = -1

(* The group may resume at o: nothing below o is still to be seen.         *)
Safe(o) == \A m \in Offset : m < o => m \in settled

Settle == settled \subseteq settled' /\ settled' \subseteq Offset /\ UNCHANGED committed

Commit ==
    /\ committed' \in 0..MaxOff /\ Safe(committed')
    /\ UNCHANGED settled

Next == Settle \/ Commit

(* The queue is finished: all is settled and the group resumes at the end. *)
Done == settled = Offset /\ committed = MaxOff

Spec == Init /\ [][Next]_vars
=============================================================================
