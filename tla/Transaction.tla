----------------------------- MODULE Transaction -----------------------------
(***************************************************************************)
(* Transactional messages (DefaultMQProducer::send_message_in_transaction, *)
(* end_transaction, handle_check_transaction_state): a half message, the   *)
(* local transaction, the one-way request that ends it, and the broker's   *)
(* check-backs when that request does not come. The producers share one    *)
(* client instance, whose processor of check-backs is the last registered. *)
(***************************************************************************)
EXTENDS Integers, FiniteSets

CONSTANTS
    Msg,         \* transactional messages
    Producer,    \* the producers of the instance, each with a group of its own
    Owner,       \* of every message: its producer
    Listener,    \* of every message: the listener of its transaction
    MaxLoss,     \* bound on lost one-way requests
    MaxRestarts, \* bound on shutdowns of producers
    None

TransactionAssumption ==
    /\ Owner \in [Msg -> Producer] /\ None \notin Producer
    /\ None \notin {Listener[m] : m \in Msg} /\ MaxLoss \in Nat /\ MaxRestarts \in Nat

VARIABLES
    tx,        \* of every message: where its call is
    state,     \* of every message: the LocalTransactionState its call will report
    local,     \* of every message: its local transaction
    half,      \* of every message: what the broker holds
    net,       \* END_TRANSACTION requests on their way
    lost,      \* how many were lost
    listener,  \* of every producer: transaction_listener
    processor, \* the producer registered for CHECK_TRANSACTION_STATE
    started,   \* producers that are started
    restarts,  \* shutdowns so far
    checks     \* check-backs being answered: the message and the listener asked

vars == <<tx, state, local, half, net, lost, listener, processor, started, restarts, checks>>

Init ==
    /\ tx = [m \in Msg |-> "idle"]
    /\ state = [m \in Msg |-> "unknow"]
    /\ local = [m \in Msg |-> "none"]
    /\ half = [m \in Msg |-> "none"]
    /\ net = {} /\ lost = 0 /\ checks = {}
    /\ listener = [p \in Producer |-> None]
    /\ processor = None /\ started = {} /\ restarts = 0

-----------------------------------------------------------------------------
(* The producer's side *)

(* The listener is the producer's from now on; the half message goes out.  *)
SendHalf(m) ==
    /\ tx[m] = "idle" /\ Owner[m] \in started
    /\ listener' = [listener EXCEPT ![Owner[m]] = Listener[m]]
    /\ tx' = [tx EXCEPT ![m] = "sending"]
    /\ UNCHANGED <<state, local, half, net, lost, processor, started, restarts, checks>>

(* FlushDiskTimeout, FlushSlaveTimeout, SlaveNotAvailable                  *)
NotOkState == "rollback"

HalfSent(m) ==
    /\ tx[m] = "sending"
    /\ \/ /\ half' = [half EXCEPT ![m] = "half"]
          /\ \/ /\ local' = [local EXCEPT ![m] = "running"]
                /\ tx' = [tx EXCEPT ![m] = "executing"]
                /\ UNCHANGED state
             \/ /\ state' = [state EXCEPT ![m] = NotOkState]
                /\ tx' = [tx EXCEPT ![m] = "ending"]
                /\ UNCHANGED local
       \/ /\ half' \in {half, [half EXCEPT ![m] = "half"]}
          /\ tx' = [tx EXCEPT ![m] = "failed"]
          /\ UNCHANGED <<state, local>>
    /\ UNCHANGED <<net, lost, listener, processor, started, restarts, checks>>

(* execute_local_transaction                                               *)
Execute(m) ==
    /\ tx[m] = "executing"
    /\ \E s \in {"commit", "rollback", "unknow"} :
          /\ state' = [state EXCEPT ![m] = s]
          /\ local' = [local EXCEPT ![m] = IF s = "unknow" THEN "running" ELSE s]
    /\ tx' = [tx EXCEPT ![m] = "ending"]
    /\ UNCHANGED <<half, net, lost, listener, processor, started, restarts, checks>>

(* A transaction that was unknown is decided later, outside the client.    *)
Decide(m) ==
    /\ local[m] = "running" /\ tx[m] \in {"ending", "done"}
    /\ \E s \in {"commit", "rollback"} : local' = [local EXCEPT ![m] = s]
    /\ UNCHANGED <<tx, state, half, net, lost, listener, processor, started, restarts, checks>>

(* end_transaction: one-way, or not sent at all (no address, no channel).  *)
EndTransaction(m, s) == net' \in {net, net \union {[msg |-> m, state |-> s]}}

End(m) ==
    /\ tx[m] = "ending"
    /\ EndTransaction(m, state[m])
    /\ tx' = [tx EXCEPT ![m] = "done"]
    /\ UNCHANGED <<state, local, half, lost, listener, processor, started, restarts, checks>>

(* start registers the processor, in place of another producer's.          *)
Start(p) ==
    /\ p \notin started
    /\ started' = started \union {p}
    /\ processor' = p
    /\ UNCHANGED <<tx, state, local, half, net, lost, listener, restarts, checks>>

Shutdown(p) ==
    /\ p \in started /\ restarts < MaxRestarts
    /\ started' = started \ {p}
    /\ restarts' = restarts + 1
    /\ UNCHANGED <<tx, state, local, half, net, lost, listener, processor, checks>>

-----------------------------------------------------------------------------
(* Check-backs *)

(* handle_check_transaction_state: dropped unless the processor's producer *)
(* is started, has the message's group and has a listener.                 *)
CheckArrives(m) ==
    /\ half[m] = "half" /\ ~\E c \in checks : c.msg = m
    /\ processor = Owner[m] /\ processor \in started /\ listener[processor] # None
    /\ checks' = checks \union {[msg |-> m, listener |-> listener[processor]]}
    /\ UNCHANGED <<tx, state, local, half, net, lost, listener, processor, started, restarts>>

(* Faulty: a transaction that is still running is given up.                *)
AnswerEarly(c) == IF local[c.msg] \in {"none", "running"} THEN "rollback" ELSE local[c.msg]
(* check_local_transaction: what the listener knows of the message.        *)
Answer(c) ==
    IF c.listener = Listener[c.msg] /\ local[c.msg] \in {"commit", "rollback"}
    THEN local[c.msg] ELSE "unknow"

(* Faulty: the answer stays with the client.                               *)
CheckKept(c) ==
    /\ c \in checks
    /\ checks' = checks \ {c}
    /\ UNCHANGED <<tx, state, local, half, net, lost, listener, processor, started, restarts>>
CheckRun(c) ==
    /\ c \in checks
    /\ EndTransaction(c.msg, Answer(c))
    /\ checks' = checks \ {c}
    /\ UNCHANGED <<tx, state, local, half, lost, listener, processor, started, restarts>>

-----------------------------------------------------------------------------
(* The broker, and the network *)

Resolve(e) ==
    /\ e \in net
    /\ net' = net \ {e}
    /\ half' = [half EXCEPT ![e.msg] =
          IF @ = "half" /\ e.state # "unknow" THEN e.state ELSE @]
    /\ UNCHANGED <<tx, state, local, lost, listener, processor, started, restarts, checks>>

Lose(e) ==
    /\ e \in net /\ lost < MaxLoss
    /\ net' = net \ {e}
    /\ lost' = lost + 1
    /\ UNCHANGED <<tx, state, local, half, listener, processor, started, restarts, checks>>

-----------------------------------------------------------------------------
AllChecks == [msg : Msg, listener : {Listener[m] : m \in Msg}]
AllEnds == [msg : Msg, state : {"commit", "rollback", "unknow"}]

CallStep(m) == HalfSent(m) \/ Execute(m) \/ End(m)

Next ==
    \/ \E m \in Msg : SendHalf(m) \/ CallStep(m) \/ Decide(m) \/ CheckArrives(m)
    \/ \E p \in Producer : Start(p) \/ Shutdown(p)
    \/ \E c \in AllChecks : CheckRun(c)
    \/ \E e \in AllEnds : Resolve(e) \/ Lose(e)

Spec == Init /\ [][Next]_vars

(* The answer to a check-back is sent.                                     *)
CheckAnswered(c) == CheckRun(c) /\ net' # net
-----------------------------------------------------------------------------
(* Properties *)

TypeOK ==
    /\ \A m \in Msg :
          /\ tx[m] \in {"idle", "sending", "executing", "ending", "done", "failed"}
          /\ local[m] \in {"none", "running", "commit", "rollback"}
          /\ half[m] \in {"none", "half", "commit", "rollback"}
    /\ net \subseteq AllEnds /\ checks \subseteq AllChecks /\ started \subseteq Producer
    /\ \A m \in Msg : tx[m] # "idle" => listener[Owner[m]] # None

(* The broker delivers a message only if its local transaction committed,  *)
(* and drops it only if that never will, whatever requests are lost, late  *)
(* or sent twice and whoever is restarted.                                 *)
Atomic ==
    \A m \in Msg :
        /\ half[m] = "commit" => local[m] = "commit"
        /\ half[m] = "rollback" => local[m] \in {"none", "rollback"}

(* A transaction that is decided is resolved at the broker: where the      *)
(* request that ends it is lost the check-back finds the outcome.          *)
Resolved ==
    \A m \in Msg : half[m] = "half" /\ local[m] \in {"commit", "rollback"} ~> half[m] # "half"

=============================================================================
