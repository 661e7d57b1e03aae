-------------------------- MODULE ProducerTheorems --------------------------
(***************************************************************************)
(* Transactions, requests and sends of a producer, for any number of       *)
(* messages, producers, lost requests and restarts.                        *)
(*                                                                         *)
(* A transactional message and its local transaction agree.  Nothing       *)
(* orders the requests that end a transaction, so the invariant is about   *)
(* each of them where it is: about to be sent, on its way, or applied at   *)
(* the broker, it asks for what the local transaction decided, and a       *)
(* decision is final.                                                      *)
(*                                                                         *)
(* The future of a request leaves the table once, by the reply, by the     *)
(* scan or by its caller, and whoever took it out is the only one that may *)
(* complete it.                                                            *)
(*                                                                         *)
(* A send that is retried keeps the time it has, and the invariant of a    *)
(* call is about its own variables: calls meet only in the cursor of the   *)
(* queue list, and a turn of the ring passes every queue from anywhere.    *)
(***************************************************************************)
EXTENDS Transaction, Sequences, WellFoundedInduction, TLAPS

CONSTANTS
    \* RequestReply
    Sync, Async, Stays, MaxReplies,
    \* SendRetry
    Call, Broker, Lists, Cycle, Times, Budget, MaxPerRequest, MaxLookup,
    TickMillis, Latency, Detects, SwitchBroker, Outcomes, Down, MaxRoutes, NoBroker

VARIABLES
    \* RequestReply
    caller, future, table, told, expired, stored, reply, scan, rqStarted,
    \* SendRetry
    send, queues, fault, probe

Rq == INSTANCE RequestReply WITH started <- rqStarted
Re == INSTANCE SendRetry

Outcome == {"commit", "rollback", "unknow"}

(* A request to end a transaction with s is right, now and from now on,    *)
(* when l is the local transaction and t the stage of the call: "commit"   *)
(* means that it committed, "rollback" that it rolled back, or that it     *)
(* never began and the call is past the point where it would have.         *)
Settles(l, t, s) ==
    /\ s = "commit" => l = "commit"
    /\ s = "rollback" => l = "rollback" \/ (l = "none" /\ t \in {"ending", "done"})

Types ==
    /\ tx \in [Msg -> {"idle", "sending", "executing", "ending", "done", "failed"}]
    /\ state \in [Msg -> Outcome]
    /\ local \in [Msg -> {"none", "running", "commit", "rollback"}]
    /\ half \in [Msg -> {"none", "half", "commit", "rollback"}]
    /\ net \subseteq AllEnds /\ checks \subseteq AllChecks /\ started \subseteq Producer
    /\ listener \in [Producer -> {Listener[m] : m \in Msg} \union {None}]
    /\ \A m \in Msg : tx[m] # "idle" => listener[Owner[m]] # None

Decided ==
    /\ \A m \in Msg :
          /\ tx[m] \in {"idle", "sending"} => local[m] = "none"
          /\ tx[m] = "executing" => local[m] = "running"
          /\ tx[m] = "ending" => Settles(local[m], tx[m], state[m])
          /\ Settles(local[m], tx[m], half[m])
    /\ \A e \in net : Settles(local[e.msg], tx[e.msg], e.state)

-----------------------------------------------------------------------------
(* The types, action by action: the listener of a message's producer is    *)
(* there from the moment its half message goes out.                        *)
LEMMA TypesStep ==
    ASSUME TransactionAssumption, Types, [Next]_vars
    PROVE  Types'
<1>0. /\ Owner \in [Msg -> Producer] /\ None \notin Producer
      /\ \A m \in Msg : Listener[m] # None
  BY Zenon DEF TransactionAssumption
<1>1. ASSUME NEW m \in Msg, SendHalf(m) PROVE Types'
  BY <1>0, <1>1, Zenon DEF Types, SendHalf
<1>2. ASSUME NEW m \in Msg, HalfSent(m) PROVE Types'
  BY <1>2 DEF Types, HalfSent, NotOkState, Outcome
<1>3. ASSUME NEW m \in Msg, Execute(m) PROVE Types'
  BY <1>3 DEF Types, Execute, Outcome
<1>4. ASSUME NEW m \in Msg, Decide(m) PROVE Types'
  BY <1>4, Zenon DEF Types, Decide
<1>5. ASSUME NEW m \in Msg, End(m) PROVE Types'
  <2>1. [msg |-> m, state |-> state[m]] \in AllEnds
    BY Zenon DEF Types, Outcome, AllEnds
  <2> QED BY <1>5, <2>1, Zenon DEF Types, End, EndTransaction
<1>6. ASSUME NEW m \in Msg, CheckArrives(m) PROVE Types'
  <2>1. [msg |-> m, listener |-> listener[processor]] \in AllChecks
    BY <1>0, <1>6, Zenon DEF Types, CheckArrives, AllChecks
  <2> QED BY <1>6, <2>1, Zenon DEF Types, CheckArrives
<1>7. ASSUME NEW p \in Producer, Start(p) \/ Shutdown(p) PROVE Types'
  BY <1>7 DEF Types, Start, Shutdown
<1>8. ASSUME NEW c \in AllChecks, CheckRun(c) PROVE Types'
  <2>1. c.msg \in Msg
    BY Zenon DEF AllChecks
  <2>2. [msg |-> c.msg, state |-> Answer(c)] \in AllEnds
    BY <2>1, Zenon DEF Answer, AllEnds
  <2> QED BY <1>8, <2>2, Zenon DEF Types, CheckRun, EndTransaction
<1>9. ASSUME NEW e \in AllEnds, Resolve(e) \/ Lose(e) PROVE Types'
  <2>1. e.state \in Outcome
    BY Zenon DEF AllEnds, Outcome
  <2> QED BY <1>9, <2>1 DEF Types, Resolve, Lose, Outcome
<1>10. CASE UNCHANGED vars
  BY <1>10, Zenon DEF vars, Types
<1> QED BY <1>1, <1>2, <1>3, <1>4, <1>5, <1>6, <1>7, <1>8, <1>9, <1>10, Zenon DEF Next, CallStep

(* A request that is right stays right: a decision is final, and who has   *)
(* not decided has asked for nothing.                                      *)
LEMMA SettlesStays ==
    ASSUME Types, Decided, [Next]_vars, NEW m \in Msg, NEW s, Settles(local[m], tx[m], s)
    PROVE  Settles(local'[m], tx'[m], s)
<1>1. ASSUME NEW n \in Msg, SendHalf(n) PROVE Settles(local'[m], tx'[m], s)
  BY <1>1, Zenon DEF Types, SendHalf, Settles
<1>2. ASSUME NEW n \in Msg, HalfSent(n) PROVE Settles(local'[m], tx'[m], s)
  <2>1. n = m => s \notin {"commit", "rollback"}
    BY <1>2, Zenon DEF HalfSent, Decided, Settles
  <2> QED BY <1>2, <2>1, Zenon DEF Types, HalfSent, Settles
<1>3. ASSUME NEW n \in Msg, Execute(n) PROVE Settles(local'[m], tx'[m], s)
  <2>1. n = m => s \notin {"commit", "rollback"}
    BY <1>3, Zenon DEF Execute, Decided, Settles
  <2> QED BY <1>3, <2>1, Zenon DEF Types, Execute, Settles
<1>4. ASSUME NEW n \in Msg, Decide(n) PROVE Settles(local'[m], tx'[m], s)
  <2>1. n = m => s \notin {"commit", "rollback"}
    BY <1>4, Zenon DEF Decide, Settles
  <2> QED BY <1>4, <2>1, Zenon DEF Types, Decide, Settles
<1>5. ASSUME NEW n \in Msg, End(n) PROVE Settles(local'[m], tx'[m], s)
  BY <1>5, Zenon DEF Types, End, Settles
<1>6. ASSUME local' = local, tx' = tx PROVE Settles(local'[m], tx'[m], s)
  BY <1>6, Zenon DEF Settles
<1> QED BY <1>1, <1>2, <1>3, <1>4, <1>5, <1>6, Zenon
        DEF Next, CallStep, CheckArrives, Start, Shutdown, CheckRun, Resolve, Lose, vars

(* What a check-back is answered: the decision, where there is one.        *)
LEMMA AnswerSettles ==
    ASSUME Types, NEW c \in AllChecks
    PROVE  Settles(local[c.msg], tx[c.msg], Answer(c))
BY Zenon DEF Answer, Settles

(* The invariant, action by action.                                        *)
LEMMA DecidedStep ==
    ASSUME TransactionAssumption, Types, Decided, [Next]_vars
    PROVE  Decided'
<1>1. ASSUME NEW m \in Msg
      PROVE  /\ Settles(local'[m], tx'[m], half[m])
             /\ tx[m] = "ending" => Settles(local'[m], tx'[m], state[m])
  BY SettlesStays, Zenon DEF Decided
<1>2. ASSUME NEW e \in net PROVE Settles(local'[e.msg], tx'[e.msg], e.state)
  <2>1. e.msg \in Msg
    BY Zenon DEF Types, AllEnds
  <2> QED BY <2>1, SettlesStays, Zenon DEF Decided
<1>3. \A m \in Msg : Settles(local'[m], tx'[m], half'[m])
  <2>1. ASSUME NEW m \in Msg, half'[m] \in {half[m], "none", "half"}
        PROVE  Settles(local'[m], tx'[m], half'[m])
    BY <1>1, <2>1, Zenon DEF Settles
  <2>2. ASSUME NEW e \in AllEnds, Resolve(e), NEW m \in Msg
        PROVE  Settles(local'[m], tx'[m], half'[m])
    <3>1. half'[m] = half[m] \/ (e.msg = m /\ half'[m] = e.state)
      BY <2>2, Zenon DEF Resolve, Types
    <3> QED BY <1>1, <1>2, <2>2, <3>1, Zenon DEF Resolve
  <2>3. ASSUME NEW n \in Msg, HalfSent(n), NEW m \in Msg
        PROVE  half'[m] \in {half[m], "none", "half"}
    BY <2>3, Zenon DEF HalfSent, Types
  <2>4. \/ half' = half \/ (\E n \in Msg : HalfSent(n)) \/ \E e \in AllEnds : Resolve(e)
    BY Zenon DEF Next, CallStep, SendHalf, Execute, Decide, End, CheckArrives, Start, Shutdown,
           CheckRun, Lose, vars
  <2> QED BY <2>1, <2>2, <2>3, <2>4, Zenon
<1>4. \A e \in net' : Settles(local'[e.msg], tx'[e.msg], e.state)
  <2>1. CASE net' \subseteq net
    BY <1>2, <2>1, Zenon
  <2>2. ASSUME NEW m \in Msg, End(m) PROVE \A e \in net' : Settles(local'[e.msg], tx'[e.msg], e.state)
    <3>1. \A e \in net' : e \in net \/ (e.msg = m /\ e.state = state[m])
      BY <2>2 DEF End, EndTransaction
    <3>2. Settles(local'[m], tx'[m], state[m])
      BY <1>1, <2>2, Zenon DEF End
    <3> QED BY <1>2, <3>1, <3>2, Zenon
  <2>3. ASSUME NEW c \in AllChecks, CheckRun(c)
        PROVE  \A e \in net' : Settles(local'[e.msg], tx'[e.msg], e.state)
    <3>1. \A e \in net' : e \in net \/ (e.msg = c.msg /\ e.state = Answer(c))
      BY <2>3 DEF CheckRun, EndTransaction
    <3>2. Settles(local'[c.msg], tx'[c.msg], Answer(c))
      BY <2>3, AnswerSettles, Zenon DEF CheckRun
    <3> QED BY <1>2, <3>1, <3>2, Zenon
  <2>4. \/ net' \subseteq net \/ (\E m \in Msg : End(m)) \/ \E c \in AllChecks : CheckRun(c)
    BY Zenon DEF Next, CallStep, SendHalf, HalfSent, Execute, Decide, CheckArrives, Start, Shutdown,
           Resolve, Lose, vars
  <2> QED BY <2>1, <2>2, <2>3, <2>4, Zenon
<1>5. ASSUME NEW m \in Msg
      PROVE  /\ tx'[m] \in {"idle", "sending"} => local'[m] = "none"
             /\ tx'[m] = "executing" => local'[m] = "running"
             /\ tx'[m] = "ending" => Settles(local'[m], tx'[m], state'[m])
  <2> DEFINE Kept == /\ tx'[m] \in {"idle", "sending"} => local'[m] = "none"
                     /\ tx'[m] = "executing" => local'[m] = "running"
                     /\ tx'[m] = "ending" => Settles(local'[m], tx'[m], state'[m])
  <2>1. CASE tx'[m] = tx[m] /\ local'[m] = local[m] /\ state'[m] = state[m]
    BY <1>1, <2>1, Zenon DEF Decided
  <2>2. ASSUME NEW n \in Msg, SendHalf(n) PROVE Kept
    BY <1>1, <2>2, Zenon DEF SendHalf, Types, Decided
  <2>3. ASSUME NEW n \in Msg, HalfSent(n) PROVE Kept
    <3>1. CASE n # m
      BY <2>1, <2>3, <3>1, Zenon DEF HalfSent, Types
    <3>2. CASE n = m
      BY <2>3, <3>2 DEF HalfSent, Types, Decided, Settles, NotOkState
    <3> QED BY <3>1, <3>2, Zenon
  <2>4. ASSUME NEW n \in Msg, Execute(n) PROVE Kept
    <3>1. CASE n # m
      BY <2>1, <2>4, <3>1, Zenon DEF Execute, Types
    <3>2. CASE n = m
      BY <2>4, <3>2, Zenon DEF Execute, Types, Settles
    <3> QED BY <3>1, <3>2, Zenon
  <2>5. ASSUME NEW n \in Msg, Decide(n) PROVE Kept
    BY <1>1, <2>5, Zenon DEF Decide, Types, Decided
  <2>6. ASSUME NEW n \in Msg, End(n) PROVE Kept
    BY <1>1, <2>6, Zenon DEF End, Types, Decided
  <2>7. \/ UNCHANGED <<tx, local, state>>
        \/ \E n \in Msg : SendHalf(n) \/ HalfSent(n) \/ Execute(n) \/ Decide(n) \/ End(n)
    BY Zenon DEF Next, CallStep, CheckArrives, Start, Shutdown, CheckRun, Resolve, Lose, vars
  <2> QED BY <2>1, <2>2, <2>3, <2>4, <2>5, <2>6, <2>7, Zenon
<1> QED BY <1>3, <1>4, <1>5, Zenon DEF Decided

(* No message is out and nothing is decided when the producers start.      *)
LEMMA Initially == ASSUME TransactionAssumption, Init PROVE Types /\ Decided
BY Zenon DEF Init, Types, Decided, Settles, Outcome

-----------------------------------------------------------------------------
(* The fields of calls, requests and check-backs have their types, and a   *)
(* message that went out has a listener at its producer.                   *)
THEOREM TransactionTypeCorrect == ASSUME TransactionAssumption PROVE Spec => []TypeOK
<1>1. Init => Types
  BY Initially, Zenon
<1>2. Types /\ [Next]_vars => Types'
  BY TypesStep, Zenon
<1>3. Types => TypeOK
  BY Zenon DEF Types, TypeOK
<1> QED BY <1>1, <1>2, <1>3, PTL DEF Spec

(* send_message_in_transaction, end_transaction and the check-backs of     *)
(* handle_check_transaction_state: the broker delivers a message only if   *)
(* its local transaction committed, and drops it only if that never will,  *)
(* whatever requests are lost, late or sent twice, whichever producer's    *)
(* processor answers and whoever is restarted.                             *)
THEOREM TransactionAtomic == ASSUME TransactionAssumption PROVE Spec => []Atomic
<1>1. Init => Types /\ Decided
  BY Initially, Zenon
<1>2. Types /\ Decided /\ [Next]_vars => Types' /\ Decided'
  BY TypesStep, DecidedStep, Zenon
<1>3. Types /\ Decided => Atomic
  BY Zenon DEF Decided, Settles, Atomic
<1> QED BY <1>1, <1>2, <1>3, PTL DEF Spec

(* A resolution is final: what the broker did with a message it never      *)
(* takes back, and a decision of the local transaction neither.            *)
Final ==
    \A m \in Msg :
        /\ local[m] \in {"commit", "rollback"} => local'[m] = local[m]
        /\ half[m] \in {"commit", "rollback"} => half'[m] = half[m]

(* Neither send_message_in_transaction nor end_transaction, sent twice or  *)
(* late, undoes a decision or what the broker did with the message.        *)
THEOREM DecisionFinal == ASSUME TransactionAssumption PROVE Spec => [][Final]_vars
<1>1. Init => Types /\ Decided
  BY Initially, Zenon
<1>2. Types /\ Decided /\ [Next]_vars => Types' /\ Decided'
  BY TypesStep, DecidedStep, Zenon
<1>3. Types /\ Decided /\ [Next]_vars => [Final]_vars
  <2> SUFFICES ASSUME Types, Decided, Next, NEW m \in Msg
               PROVE  /\ local[m] \in {"commit", "rollback"} => local'[m] = local[m]
                      /\ half[m] \in {"commit", "rollback"} => half'[m] = half[m]
    BY ZenonT(40) DEF Final
  <2>1. local[m] \in {"commit", "rollback"} => local'[m] = local[m]
    BY ZenonT(40) DEF Types, Decided, Next, CallStep, SendHalf, HalfSent, Execute, Decide, End, CheckArrives,
           Start, Shutdown, CheckRun, Resolve, Lose
  <2>2. half[m] \in {"commit", "rollback"} => half'[m] = half[m]
    <3>1. ASSUME NEW x \in Msg, HalfSent(x), half[m] \in {"commit", "rollback"}
          PROVE  half'[m] = half[m]
      <4>1. half[x] \notin {"commit", "rollback"}
        BY <3>1 DEF Decided, Settles, HalfSent
      <4>2. half' = half \/ half' = [half EXCEPT ![x] = "half"]
        BY <3>1, Zenon DEF HalfSent
      <4> QED BY <3>1, <4>1, <4>2, Zenon DEF Types
    <3>2. ASSUME NEW e \in AllEnds, Resolve(e), half[m] \in {"commit", "rollback"}
          PROVE  half'[m] = half[m]
      <4>1. half' = [half EXCEPT ![e.msg] = IF @ = "half" /\ e.state # "unknow" THEN e.state ELSE @]
        BY <3>2, Zenon DEF Resolve
      <4> QED BY <3>2, <4>1 DEF Types
    <3>3. \/ \E x \in Msg : HalfSent(x)
          \/ \E e \in AllEnds : Resolve(e)
          \/ UNCHANGED half
      BY Zenon DEF Next, CallStep, SendHalf, Execute, Decide, End, CheckArrives, Start, Shutdown,
                   CheckRun, Lose
    <3> QED BY <3>1, <3>2, <3>3, Zenon
  <2> QED BY <2>1, <2>2, Zenon
<1> QED BY <1>1, <1>2, <1>3, PTL DEF Spec

-----------------------------------------------------------------------------
Fut == [resp : BOOLEAN, cause : BOOLEAN, ok : BOOLEAN, responded : BOOLEAN,
        fired : BOOLEAN, notified : BOOLEAN]

Futures ==
    /\ future \in [Rq!Req -> Fut] /\ told \in [Rq!Req -> Seq({"success", "exception"})]
    /\ caller \in [Rq!Req -> {"idle", "sending", "check", "wait", "got", "timeout",
                           "failed", "done", "away", "dropped"}]
    /\ reply \in [Rq!Req -> [pc : {"none", "put", "call"}, count : Nat]]
    /\ scan \in [on : BOOLEAN, count : Int, todo : SUBSET Rq!Req] /\ table \subseteq Rq!Req

(* Nobody has taken the future of r, or one of two has; before that it was *)
(* neither answered nor called.                                            *)
Untouched(r) == r \notin scan.todo /\ reply[r].pc = "none"
Unanswered(r) == ~future[r].resp /\ told[r] = <<>> /\ ~future[r].fired

Taker(r) ==
    /\ caller[r] = "idle" => r \notin table /\ Untouched(r) /\ Unanswered(r)
    /\ r \in table => Untouched(r) /\ Unanswered(r)
    /\ r \in scan.todo => reply[r].pc = "none" /\ Unanswered(r)
    /\ reply[r].pc = "put" => Unanswered(r)
    /\ reply[r].pc = "call" => future[r].resp /\ told[r] = <<>> /\ ~future[r].fired

OneTaker == \A r \in Rq!Req : Taker(r)

(* A step that leaves alone what the invariant says of r.                  *)
Same(r) ==
    /\ caller'[r] = "idle" => caller[r] = "idle"
    /\ r \in table' => r \in table
    /\ r \in scan'.todo <=> r \in scan.todo
    /\ reply'[r].pc = reply[r].pc /\ told'[r] = told[r]
    /\ future'[r].resp = future[r].resp /\ future'[r].fired = future[r].fired

(* A failed send is the only cause a callback that was not called may have *)
(* by then, and a callback is told what has become of the request.         *)
Story(r) ==
    /\ ~future[r].fired /\ future[r].cause => ~future[r].ok
    /\ future[r].fired <=> told[r] # <<>>
    /\ told[r] = <<"success">> => future[r].resp
    /\ told[r] = <<"exception">> => ~future[r].resp \/ ~future[r].ok

Stories == \A r \in Async : Story(r)

-----------------------------------------------------------------------------
(* The types: what the callback and the scan write back is a future.       *)
LEMMA FuturesStep ==
    ASSUME Rq!RequestAssumption, Futures, [Rq!Next]_Rq!vars
    PROVE  Futures'
<1>0. MaxReplies \in Nat /\ Async \subseteq Rq!Req /\ Sync \subseteq Rq!Req
  BY Zenon DEF Rq!RequestAssumption, Rq!Req
<1>1. ASSUME NEW r \in Rq!Req, Rq!Request(r) \/ Rq!Cancel(r) PROVE Futures'
  BY <1>1, Zenon DEF Futures, Rq!Request, Rq!Cancel
<1>2. ASSUME NEW r \in Rq!Req, Rq!Sent(r) PROVE Futures'
  <2>0. future[r] \in Fut
    BY Zenon DEF Futures
  <2>1. Rq!Notified([future[r] EXCEPT !.ok = FALSE, !.cause = TRUE, !.responded = TRUE]) \in Fut
    BY <2>0, Zenon DEF Rq!Notified, Fut
  <2>2. future' \in [Rq!Req -> Fut]
    BY <1>2, <2>1, Zenon DEF Futures, Rq!Sent
  <2> QED BY <1>2, <2>2, Zenon DEF Futures, Rq!Sent
<1>3. ASSUME NEW r \in Rq!Req, Rq!WaitCheck(r) PROVE Futures'
  <2>0. future[r] \in Fut
    BY Zenon DEF Futures
  <2>1. [future[r] EXCEPT !.notified = FALSE] \in Fut
    BY <2>0, Zenon DEF Fut
  <2> QED BY <1>3, <2>1, Zenon DEF Futures, Rq!WaitCheck
<1>4. ASSUME NEW r \in Rq!Req, Rq!WaitWoken(r) \/ Rq!WaitTimeout(r) \/ Rq!Cleanup(r)
                 PROVE Futures'
  BY <1>4, Zenon DEF Futures, Rq!WaitWoken, Rq!WaitTimeout, Rq!Cleanup
<1>5. ASSUME NEW r \in Rq!Req, Rq!ReplyTakes(r) PROVE Futures'
  BY <1>5 DEF Futures, Rq!ReplyTakes
<1>6. ASSUME NEW r \in Rq!Req, Rq!ReplyPut(r) PROVE Futures'
  <2>0. future[r] \in Fut
    BY Zenon DEF Futures
  <2>1. Rq!Notified([future[r] EXCEPT !.resp = TRUE, !.responded = TRUE]) \in Fut
    BY <2>0, Zenon DEF Rq!Notified, Fut
  <2> QED BY <1>6, <2>1, ZenonT(40) DEF Futures, Rq!ReplyPut
<1>7. ASSUME NEW r \in Rq!Req, NEW f \in Fut, Rq!Execute(r, f)
      PROVE  future' \in [Rq!Req -> Fut] /\ told' \in [Rq!Req -> Seq({"success", "exception"})]
  <2>1. [f EXCEPT !.fired = TRUE, !.cause = FALSE] \in Fut
    BY Zenon DEF Fut
  <2>2. Append(told[r], Rq!Outcome(f)) \in Seq({"success", "exception"})
    BY DEF Futures, Rq!Outcome
  <2>3. CASE r \in Async /\ ~f.fired
    <3>1. /\ future' = [future EXCEPT ![r] = [f EXCEPT !.fired = TRUE, !.cause = FALSE]]
          /\ told' = [told EXCEPT ![r] = Append(told[r], Rq!Outcome(f))]
      BY <1>7, <2>3, Zenon DEF Rq!Execute, Futures
    <3> QED BY <2>1, <2>2, <3>1, Zenon DEF Futures
  <2>4. CASE ~(r \in Async /\ ~f.fired)
    BY <1>7, <2>4, ZenonT(40) DEF Rq!Execute, Futures
  <2> QED BY <2>3, <2>4, Zenon
<1>8. ASSUME NEW r \in Rq!Req, Rq!ReplyCall(r) PROVE Futures'
  <2>1. future[r] \in Fut /\ Rq!Execute(r, future[r])
    BY <1>8, Zenon DEF Futures, Rq!ReplyCall
  <2>2. future' \in [Rq!Req -> Fut] /\ told' \in [Rq!Req -> Seq({"success", "exception"})]
    BY <1>7, <2>1, Zenon
  <2> QED BY <1>8, <2>2, ZenonT(40) DEF Futures, Rq!ReplyCall
<1>9. ASSUME NEW r \in Rq!Req, Rq!ScanCall(r) PROVE Futures'
  <2>0. future[r] \in Fut
    BY Zenon DEF Futures
  <2>1. [future[r] EXCEPT !.cause = TRUE] \in Fut
    BY <2>0, Zenon DEF Fut
  <2>2. future' \in [Rq!Req -> Fut] /\ told' \in [Rq!Req -> Seq({"success", "exception"})]
    BY <1>7, <1>9, <2>1, Zenon DEF Rq!ScanCall
  <2> QED BY <1>9, <2>2, Zenon DEF Futures, Rq!ScanCall
<1>10. CASE UNCHANGED <<caller, future, told, reply, table, scan>>
  BY <1>10, Zenon DEF Futures
<1>11. CASE Rq!ScanRemove
  BY <1>11, Zenon DEF Futures, Rq!ScanRemove
<1>12. ASSUME NEW p \in Producer, Rq!StartProducer(p) \/ Rq!StopProducer(p) PROVE Futures'
  <2>1. scan'.todo = scan.todo /\ scan' \in [on : BOOLEAN, count : Int, todo : SUBSET Rq!Req]
    <3>1. CASE Rq!StartProducer(p)
      <4>1. scan' = [on |-> TRUE, count |-> scan.count + 1, todo |-> scan.todo]
        BY <3>1, Zenon DEF Futures, Rq!StartProducer
      <4> QED BY <4>1 DEF Futures
    <3>2. CASE Rq!StopProducer(p)
      <4>1. scan' = [on |-> scan.on
                /\ ~Rq!LastStopped, count |-> scan.count - 1, todo |-> scan.todo]
        BY <3>2, Zenon DEF Futures, Rq!StopProducer
      <4>2. (scan.on /\ ~Rq!LastStopped) \in BOOLEAN
        BY Zenon
      <4> QED BY <4>1, <4>2 DEF Futures
    <3> QED BY <1>12, <3>1, <3>2, Zenon
  <2> QED BY <1>12, <2>1 DEF Futures, Rq!StartProducer, Rq!StopProducer
<1> QED BY <1>1, <1>2, <1>3, <1>4, <1>5, <1>6, <1>8, <1>9, <1>10, <1>11, <1>12, Zenon
        DEF Rq!Next, Rq!CallerStep, Rq!ReplyStep, Rq!Expire, Rq!vars

(* The future of r changes hands at most once, action by action.           *)
LEMMA TakerStep ==
    ASSUME Rq!RequestAssumption, Futures, OneTaker, [Rq!Next]_Rq!vars
    PROVE  OneTaker'
<1>0. /\ future \in [Rq!Req -> Fut] /\ DOMAIN told = Rq!Req /\ DOMAIN caller = Rq!Req
      /\ reply \in [Rq!Req -> [pc : {"none", "put", "call"}, count : Nat]]
      /\ scan \in [on : BOOLEAN, count : Int, todo : SUBSET Rq!Req] /\ table \subseteq Rq!Req
  BY Zenon DEF Futures
<1>s. ASSUME NEW q \in Rq!Req, Same(q) PROVE Taker(q)'
  <2>1. Taker(q)
    BY Zenon DEF OneTaker
  <2> QED BY <1>s, <2>1, Zenon DEF Same, Taker, Untouched, Unanswered
<1>1. ASSUME NEW r \in Rq!Req, Rq!Request(r) PROVE OneTaker'
  <2>1. \A q \in Rq!Req : q # r => Same(q)
    BY <1>0, <1>1, Zenon DEF Rq!Request, Same
  <2>2. Taker(r) /\ caller[r] = "idle" /\ caller'[r] = "sending"
        /\ UNCHANGED <<future, told, reply, scan>>
    BY <1>0, <1>1, Zenon DEF Rq!Request, OneTaker
  <2>3. Taker(r)'
    BY <2>2, Zenon DEF Taker, Untouched, Unanswered
  <2> QED BY <1>s, <2>1, <2>3, Zenon DEF OneTaker
<1>2. ASSUME NEW r \in Rq!Req, Rq!Sent(r) PROVE OneTaker'
  <2>1. \A q \in Rq!Req : future'[q].resp = future[q].resp /\ future'[q].fired = future[q].fired
    <3>1. future[r] \in Fut
      BY <1>0, Zenon
    <3>2. \A q \in Rq!Req : q # r => future'[q] = future[q]
      BY <1>0, <1>2, Zenon DEF Rq!Sent
    <3>3. \/ future'[r] = future[r]
          \/ future'[r] = [future[r] EXCEPT !.ok = FALSE, !.cause = TRUE, !.responded = TRUE,
                                            !.notified = TRUE]
      BY <1>0, <1>2, Zenon DEF Rq!Sent, Rq!Notified, Fut
    <3> QED BY <3>1, <3>2, <3>3, ZenonT(40) DEF Fut
  <2>2. \A q \in Rq!Req : Same(q)
    BY <1>0, <1>2, <2>1, Zenon DEF Rq!Sent, Same
  <2> QED BY <1>s, <2>2, Zenon DEF OneTaker
<1>3. ASSUME NEW r \in Rq!Req, Rq!WaitCheck(r) PROVE OneTaker'
  <2>1. \A q \in Rq!Req : future'[q].resp = future[q].resp /\ future'[q].fired = future[q].fired
    BY <1>0, <1>3 DEF Rq!WaitCheck, Fut
  <2>2. \A q \in Rq!Req : Same(q)
    BY <1>0, <1>3, <2>1, Zenon DEF Rq!WaitCheck, Same
  <2> QED BY <1>s, <2>2, Zenon DEF OneTaker
<1>4. ASSUME NEW r \in Rq!Req,
                 Rq!Cancel(r) \/ Rq!WaitWoken(r) \/ Rq!WaitTimeout(r) \/ Rq!Cleanup(r)
      PROVE  OneTaker'
  <2>1. \A q \in Rq!Req : Same(q)
    BY <1>0, <1>4, Zenon DEF Rq!Cancel, Rq!WaitWoken, Rq!WaitTimeout, Rq!Cleanup, Same
  <2> QED BY <1>s, <2>1, Zenon DEF OneTaker
<1>5. ASSUME NEW r \in Rq!Req, Rq!ReplyTakes(r) PROVE OneTaker'
  <2>1. \A q \in Rq!Req : q # r => Same(q)
    BY <1>0, <1>5, Zenon DEF Rq!ReplyTakes, Same
  <2>2. /\ reply'[r].pc = IF r \in table THEN "put" ELSE "none"
        /\ r \notin table' /\ reply[r].pc = "none" /\ UNCHANGED <<caller, future, told, scan>>
    BY <1>0, <1>5, Zenon DEF Rq!ReplyTakes
  <2>3. Taker(r)
    BY Zenon DEF OneTaker
  <2>4. Taker(r)'
    BY <2>2, <2>3, Zenon DEF Taker, Untouched, Unanswered
  <2> QED BY <1>s, <2>1, <2>4, Zenon DEF OneTaker
<1>6. ASSUME NEW r \in Rq!Req, Rq!ReplyPut(r) PROVE OneTaker'
  <2>1. \A q \in Rq!Req : q # r => Same(q)
    BY <1>0, <1>6, Zenon DEF Rq!ReplyPut, Same
  <2>2. /\ future'[r].resp /\ future'[r].fired = future[r].fired /\ reply[r].pc = "put"
        /\ reply'[r].pc = "call" /\ UNCHANGED <<caller, told, scan, table>>
    BY <1>0, <1>6 DEF Rq!ReplyPut, Rq!Notified, Fut
  <2>3. Taker(r)
    BY Zenon DEF OneTaker
  <2>4. Taker(r)'
    BY <2>2, <2>3, Zenon DEF Taker, Untouched, Unanswered
  <2> QED BY <1>s, <2>1, <2>4, Zenon DEF OneTaker
<1>7. ASSUME NEW r \in Rq!Req, Rq!ReplyCall(r) PROVE OneTaker'
  <2>1. \A q \in Rq!Req : q # r => Same(q)
    BY <1>0, <1>7, Zenon DEF Rq!ReplyCall, Rq!Execute, Same
  <2>2. reply[r].pc = "call" /\ reply'[r].pc = "none" /\ UNCHANGED <<caller, scan, table>>
    BY <1>0, <1>7, Zenon DEF Rq!ReplyCall
  <2>3. Taker(r)
    BY Zenon DEF OneTaker
  <2>4. Taker(r)'
    BY <2>2, <2>3, Zenon DEF Taker, Untouched, Unanswered
  <2> QED BY <1>s, <2>1, <2>4, Zenon DEF OneTaker
<1>8. CASE Rq!ScanRemove
  <2>1. /\ scan'.todo = table \intersect expired /\ table' = table \ expired
        /\ scan.todo = {} /\ UNCHANGED <<caller, future, told, reply>>
    BY <1>0, <1>8, Zenon DEF Rq!ScanRemove
  <2>2. ASSUME NEW q \in Rq!Req PROVE Taker(q)'
    <3>1. Taker(q)
      BY Zenon DEF OneTaker
    <3> QED BY <2>1, <3>1, Zenon DEF Taker, Untouched, Unanswered
  <2> QED BY <2>2, Zenon DEF OneTaker
<1>9. ASSUME NEW r \in Rq!Req, Rq!ScanCall(r) PROVE OneTaker'
  <2>1. \A q \in Rq!Req : q # r => Same(q)
    BY <1>0, <1>9, Zenon DEF Rq!ScanCall, Rq!Execute, Same
  <2>2. /\ scan'.todo = scan.todo \ {r} /\ r \in scan.todo /\ UNCHANGED <<caller, reply, table>>
    BY <1>0, <1>9, Zenon DEF Rq!ScanCall
  <2>3. Taker(r)
    BY Zenon DEF OneTaker
  <2>4. Taker(r)'
    BY <2>2, <2>3, Zenon DEF Taker, Untouched, Unanswered
  <2> QED BY <1>s, <2>1, <2>4, Zenon DEF OneTaker
<1>10. CASE UNCHANGED <<caller, future, told, reply, table>> /\ scan'.todo = scan.todo
  BY <1>s, <1>10, Zenon DEF OneTaker, Same
<1>11. ASSUME NEW p \in Producer, Rq!StartProducer(p) \/ Rq!StopProducer(p) PROVE OneTaker'
  BY <1>0, <1>10, <1>11, Zenon DEF Rq!StartProducer, Rq!StopProducer
<1> QED BY <1>1, <1>2, <1>3, <1>4, <1>5, <1>6, <1>7, <1>8, <1>9, <1>10, <1>11, Zenon
        DEF Rq!Next, Rq!CallerStep, Rq!ReplyStep, Rq!Expire, Rq!vars

(* What a callback is told stays true.  Only a failed send, the reply, the *)
(* scan and the callback itself touch a future.                            *)
LEMMA StoryStep ==
    ASSUME Rq!RequestAssumption, Futures, OneTaker, Stories, [Rq!Next]_Rq!vars
    PROVE  Stories'
<1>0. /\ future \in [Rq!Req -> Fut] /\ told \in [Rq!Req -> Seq({"success", "exception"})]
      /\ reply \in [Rq!Req -> [pc : {"none", "put", "call"}, count : Nat]]
      /\ scan \in [on : BOOLEAN, count : Int, todo : SUBSET Rq!Req] /\ Async \subseteq Rq!Req
  BY Zenon DEF Futures, Rq!Req
<1>s. ASSUME NEW q \in Async,
             \A x \in {"resp", "cause", "ok", "fired"} : future'[q][x] = future[q][x],
             told'[q] = told[q]
      PROVE  Story(q)'
  <2>1. Story(q)
    BY Zenon DEF Stories
  <2>2. /\ future'[q].resp = future[q].resp /\ future'[q].cause = future[q].cause
        /\ future'[q].ok = future[q].ok /\ future'[q].fired = future[q].fired
    BY <1>s, Zenon
  <2> QED BY <1>s, <2>1, <2>2, Zenon DEF Story
<1>1. ASSUME NEW r \in Rq!Req, Rq!Sent(r) PROVE Stories'
  <2>1. \A q \in Async : q # r => future'[q] = future[q]
    BY <1>0, <1>1, Zenon DEF Rq!Sent
  <2>2. told' = told
    BY <1>1, Zenon DEF Rq!Sent
  <2>3. ASSUME r \in Async PROVE Story(r)'
    <3>1. Story(r) /\ future[r] \in Fut
      BY <1>0, <2>3, Zenon DEF Stories
    <3>2. \/ future'[r] = future[r]
          \/ future'[r] = [future[r] EXCEPT !.ok = FALSE, !.cause = TRUE, !.responded = TRUE,
                                            !.notified = TRUE]
      BY <1>0, <1>1, Zenon DEF Rq!Sent, Rq!Notified, Fut
    <3> QED BY <2>2, <3>1, <3>2, Zenon DEF Story, Fut
  <2> QED BY <1>s, <2>1, <2>2, <2>3, Zenon DEF Stories
<1>2. ASSUME NEW r \in Rq!Req, Rq!WaitCheck(r) PROVE Stories'
  <2>1. \A q \in Async : /\ told'[q] = told[q]
                         /\ \A x \in {"resp", "cause", "ok",
                                "fired"} : future'[q][x] = future[q][x]
    BY <1>0, <1>2, SMTT(30) DEF Rq!WaitCheck, Fut
  <2> QED BY <1>s, <2>1, Zenon DEF Stories
<1>3. ASSUME NEW r \in Rq!Req, Rq!ReplyPut(r) PROVE Stories'
  <2>1. \A q \in Async : q # r => future'[q] = future[q]
    BY <1>0, <1>3, Zenon DEF Rq!ReplyPut
  <2>2. told' = told
    BY <1>3, Zenon DEF Rq!ReplyPut
  <2>3. ASSUME r \in Async PROVE Story(r)'
    <3>1. Story(r) /\ future[r] \in Fut /\ told[r] = <<>>
      BY <1>0, <1>3, <2>3, Zenon DEF Stories, Rq!ReplyPut, OneTaker, Taker, Unanswered
    <3>2. future'[r] = [future[r] EXCEPT !.resp = TRUE, !.responded = TRUE, !.notified = TRUE]
      BY <1>0, <1>3, Zenon DEF Rq!ReplyPut, Rq!Notified, Fut
    <3> QED BY <2>2, <3>1, <3>2 DEF Story, Fut
  <2> QED BY <1>s, <2>1, <2>2, <2>3, Zenon DEF Stories
<1>4. ASSUME NEW r \in Rq!Req, NEW f \in Fut, Rq!Execute(r, f), told[r] = <<>>, ~f.fired,
             f.resp \/ f.cause, f.cause => ~f.resp \/ ~f.ok
      PROVE  Stories'
  <2>1. \A q \in Async : q # r => future'[q] = future[q] /\ told'[q] = told[q]
    BY <1>0, <1>4, Zenon DEF Rq!Execute
  <2>2. ASSUME r \in Async PROVE Story(r)'
    <3>1. future'[r] = [f EXCEPT !.fired = TRUE, !.cause = FALSE]
      BY <1>0, <1>4, <2>2, Zenon DEF Rq!Execute
    <3>2. told'[r] = <<Rq!Outcome(f)>>
      BY <1>0, <1>4, <2>2 DEF Rq!Execute
    <3>3. /\ future'[r].fired /\ future'[r].resp = f.resp /\ future'[r].ok = f.ok
      BY <1>4, <3>1, Zenon DEF Fut
    <3>4. Rq!Outcome(f) = "success" => f.resp
      BY <1>4, Zenon DEF Rq!Outcome
    <3>5. Rq!Outcome(f) = "exception" => ~f.resp \/ ~f.ok
      BY <1>4, Zenon DEF Rq!Outcome
    <3> QED BY <3>2, <3>3, <3>4, <3>5 DEF Story
  <2> QED BY <1>s, <2>1, <2>2, Zenon DEF Stories
<1>5. ASSUME NEW r \in Rq!Req, Rq!ReplyCall(r) PROVE Stories'
  <2>1. Rq!Execute(r, future[r]) /\ told[r] = <<>> /\ ~future[r].fired /\ future[r].resp
    BY <1>5, Zenon DEF Rq!ReplyCall, OneTaker, Taker
  <2>2. CASE r \in Async
    <3>1. future[r].cause => ~future[r].ok
      BY <2>1, <2>2, Zenon DEF Stories, Story
    <3> QED BY <1>0, <1>4, <2>1, <3>1, Zenon
  <2>3. CASE r \notin Async
    BY <1>0, <1>s, <2>1, <2>3, Zenon DEF Rq!Execute, Stories
  <2> QED BY <2>2, <2>3, Zenon
<1>6. ASSUME NEW r \in Rq!Req, Rq!ScanCall(r) PROVE Stories'
  <2> DEFINE f == [future[r] EXCEPT !.cause = TRUE]
  <2>1. f \in Fut /\ f.cause /\ f.resp = future[r].resp /\ f.fired = future[r].fired
    <3>1. future[r] \in Fut
      BY <1>0, Zenon
    <3> QED BY <3>1, Zenon DEF Fut
  <2>2. Rq!Execute(r, f) /\ told[r] = <<>> /\ ~future[r].fired /\ ~future[r].resp
    BY <1>6, Zenon DEF Rq!ScanCall, OneTaker, Taker, Unanswered
  <2> QED BY <1>4, <2>1, <2>2, Zenon
<1>7. CASE UNCHANGED <<future, told>>
  BY <1>s, <1>7, Zenon DEF Stories
<1> QED BY <1>1, <1>2, <1>3, <1>5, <1>6, <1>7, Zenon
        DEF Rq!Next, Rq!CallerStep, Rq!ReplyStep, Rq!Request, Rq!Cancel, Rq!WaitWoken,
            Rq!WaitTimeout, Rq!Cleanup,
            Rq!ReplyTakes, Rq!Expire, Rq!ScanRemove, Rq!StartProducer, Rq!StopProducer, Rq!vars

(* A caller that waits holds a ticket from before it looked.               *)
LEMMA WakesStep ==
    ASSUME Rq!RequestAssumption, Futures, Rq!ReplyWakes, [Rq!Next]_Rq!vars
    PROVE  Rq!ReplyWakes'
<1>0. future \in [Rq!Req -> Fut] /\ Sync \subseteq Rq!Req /\ DOMAIN caller = Rq!Req
  BY Zenon DEF Futures, Rq!Req
<1>1. ASSUME NEW r \in Rq!Req,
                 Rq!Request(r) \/ Rq!Cancel(r) \/ Rq!WaitWoken(r) \/ Rq!WaitTimeout(r) \/ Rq!Cleanup(r)
      PROVE  Rq!ReplyWakes'
  BY <1>0, <1>1, Zenon DEF Rq!Request, Rq!Cancel, Rq!WaitWoken, Rq!WaitTimeout, Rq!Cleanup,
     Rq!ReplyWakes
<1>2. ASSUME NEW r \in Rq!Req, Rq!Sent(r) PROVE Rq!ReplyWakes'
  BY <1>0, <1>2, Zenon DEF Rq!Sent, Rq!Notified, Fut, Rq!ReplyWakes
<1>3. ASSUME NEW r \in Rq!Req, Rq!WaitCheck(r) PROVE Rq!ReplyWakes'
  BY <1>0, <1>3, Zenon DEF Rq!WaitCheck, Fut, Rq!ReplyWakes
<1>4. ASSUME NEW r \in Rq!Req, Rq!ReplyPut(r) PROVE Rq!ReplyWakes'
  BY <1>0, <1>4, Zenon DEF Rq!ReplyPut, Rq!Notified, Fut, Rq!ReplyWakes
<1>e. ASSUME NEW r \in Rq!Req, NEW f \in Fut, Rq!Execute(r, f),
             f.resp = future[r].resp, f.notified = future[r].notified
      PROVE  \A q \in Rq!Req : /\ future'[q].resp = future[q].resp
                               /\ future'[q].notified = future[q].notified
  <2>1. \A q \in Rq!Req : q # r => future'[q] = future[q]
    BY <1>0, <1>e, Zenon DEF Rq!Execute
  <2>2. future'[r] = f \/ future'[r] = [f EXCEPT !.fired = TRUE, !.cause = FALSE]
    BY <1>0, <1>e, Zenon DEF Rq!Execute
  <2>3. LET g == [f EXCEPT !.fired = TRUE, !.cause = FALSE]
        IN  g.resp = f.resp /\ g.notified = f.notified
    BY Zenon DEF Fut
  <2> QED BY <1>e, <2>1, <2>2, <2>3, Zenon
<1>5. ASSUME NEW r \in Rq!Req, Rq!ReplyCall(r) PROVE Rq!ReplyWakes'
  <2>1. future[r] \in Fut /\ Rq!Execute(r, future[r])
    BY <1>0, <1>5, Zenon DEF Rq!ReplyCall
  <2> QED BY <1>0, <1>5, <1>e, <2>1, Zenon DEF Rq!ReplyCall, Rq!ReplyWakes
<1>6. ASSUME NEW r \in Rq!Req, Rq!ScanCall(r) PROVE Rq!ReplyWakes'
  <2> DEFINE f == [future[r] EXCEPT !.cause = TRUE]
  <2>1. future[r] \in Fut /\ Rq!Execute(r, f)
    BY <1>0, <1>6, Zenon DEF Rq!ScanCall
  <2>2. f \in Fut /\ f.resp = future[r].resp /\ f.notified = future[r].notified
    BY <2>1, Zenon DEF Fut
  <2> HIDE DEF f
  <2> QED BY <1>0, <1>6, <1>e, <2>1, <2>2, Zenon DEF Rq!ScanCall, Rq!ReplyWakes
<1>7. CASE UNCHANGED <<caller, future>>
  BY <1>7, Zenon DEF Rq!ReplyWakes
<1> QED BY <1>1, <1>2, <1>3, <1>4, <1>5, <1>6, <1>7, ZenonT(40)
        DEF Rq!Next, Rq!CallerStep, Rq!ReplyStep, Rq!ReplyTakes, Rq!Expire, Rq!ScanRemove,
            Rq!StartProducer,
            Rq!StopProducer, Rq!vars

(* No request was made, so nothing was told.                               *)
LEMMA RequestsInitially ==
    ASSUME Rq!RequestAssumption, Rq!Init
    PROVE  Futures /\ OneTaker /\ Stories /\ Rq!ReplyWakes
<1>1. Async \subseteq Rq!Req /\ Sync \subseteq Rq!Req /\ Rq!NoFuture \in Fut
  BY Zenon DEF Rq!Req, Rq!NoFuture, Fut
<1>2. Futures
  BY <1>1 DEF Rq!Init, Futures
<1>3. OneTaker
  BY Zenon DEF Rq!Init, OneTaker, Taker, Untouched, Unanswered, Rq!NoFuture
<1>4. Stories /\ Rq!ReplyWakes
  BY <1>1, Zenon DEF Rq!Init, Stories, Story, Rq!ReplyWakes, Rq!NoFuture
<1> QED BY <1>2, <1>3, <1>4, Zenon

(* put_response, scan_expired_requests: a callback hears of a timeout only *)
(* if no reply arrived, and of success only with one.                      *)
THEOREM CallbackTold == ASSUME Rq!RequestAssumption PROVE Rq!Spec => []Rq!AnswerAgrees
<1>1. Rq!Init => Futures /\ OneTaker /\ Stories
  BY RequestsInitially, Zenon
<1>2. Futures /\ OneTaker /\ Stories /\ [Rq!Next]_Rq!vars => Futures' /\ OneTaker' /\ Stories'
  BY FuturesStep, TakerStep, StoryStep, Zenon
<1>3. Stories => Rq!AnswerAgrees
  BY Zenon DEF Stories, Story, Rq!AnswerAgrees
<1> QED BY <1>1, <1>2, <1>3, PTL DEF Rq!Spec

(* wait_response_message: no caller sleeps beside its reply.               *)
THEOREM CallerWoken == ASSUME Rq!RequestAssumption PROVE Rq!Spec => []Rq!ReplyWakes
<1>1. Rq!Init => Futures /\ Rq!ReplyWakes
  BY RequestsInitially, Zenon
<1>2. Futures /\ Rq!ReplyWakes /\ [Rq!Next]_Rq!vars => Futures' /\ Rq!ReplyWakes'
  BY FuturesStep, WakesStep, Zenon
<1> QED BY <1>1, <1>2, PTL DEF Rq!Spec

(* What a callback was told is never followed by a second call.            *)
NotToldAgain == \A r \in Rq!Req : told[r] # <<>> => told'[r] = told[r]

(* execute_request_callback: a late reply, a second one or the scan does   *)
(* not call a callback that was called.                                    *)
THEOREM CallbackNotRepeated == ASSUME Rq!RequestAssumption PROVE Rq!Spec
    => [][NotToldAgain]_Rq!vars
<1>1. Rq!Init => Futures /\ OneTaker
  BY RequestsInitially, Zenon
<1>2. Futures /\ OneTaker /\ [Rq!Next]_Rq!vars => Futures' /\ OneTaker'
  BY FuturesStep, TakerStep, Zenon
<1>3. Futures /\ OneTaker /\ [Rq!Next]_Rq!vars => [NotToldAgain]_Rq!vars
  <2> SUFFICES ASSUME Futures, OneTaker, Rq!Next PROVE NotToldAgain
    BY Zenon
  <2>1. ASSUME NEW r \in Rq!Req, Rq!ReplyCall(r) PROVE NotToldAgain
    <3>1. told[r] = <<>> /\ \A q \in Rq!Req : q # r => told'[q] = told[q]
      BY <2>1, Zenon DEF Futures, OneTaker, Taker, Rq!ReplyCall, Rq!Execute
    <3> QED BY <3>1, Zenon DEF NotToldAgain
  <2>2. ASSUME NEW r \in Rq!Req, Rq!ScanCall(r) PROVE NotToldAgain
    <3>1. told[r] = <<>> /\ \A q \in Rq!Req : q # r => told'[q] = told[q]
      BY <2>2, Zenon DEF Futures, OneTaker, Taker, Unanswered, Rq!ScanCall, Rq!Execute
    <3> QED BY <3>1, Zenon DEF NotToldAgain
  <2>3. CASE told' = told
    BY <2>3, Zenon DEF NotToldAgain
  <2> QED BY <2>1, <2>2, <2>3, Zenon
          DEF Rq!Next, Rq!CallerStep, Rq!ReplyStep, Rq!Request, Rq!Cancel, Rq!Sent, Rq!WaitCheck,
              Rq!WaitWoken, Rq!WaitTimeout,
              Rq!Cleanup, Rq!ReplyTakes, Rq!ReplyPut, Rq!Expire, Rq!ScanRemove, Rq!StartProducer,
                  Rq!StopProducer
<1> QED BY <1>1, <1>2, <1>3, PTL DEF Rq!Spec

-----------------------------------------------------------------------------
(* A synchronous send and its retries, for any calls, brokers, routes and  *)
(* timeouts.                                                               *)

Pc == {"idle", "select", "reachable", "any", "begin", "lookup", "sent", "end", "ok", "failed"}
Choice == Broker \cup {NoBroker}
Local == [pc : Pc, attempt : 0..Times, last : Choice, chosen : Choice, result : BOOLEAN,
          timeout : Int, spent : Nat, waited : Nat]

(* Some route has nothing but b.                                           *)
OnlyOn(b) == \E l \in Lists : \A i \in 1 .. Len(l) : l[i] = b

(* What holds of a call: its timeout is what the brokers may still take,   *)
(* and it looks at every broker only when a route had no other.            *)
Fits(x) ==
    /\ x \in Local
    /\ x.pc \in {"reachable", "any", "begin", "lookup", "sent"} => x.attempt < Times
    /\ x.pc \in {"begin", "lookup", "sent"} => x.chosen \in Broker
    /\ x.waited <= x.spent /\ x.waited <= Budget
    /\ x.pc \in {"lookup", "sent"} => x.waited + x.timeout <= Budget
    /\ ~Latency => x.pc # "reachable" /\ (x.pc = "any" => OnlyOn(x.last))

(* A step of a call from x to y.                                           *)
Moves(x, y) ==
    /\ Fits(y)
    /\ x.chosen = NoBroker /\ y.chosen # NoBroker /\ ~Latency
         => y.chosen # x.last \/ OnlyOn(x.last)
    /\ x.result /\ y.pc \in {"ok", "failed"} /\ x.pc # y.pc /\ "other" \notin Outcomes
         => y.pc = "ok"

Tables ==
    /\ queues \in [list : Lists, index : 0 .. Cycle - 1, routes : Nat]
    /\ DOMAIN fault \subseteq Broker
    /\ probe \in [todo : SUBSET Broker, cur : Choice]

RetryInv == send \in [Call -> Local] /\ (\A c \in Call : Fits(send[c])) /\ Tables

-----------------------------------------------------------------------------
(* A set of numbers that is not empty has a smallest.                      *)
LEMMA Smallest ==
    ASSUME NEW S \in SUBSET Nat, S # {}
    PROVE  Re!Min(S) \in S
<1>1. PICK x \in S : \A y \in S : ~(<<y, x>> \in OpToRel(<, Nat))
  BY NatLessThanWellFounded, WFMin, Zenon
<1>2. \A y \in S : ~(y < x)
  BY <1>1 DEF OpToRel
<1>3. \E z \in S : \A y \in S : z =< y
  BY <1>2
<1> QED BY <1>3, Zenon DEF Re!Min

(* The smaller of two numbers.                                             *)
LEMMA MinOfTwo ==
    ASSUME NEW a \in Int, NEW b \in Int
    PROVE  Re!Min({a, b}) \in {a, b} /\ Re!Min({a, b}) <= a
<1>1. \E x \in {a, b} : \A y \in {a, b} : x =< y
  <2>1. CASE a =< b
    BY <2>1
  <2>2. CASE b =< a
    BY <2>2
  <2> QED BY <2>1, <2>2
<1> QED BY <1>1 DEF Re!Min

(* Division with remainder.                                                *)
LEMMA Remainder ==
    ASSUME NEW n \in Nat, NEW m \in Nat, m > 0
    PROVE  n % m \in 0 .. m - 1 /\ n \div m \in Nat /\ n = m * (n \div m) + (n % m)
BY Z3

(* The remainder of a multiple and a rest is the rest.                     *)
LEMMA RemainderIs ==
    ASSUME NEW m \in Nat, m > 0, NEW q \in Nat, NEW r \in 0 .. m - 1
    PROVE  (m * q + r) % m = r
BY Z3

(* One turn of the ring passes every place.                                *)
LEMMA RingCovered ==
    ASSUME NEW n \in Nat, n > 0, NEW index \in Nat, NEW i \in 0 .. n - 1
    PROVE  \E k \in 0 .. n - 1 : (index + k) % n = i
<1> DEFINE q == index \div n
           a == index % n
<1>1. a \in 0 .. n - 1 /\ q \in Nat /\ index = n * q + a
  BY Remainder, Zenon
<1> HIDE DEF q, a
<1>2. CASE a <= i
  <2>1. i - a \in 0 .. n - 1 /\ index + (i - a) = n * q + i
    BY <1>1, <1>2
  <2>2. (n * q + i) % n = i
    BY <1>1, RemainderIs, Zenon
  <2> QED BY <2>1, <2>2, Zenon
<1>3. CASE i < a
  <2>1. i - a + n \in 0 .. n - 1 /\ n * (q + 1) = n * q + n /\ q + 1 \in Nat
    BY <1>1, <1>3
  <2>2. index + (i - a + n) = n * (q + 1) + i
    BY <1>1, <2>1
  <2>3. (n * (q + 1) + i) % n = i
    BY <2>1, RemainderIs, Zenon
  <2> QED BY <2>1, <2>2, <2>3, Zenon
<1> QED BY <1>1, <1>2, <1>3, SMTT(30)

-----------------------------------------------------------------------------
(* select_one_message_queue goes once round the ring: it finds a broker it *)
(* accepts, or the list has none.                                          *)
LEMMA Selects ==
    ASSUME Re!SendAssumption, Tables, NEW c \in Call, NEW accepted,
           NEW index \in Nat, NEW otherwise,
           Re!N # 0, Re!Select(c, accepted, index, otherwise)
    PROVE  /\ queues' \in [list : Lists, index : 0 .. Cycle - 1, routes : Nat]
           /\ \/ /\ Re!Becomes(c, [send[c] EXCEPT !.pc = otherwise])
                 /\ \A i \in 1 .. Len(queues.list) : queues.list[i] \notin accepted
              \/ \E b \in accepted : Re!Becomes(c, [send[c] EXCEPT !.pc = "begin", !.chosen = b])
<1> DEFINE found == {k \in Re!Turn : Re!At(k, index) \in accepted}
<1>1. Re!N \in Nat /\ Re!N > 0 /\ Cycle \in Nat /\ Cycle > 0 /\ Re!N = Len(queues.list)
  BY DEF Re!SendAssumption, Tables, Re!N
<1>q. \A j \in Nat : [queues EXCEPT !.index = j % Cycle]
                        \in [list : Lists, index : 0 .. Cycle - 1, routes : Nat]
  <2> SUFFICES ASSUME NEW j \in Nat
               PROVE  [queues EXCEPT !.index = j % Cycle]
                        \in [list : Lists, index : 0 .. Cycle - 1, routes : Nat]
    OBVIOUS
  <2>1. j % Cycle \in 0 .. Cycle - 1
    BY <1>1, Remainder, Zenon
  <2> QED BY <2>1 DEF Tables
<1>2. CASE found = {}
  <2>1. /\ Re!Becomes(c, [send[c] EXCEPT !.pc = otherwise])
        /\ queues' = [queues EXCEPT !.index = (index + Re!N) % Cycle]
    BY <1>2, Zenon DEF Re!Select
  <2>2. index + Re!N \in Nat
    BY <1>1
  <2>3. ASSUME NEW i \in 1 .. Len(queues.list) PROVE queues.list[i] \notin accepted
    <3>1. i - 1 \in 0 .. Re!N - 1 /\ i = (i - 1) + 1
      BY <1>1, <2>3
    <3>2. PICK k \in 0 .. Re!N - 1 : (index + k) % Re!N = i - 1
      BY <1>1, <3>1, RingCovered, Zenon
    <3>3. Re!At(k, index) = queues.list[i]
      BY <3>1, <3>2, Zenon DEF Re!At
    <3> QED BY <1>2, <3>2, <3>3, Zenon DEF Re!Turn
  <2> QED BY <1>q, <2>1, <2>2, <2>3, Zenon
<1>3. CASE found # {}
  <2>1. /\ Re!Becomes(c, [send[c] EXCEPT !.pc = "begin", !.chosen = Re!At(Re!Min(found), index)])
        /\ queues' = [queues EXCEPT !.index = (index + Re!Min(found) + 1) % Cycle]
    BY <1>3, Zenon DEF Re!Select
  <2>2. found \in SUBSET Nat
    BY <1>1 DEF Re!Turn
  <2>3. Re!Min(found) \in found
    BY <1>3, <2>2, Smallest, Zenon
  <2>4. Re!Min(found) \in Nat /\ Re!At(Re!Min(found), index) \in accepted
    BY <2>2, <2>3, Zenon
  <2>5. index + Re!Min(found) + 1 \in Nat
    BY <2>4
  <2> QED BY <1>q, <2>1, <2>4, <2>5, Zenon
<1> QED BY <1>2, <1>3, Zenon

(* update_fault_item keeps the table one of brokers.                       *)
LEMMA FaultKept ==
    ASSUME DOMAIN fault \subseteq Broker, NEW b \in Broker, NEW t, NEW isolation, NEW reachable,
           Re!UpdateFault(b, t, isolation, reachable)
    PROVE  DOMAIN fault' \subseteq Broker
<1>1. DOMAIN fault' = DOMAIN fault \/ DOMAIN fault' = DOMAIN fault \cup {b}
  BY Zenon DEF Re!UpdateFault
<1> QED BY <1>1, Zenon

(* Over, field by field.                                                   *)
LEMMA OverFields ==
    ASSUME NEW x \in Local, NEW t, NEW pc, NEW y,
           y = [x EXCEPT !.spent = @ + t, !.waited = @ + t, !.pc = pc, !.chosen = NoBroker,
                         !.timeout = 0, !.attempt = IF pc = "select" THEN @ + 1 ELSE @]
    PROVE  y = [pc |-> pc, attempt |-> IF pc = "select" THEN x.attempt + 1 ELSE x.attempt,
                last |-> x.last, chosen |-> NoBroker, result |-> x.result, timeout |-> 0,
                spent |-> x.spent + t, waited |-> x.waited + t]
BY Zenon DEF Local

(* NotStored with another broker to try, field by field.                   *)
LEMMA NotStoredFields ==
    ASSUME NEW x \in Local, NEW t, NEW y,
           y = [x EXCEPT !.spent = @ + t, !.waited = @ + t, !.pc = "select", !.attempt = @ + 1,
                         !.result = TRUE, !.chosen = NoBroker, !.timeout = 0]
    PROVE  y = [pc |-> "select", attempt |-> x.attempt + 1, last |-> x.last, chosen |-> NoBroker,
                result |-> TRUE, timeout |-> 0, spent |-> x.spent + t, waited |-> x.waited + t]
BY Zenon DEF Local

(* x after an attempt that took t and ends at pc, with what it has stored. *)
Ended(x, t, pc, r) ==
    [pc |-> pc, attempt |-> IF pc = "select" THEN x.attempt + 1 ELSE x.attempt,
     last |-> x.last, chosen |-> NoBroker, result |-> r, timeout |-> 0,
     spent |-> x.spent + t, waited |-> x.waited + t]

(* An attempt takes no more than its timeout, so the end of it fits.       *)
LEMMA OverIs ==
    ASSUME Re!SendAssumption, NEW x, Fits(x), x.pc = "sent",
           NEW t \in 0 .. x.timeout, NEW pc \in {"select", "ok", "failed"}, NEW r \in BOOLEAN
    PROVE  /\ Fits(Ended(x, t, pc, r)) /\ Ended(x, t, pc, r).pc = pc
           /\ Ended(x, t, pc, r).chosen = NoBroker
<1> DEFINE y == Ended(x, t, pc, r)
<1>4. /\ x.attempt \in 0 .. Times /\ x.attempt < Times /\ x.last \in Choice
      /\ x.timeout \in Int /\ x.spent \in Nat /\ x.waited \in Nat
      /\ x.waited <= x.spent /\ x.waited + x.timeout <= Budget
  BY DEF Fits, Local
<1>3. y = [pc |-> pc, attempt |-> IF pc = "select" THEN x.attempt + 1 ELSE x.attempt,
           last |-> x.last, chosen |-> NoBroker, result |-> r, timeout |-> 0,
           spent |-> x.spent + t, waited |-> x.waited + t]
  BY Zenon DEF Ended
<1> HIDE DEF y
<1>5. /\ t \in Nat /\ t <= x.timeout /\ Times \in Nat /\ Budget \in Nat
      /\ pc \in Pc /\ NoBroker \in Choice
  BY <1>4 DEF Pc, Choice, Re!SendAssumption
<1>6. /\ x.attempt + 1 \in 0 .. Times /\ x.spent + t \in Nat /\ x.waited + t \in Nat
      /\ x.waited + t <= x.spent + t /\ x.waited + t <= Budget
  BY <1>4, <1>5
<1>7. /\ y.pc = pc /\ y.chosen = NoBroker /\ y.result = r
      /\ y.spent = x.spent + t /\ y.waited = x.waited + t
  BY <1>3
<1>8. y \in Local
  BY <1>3, <1>4, <1>5, <1>6, SMTT(30) DEF Local
<1>9. Fits(y)
  BY <1>6, <1>7, <1>8, Zenon DEF Fits
<1> QED BY <1>7, <1>9, Zenon DEF y

-----------------------------------------------------------------------------
(* What a call does next, with the tables it leaves.                       *)
LEMMA CallMoves ==
    ASSUME Re!SendAssumption, RetryInv, NEW c \in Call, Re!Start(c) \/ Re!CallStep(c)
    PROVE  Tables' /\ \E y : Re!Becomes(c, y) /\ Moves(send[c], y)
<1> DEFINE x == send[c]
<1>0. /\ x \in Local /\ Fits(x) /\ Tables /\ Times \in Nat /\ Budget \in Nat
      /\ NoBroker \notin Broker
      /\ Broker \subseteq Choice /\ NoBroker \in Choice
  BY Zenon DEF RetryInv, Re!SendAssumption, Choice
<1>f. /\ x.pc \in Pc /\ x.attempt \in 0 .. Times /\ x.last \in Choice /\ x.chosen \in Choice
      /\ x.result \in BOOLEAN /\ x.timeout \in Int /\ x.spent \in Nat /\ x.waited \in Nat
  BY <1>0 DEF Local
<1>q. queues.list \in Lists /\ queues.list \in Seq(Broker) /\ queues.index \in Nat
  BY DEF RetryInv, Tables, Re!SendAssumption
<1>1. ASSUME NEW pc \in Pc, Re!Becomes(c, [x EXCEPT !.pc = pc]),
             pc \notin {"begin", "lookup", "sent"},
             pc \in {"reachable", "any"} => x.attempt < Times,
             ~Latency => pc # "reachable" /\ (pc = "any" => OnlyOn(x.last)),
             pc = "failed" => ~x.result
      PROVE  \E y : Re!Becomes(c, y) /\ Moves(x, y)
  <2>p. PICK y : y = [x EXCEPT !.pc = pc]
    OBVIOUS
  <2>1. /\ y \in Local /\ y.pc = pc /\ y.attempt = x.attempt /\ y.last = x.last
        /\ y.chosen = x.chosen /\ y.spent = x.spent /\ y.waited = x.waited
    <3>1. y = [pc |-> pc, attempt |-> x.attempt, last |-> x.last, chosen |-> x.chosen,
               result |-> x.result, timeout |-> x.timeout, spent |-> x.spent, waited |-> x.waited]
      <4> HIDE DEF x
      <4> QED BY <1>0, <2>p, Zenon DEF Local
    <3>2. y \in Local
      BY <1>f, <3>1 DEF Local
    <3> QED BY <3>1, <3>2
  <2>2. Re!Becomes(c, y)
    BY <1>1, <2>p, Zenon
  <2>3. Fits(y)
    BY <1>0, <1>1, <2>1, Zenon DEF Fits
  <2>4. Moves(x, y)
    BY <1>1, <2>1, <2>3, Zenon DEF Moves
  <2> QED BY <2>2, <2>4, Zenon
<1>2. ASSUME NEW b \in Broker, Re!Becomes(c, [x EXCEPT !.pc = "begin", !.chosen = b]),
             x.attempt < Times, ~Latency => b # x.last \/ OnlyOn(x.last)
      PROVE  \E y : Re!Becomes(c, y) /\ Moves(x, y)
  <2>p. PICK y : y = [x EXCEPT !.pc = "begin", !.chosen = b]
    OBVIOUS
  <2>0. "begin" \in Pc /\ b \in Choice
    BY <1>0, Zenon DEF Pc
  <2>1. /\ y \in Local /\ y.pc = "begin" /\ y.attempt = x.attempt /\ y.last = x.last
        /\ y.chosen = b /\ y.spent = x.spent /\ y.waited = x.waited
    <3>1. y = [pc |-> "begin", attempt |-> x.attempt, last |-> x.last, chosen |-> b,
               result |-> x.result, timeout |-> x.timeout, spent |-> x.spent, waited |-> x.waited]
      <4> HIDE DEF x
      <4> QED BY <1>0, <2>p, Zenon DEF Local
    <3>2. y \in Local
      BY <1>f, <2>0, <3>1 DEF Local
    <3> QED BY <3>1, <3>2, SMTT(30)
  <2>2. Re!Becomes(c, y)
    BY <1>2, <2>p, Zenon
  <2>3. Fits(y)
    BY <1>0, <1>2, <2>1, Zenon DEF Fits
  <2>4. Moves(x, y)
    BY <1>2, <2>1, <2>3, Zenon DEF Moves
  <2> QED BY <2>2, <2>4, Zenon
<1>3. ASSUME Re!NoQueue(c), x.attempt < Times PROVE \E y : Re!Becomes(c, y) /\ Moves(x, y)
  <2>1. PICK y : Re!Becomes(c, y) /\ y = [x EXCEPT !.attempt = @ + 1, !.pc = "select"]
    BY <1>3, Zenon DEF Re!NoQueue
  <2>2. y = [pc |-> "select", attempt |-> x.attempt + 1, last |-> x.last, chosen |-> x.chosen,
             result |-> x.result, timeout |-> x.timeout, spent |-> x.spent, waited |-> x.waited]
    <3> HIDE DEF x
    <3> QED BY <1>0, <2>1, Zenon DEF Local
  <2>3. x.attempt + 1 \in 0 .. Times /\ "select" \in Pc
    BY <1>0, <1>f, <1>3, SMTT(30) DEF Pc
  <2>4. y \in Local
    BY <1>f, <2>2, <2>3, SMTT(30) DEF Local
  <2>5. y.pc = "select" /\ y.chosen = x.chosen /\ y.spent = x.spent /\ y.waited = x.waited
    BY <2>2
  <2>6. Fits(y)
    BY <1>0, <2>4, <2>5, Zenon DEF Fits
  <2>7. Moves(x, y)
    BY <2>5, <2>6, Zenon DEF Moves
  <2> QED BY <2>1, <2>7, Zenon
<1>4. ASSUME UNCHANGED <<queues, fault, probe>> PROVE Tables'
  BY <1>0, <1>4, Zenon DEF Tables
<1>5. ASSUME NEW accepted \in SUBSET Broker, NEW index \in Nat,
             NEW otherwise \in {"reachable", "any"},
             Re!Select(c, accepted, index, otherwise), Re!N # 0, UNCHANGED <<fault, probe>>,
             x.attempt < Times,
             ~Latency => /\ otherwise = "any"
                         /\ accepted = Broker \ {x.last} \/ OnlyOn(x.last)
      PROVE  Tables' /\ \E y : Re!Becomes(c, y) /\ Moves(x, y)
  <2>1. /\ queues' \in [list : Lists, index : 0 .. Cycle - 1, routes : Nat]
        /\ \/ /\ Re!Becomes(c, [send[c] EXCEPT !.pc = otherwise])
              /\ \A i \in 1 .. Len(queues.list) : queues.list[i] \notin accepted
           \/ \E b \in accepted : Re!Becomes(c, [send[c] EXCEPT !.pc = "begin", !.chosen = b])
    BY <1>0, <1>5, Selects, Zenon
  <2>2. Tables'
    BY <1>0, <1>5, <2>1, Zenon DEF Tables
  <2>3. CASE \E b \in accepted : Re!Becomes(c, [x EXCEPT !.pc = "begin", !.chosen = b])
    BY <1>2, <1>5, <2>2, <2>3, Zenon
  <2>4. CASE /\ Re!Becomes(c, [x EXCEPT !.pc = otherwise])
             /\ \A i \in 1 .. Len(queues.list) : queues.list[i] \notin accepted
    <3>1. ~Latency => OnlyOn(x.last)
      <4>1. \A i \in 1 .. Len(queues.list) : queues.list[i] \in Broker
        BY <1>q
      <4>2. ~Latency /\ accepted = Broker \ {x.last}
              => \A i \in 1 .. Len(queues.list) : queues.list[i] = x.last
        BY <2>4, <4>1, Zenon
      <4> QED BY <1>5, <1>q, <4>2, ZenonT(40) DEF OnlyOn
    <3>2. otherwise \in Pc /\ otherwise \notin {"begin", "lookup", "sent", "failed"}
      BY <1>5, Zenon DEF Pc
    <3> QED BY <1>1, <1>5, <2>2, <2>4, <3>1, <3>2, ZenonT(40)
  <2> QED BY <2>1, <2>3, <2>4, Zenon
<1>6. CASE Re!Start(c)
  <2>1. /\ UNCHANGED <<queues, fault, probe>> /\ Re!Becomes(c, [x EXCEPT !.pc = "select"])
        /\ "select" \in Pc
    BY <1>6, Zenon DEF Re!Start, Pc
  <2> QED BY <1>1, <1>4, <2>1, Zenon
<1>7. CASE Re!SelectFirst(c)
  <2>1. x.pc = "select" /\ x.attempt < Times /\ UNCHANGED <<fault, probe>>
    BY <1>7, Zenon DEF Re!SelectFirst, Re!MoreAttempts
  <2>2. CASE Re!N = 0
    BY <1>3, <1>4, <1>7, <2>1, <2>2, Zenon DEF Re!SelectFirst, Re!NoQueue
  <2>3. CASE Re!N # 0 /\ Latency
    <3> DEFINE A == {b \in Re!NotLast(c) : Re!IsAvailable(b)}
               i == IF x.attempt > 0 THEN 0 ELSE queues.index
    <3>1. Re!Select(c, A, i, "reachable")
      BY <1>7, <2>3, Zenon DEF Re!SelectFirst
    <3>2. A \in SUBSET Broker /\ i \in Nat
      BY <1>q DEF Re!NotLast
    <3> HIDE DEF A, i
    <3> QED BY <1>5, <2>1, <2>3, <3>1, <3>2, Zenon
  <2>4. CASE Re!N # 0 /\ ~Latency
    <3>1. Re!Select(c, Re!NotLast(c), queues.index, "any")
      BY <1>7, <2>4, Zenon DEF Re!SelectFirst
    <3>2. Re!NotLast(c) = Broker \ {x.last} /\ Re!NotLast(c) \in SUBSET Broker
      BY Zenon DEF Re!NotLast
    <3> QED BY <1>5, <1>q, <2>1, <2>4, <3>1, <3>2, ZenonT(40)
  <2> QED BY <2>2, <2>3, <2>4, Zenon
<1>8. CASE Re!SelectReachable(c)
  <2>1. x.pc = "reachable" /\ UNCHANGED <<fault, probe>>
    BY <1>8, Zenon DEF Re!SelectReachable
  <2>2. x.attempt < Times /\ Latency
    BY <1>0, <2>1, Zenon DEF Fits
  <2>3. CASE Re!N = 0
    BY <1>3, <1>4, <1>8, <2>1, <2>2, <2>3, ZenonT(40) DEF Re!SelectReachable, Re!NoQueue
  <2>4. CASE Re!N # 0
    <3> DEFINE A == {b \in Re!NotLast(c) : Re!IsReachable(b)}
    <3>1. Re!Select(c, A, queues.index, "any") /\ A \in SUBSET Broker
      BY <1>8, <2>4, ZenonT(40) DEF Re!SelectReachable, Re!NotLast
    <3> HIDE DEF A
    <3> QED BY <1>5, <1>q, <2>1, <2>2, <2>4, <3>1, ZenonT(40)
  <2> QED BY <2>3, <2>4, Zenon
<1>9. CASE Re!SelectAny(c)
  <2>1. x.pc = "any" /\ UNCHANGED <<fault, probe>>
    BY <1>9, Zenon DEF Re!SelectAny
  <2>2. x.attempt < Times /\ (~Latency => OnlyOn(x.last))
    BY <1>0, <2>1, Zenon DEF Fits
  <2>3. CASE Re!N = 0
    BY <1>3, <1>4, <1>9, <2>1, <2>2, <2>3, Zenon DEF Re!SelectAny, Re!NoQueue
  <2>4. CASE Re!N # 0
    <3>1. Re!Select(c, Broker, queues.index, "any") /\ Broker \in SUBSET Broker
      BY <1>9, <2>4, Zenon DEF Re!SelectAny
    <3> QED BY <1>5, <1>q, <2>1, <2>2, <2>4, <3>1, ZenonT(40)
  <2> QED BY <2>3, <2>4, Zenon
<1>10. CASE Re!Begin(c)
  <2>1. x.pc = "begin" /\ UNCHANGED <<queues, fault, probe>>
    BY <1>10, Zenon DEF Re!Begin
  <2>2. x.attempt < Times /\ x.chosen \in Broker /\ x.waited <= x.spent /\ x.waited <= Budget
    BY <1>0, <2>1, Zenon DEF Fits
  <2>3. CASE Budget < x.spent
    <3>1. PICK y : Re!Becomes(c, y) /\ y = [x EXCEPT !.pc = "end", !.last = x.chosen]
      BY <1>10, <2>3, Zenon DEF Re!Begin
    <3>2. y = [pc |-> "end", attempt |-> x.attempt, last |-> x.chosen, chosen |-> x.chosen,
               result |-> x.result, timeout |-> x.timeout, spent |-> x.spent, waited |-> x.waited]
      <4> HIDE DEF x
      <4> QED BY <1>0, <3>1, ZenonT(40) DEF Local
    <3>3. y \in Local
      BY <1>f, <3>2, SMTT(30) DEF Local, Pc
    <3>4. y.pc = "end" /\ y.chosen = x.chosen /\ y.spent = x.spent /\ y.waited = x.waited
      BY <3>2
    <3>5. Fits(y)
      BY <2>2, <3>3, <3>4, Zenon DEF Fits
    <3>6. Moves(x, y)
      BY <3>4, <3>5, Zenon DEF Moves
    <3> QED BY <1>4, <2>1, <3>1, <3>6, Zenon
  <2>4. CASE ~(Budget < x.spent)
    <3> DEFINE T == Re!CurTimeout(c)
    <3>1. PICK y : /\ Re!Becomes(c, y)
                   /\ y = [x EXCEPT !.pc = "lookup", !.last = x.chosen, !.timeout = T]
      BY <1>10, <2>4, ZenonT(40) DEF Re!Begin
    <3>2. T \in Int /\ T <= Budget - x.spent
      <4>1. Budget - x.spent \in Int /\ MaxPerRequest \in Int
        BY <1>0, <1>f, SMTT(30) DEF Re!SendAssumption
      <4>2. /\ Re!Min({Budget - x.spent, MaxPerRequest}) \in {Budget - x.spent, MaxPerRequest}
            /\ Re!Min({Budget - x.spent, MaxPerRequest}) <= Budget - x.spent
        BY <4>1, MinOfTwo, Zenon
      <4>3. T \in {Budget - x.spent, Re!Min({Budget - x.spent, MaxPerRequest})}
        BY Zenon DEF Re!CurTimeout
      <4> QED BY <4>1, <4>2, <4>3, SMTT(30)
    <3> HIDE DEF T
    <3>3. y = [pc |-> "lookup", attempt |-> x.attempt, last |-> x.chosen, chosen |-> x.chosen,
               result |-> x.result, timeout |-> T, spent |-> x.spent, waited |-> x.waited]
      <4> HIDE DEF x
      <4> QED BY <1>0, <3>1, ZenonT(40) DEF Local
    <3>4. y \in Local
      BY <1>f, <3>2, <3>3, SMTT(30) DEF Local, Pc
    <3>5. /\ y.pc = "lookup" /\ y.chosen = x.chosen /\ y.spent = x.spent /\ y.waited = x.waited
          /\ y.attempt = x.attempt /\ y.timeout = T
      BY <3>3, SMTT(30)
    <3>6. x.waited + T <= Budget
      BY <1>0, <1>f, <2>2, <3>2, SMTT(30)
    <3>7. Fits(y)
      BY <2>2, <3>4, <3>5, <3>6, Zenon DEF Fits
    <3>8. Moves(x, y)
      BY <3>5, <3>7, Zenon DEF Moves
    <3> QED BY <1>4, <2>1, <3>1, <3>8, ZenonT(40)
  <2> QED BY <2>3, <2>4, Zenon
<1>11. CASE Re!Lookup(c)
  <2>1. x.pc = "lookup" /\ UNCHANGED <<queues, fault, probe>>
    BY <1>11, Zenon DEF Re!Lookup
  <2>a. PICK t \in 0 .. MaxLookup : Re!Becomes(c, [x EXCEPT !.pc = "sent", !.spent = @ + t])
    BY <1>11, Zenon DEF Re!Lookup
  <2>2. PICK y : Re!Becomes(c, y) /\ y = [x EXCEPT !.pc = "sent", !.spent = @ + t]
    BY <2>a, Zenon
  <2>3. /\ x.attempt < Times /\ x.chosen \in Broker /\ x.waited <= x.spent /\ x.waited <= Budget
        /\ x.waited + x.timeout <= Budget
    BY <1>0, <2>1, ZenonT(40) DEF Fits
  <2>4. y = [pc |-> "sent", attempt |-> x.attempt, last |-> x.last, chosen |-> x.chosen,
             result |-> x.result, timeout |-> x.timeout,
             spent |-> x.spent + t, waited |-> x.waited]
    <3> HIDE DEF x
    <3> QED BY <1>0, <2>2, ZenonT(40) DEF Local
  <2>5. x.spent + t \in Nat /\ x.waited <= x.spent + t
    <3>1. t \in Nat
      BY SMTT(30) DEF Re!SendAssumption
    <3> HIDE DEF x
    <3> QED BY <1>f, <2>3, <3>1, SMTT(30)
  <2>6. y \in Local
    BY <1>f, <2>4, <2>5, SMTT(30) DEF Local, Pc
  <2>7. /\ y.pc = "sent" /\ y.chosen = x.chosen /\ y.spent = x.spent + t /\ y.waited = x.waited
        /\ y.attempt = x.attempt /\ y.timeout = x.timeout
    BY <2>4
  <2>8. Fits(y)
    BY <2>3, <2>5, <2>6, <2>7, Zenon DEF Fits
  <2>9. Moves(x, y)
    BY <2>7, <2>8, Zenon DEF Moves
  <2> QED BY <1>4, <2>1, <2>2, <2>9, Zenon
<1>12. CASE Re!Answer(c)
  <2>1. x.pc = "sent" /\ UNCHANGED <<queues, probe>> /\ Fits(x)
    BY <1>0, <1>12, Zenon DEF Re!Answer
  <2>2. PICK t \in 0 .. x.timeout :
           \/ Re!Stored(c, t) \/ Re!NotStored(c, t) \/ Re!Refused(c, t)
           \/ Re!Unanswered(c, t) \/ Re!ClientError(c, t) \/ Re!OtherError(c, t)
    BY <1>12, Zenon DEF Re!Answer
  <2>t. t \in 0 .. x.timeout
    OBVIOUS
  <2>3. x.chosen \in Broker
    BY <2>1, Zenon DEF Fits
  <2>4. Tables'
    <3>1. \/ UNCHANGED fault
          \/ \E isolation, reachable : Re!UpdateFault(x.chosen, t, isolation, reachable)
      BY <2>2, Zenon DEF Re!Stored, Re!NotStored, Re!Refused, Re!Unanswered, Re!ClientError,
         Re!OtherError
    <3>2. DOMAIN fault' \subseteq Broker
      BY <1>0, <2>3, <3>1, FaultKept, Zenon DEF Tables
    <3> QED BY <1>0, <2>1, <3>2, Zenon DEF Tables
  <2>5. ASSUME NEW pc \in {"select", "ok", "failed"}, Re!Over(c, t, pc),
               pc = "failed" => ~x.result \/ "other" \in Outcomes
        PROVE  \E y : Re!Becomes(c, y) /\ Moves(x, y)
    <3>1. PICK y : /\ Re!Becomes(c, y)
                   /\ y = [x EXCEPT !.spent = @ + t, !.waited = @ + t, !.pc = pc,
                                    !.chosen = NoBroker, !.timeout = 0,
                                        !.attempt = IF pc = "select" THEN @ + 1 ELSE @]
      BY <2>5, Zenon DEF Re!Over
    <3>2. y = Ended(x, t, pc, x.result)
      BY <1>0, <3>1, OverFields, ZenonT(40) DEF Ended
    <3>3. Fits(y) /\ y.pc = pc /\ y.chosen = NoBroker
      <4>1. x.result \in BOOLEAN
        BY <1>f, Zenon
      <4> HIDE DEF x
      <4> QED BY <2>1, <2>t, <3>2, <4>1, OverIs, Zenon
    <3>4. Moves(x, y)
      BY <2>5, <3>3, Zenon DEF Moves
    <3> QED BY <3>1, <3>4, Zenon
  <2>6. CASE Re!NotStored(c, t) /\ SwitchBroker
    <3>1. PICK y : /\ Re!Becomes(c, y)
                   /\ y = [x EXCEPT !.spent = @ + t, !.waited = @ + t, !.pc = "select",
                                    !.attempt = @ + 1, !.result = TRUE, !.chosen = NoBroker,
                                        !.timeout = 0]
      BY <2>6, Zenon DEF Re!NotStored
    <3>2. y = [pc |-> "select", attempt |-> x.attempt + 1, last |-> x.last, chosen |-> NoBroker,
               result |-> TRUE, timeout |-> 0, spent |-> x.spent + t, waited |-> x.waited + t]
      BY <1>0, <3>1, NotStoredFields, ZenonT(40)
    <3>3. y = Ended(x, t, "select", TRUE)
      BY <3>2 DEF Ended
    <3>4. Fits(y) /\ y.pc = "select" /\ y.chosen = NoBroker
      <4> HIDE DEF x
      <4> QED BY <2>1, <2>t, <3>3, OverIs, Zenon
    <3>5. Moves(x, y)
      BY <3>4, Zenon DEF Moves
    <3> QED BY <2>4, <3>1, <3>5, Zenon
  <2>7. ~(Re!NotStored(c, t) /\ SwitchBroker) =>
           \E pc \in {"select", "ok", "failed"} :
              Re!Over(c, t, pc) /\ (pc = "failed" => ~x.result \/ "other" \in Outcomes)
    <3>1. Re!Refused(c, t) => \E pc \in {"select", "ok", "failed"} :
                              Re!Over(c, t, pc) /\ (pc = "failed" => ~x.result)
      BY Zenon DEF Re!Refused
    <3>2. Re!NotStored(c, t) /\ ~SwitchBroker => Re!Over(c, t, "ok")
      BY Zenon DEF Re!NotStored
    <3>3. Re!Stored(c, t) => Re!Over(c, t, "ok")
      BY Zenon DEF Re!Stored
    <3>4. Re!Unanswered(c, t) \/ Re!ClientError(c, t) => Re!Over(c, t, "select")
      BY Zenon DEF Re!Unanswered, Re!ClientError
    <3>5. Re!OtherError(c, t) => Re!Over(c, t, "failed") /\ "other" \in Outcomes
      BY Zenon DEF Re!OtherError
    <3> QED BY <2>2, <3>1, <3>2, <3>3, <3>4, <3>5, ZenonT(40)
  <2> QED BY <2>4, <2>5, <2>6, <2>7, Zenon
<1>13. CASE Re!End(c)
  <2> DEFINE pc == IF x.result THEN "ok" ELSE "failed"
  <2>1. /\ UNCHANGED <<queues, fault, probe>> /\ Re!Becomes(c, [x EXCEPT !.pc = pc])
        /\ pc \in Pc /\ pc \in {"ok", "failed"} /\ (pc = "failed" => ~x.result)
    BY <1>13, Zenon DEF Re!End, Pc
  <2> HIDE DEF pc
  <2> QED BY <1>1, <1>4, <2>1, Zenon
<1> QED BY <1>6, <1>7, <1>8, <1>9, <1>10, <1>11, <1>12, <1>13, ZenonT(40) DEF Re!CallStep

(* Routes, isolations and probes leave the calls alone.                    *)
LEMMA OtherSteps ==
    ASSUME Re!SendAssumption, RetryInv,
           \/ Re!RouteUpdate \/ Re!ProbeStep
           \/ \E b \in Broker : Re!Elapse(b) \/ Re!Due(b)
           \/ UNCHANGED Re!vars
    PROVE  UNCHANGED send /\ Tables'
<1>0. Tables
  BY Zenon DEF RetryInv
<1>1. CASE Re!RouteUpdate
  <2>1. PICK l \in Lists : queues' = [queues EXCEPT !.list = l, !.routes = @ + 1]
    BY <1>1, Zenon DEF Re!RouteUpdate
  <2>2. UNCHANGED <<send, fault, probe>>
    BY <1>1, Zenon DEF Re!RouteUpdate
  <2>3. queues' \in [list : Lists, index : 0 .. Cycle - 1, routes : Nat]
    <3>1. queues \in [list : Lists, index : 0 .. Cycle - 1, routes : Nat]
      BY <1>0, Zenon DEF Tables
    <3>2. queues' = [list |-> l, index |-> queues.index, routes |-> queues.routes + 1]
      BY <2>1, <3>1, Zenon
    <3> QED BY <3>1, <3>2
  <2> QED BY <1>0, <2>2, <2>3, Zenon DEF Tables
<1>2. CASE Re!ProbeRound
  <2>1. /\ probe' = [probe EXCEPT !.todo = {b \in DOMAIN fault : fault[b].due}]
        /\ UNCHANGED <<send, queues, fault>>
    BY <1>2, Zenon DEF Re!ProbeRound
  <2>2. {b \in DOMAIN fault : fault[b].due} \subseteq Broker
    BY <1>0, Zenon DEF Tables
  <2>3. probe' \in [todo : SUBSET Broker, cur : Choice]
    BY <1>0, <2>1, <2>2 DEF Tables
  <2> QED BY <1>0, <2>1, <2>3, Zenon DEF Tables
<1>3. ASSUME NEW b \in Broker, Re!ProbeNext(b) PROVE UNCHANGED send /\ Tables'
  <2>1. UNCHANGED <<send, queues>> /\ b \in probe.todo
    BY <1>3, Zenon DEF Re!ProbeNext
  <2>2. \/ probe' = [probe EXCEPT !.todo = @ \ {b}]
        \/ probe' = [todo |-> probe.todo \ {b}, cur |-> b]
    BY <1>3, Zenon DEF Re!ProbeNext
  <2>3. probe' \in [todo : SUBSET Broker, cur : Choice]
    BY <1>0, <2>2 DEF Tables, Choice
  <2>4. \/ UNCHANGED fault
        \/ fault' = [fault EXCEPT ![b].due = FALSE]
        \/ fault' = [x \in DOMAIN fault \ {b} |-> fault[x]]
    BY <1>3, Zenon DEF Re!ProbeNext
  <2>5. DOMAIN fault' \subseteq DOMAIN fault
    BY <2>4
  <2> QED BY <1>0, <2>1, <2>3, <2>5, Zenon DEF Tables
<1>4. CASE Re!Probed
  <2>1. UNCHANGED <<send, queues>> /\ probe' = [probe EXCEPT !.cur = NoBroker]
    BY <1>4, Zenon DEF Re!Probed
  <2>2. probe' \in [todo : SUBSET Broker, cur : Choice]
    BY <1>0, <2>1, SMTT(30) DEF Tables, Choice
  <2>3. UNCHANGED fault \/ fault' = [fault EXCEPT ![probe.cur].reachable = TRUE]
    BY <1>4, Zenon DEF Re!Probed
  <2>4. DOMAIN fault' = DOMAIN fault
    BY <2>3
  <2> QED BY <1>0, <2>1, <2>2, <2>4, Zenon DEF Tables
<1>5. ASSUME NEW b \in Broker, Re!Elapse(b) \/ Re!Due(b) PROVE UNCHANGED send /\ Tables'
  <2>1. UNCHANGED <<send, queues, probe>>
    BY <1>5, Zenon DEF Re!Elapse, Re!Due
  <2>2. DOMAIN fault' = DOMAIN fault
    BY <1>5 DEF Re!Elapse, Re!Due
  <2> QED BY <1>0, <2>1, <2>2, Zenon DEF Tables
<1>6. CASE UNCHANGED Re!vars
  BY <1>0, <1>6, Zenon DEF Tables, Re!vars
<1> QED BY <1>1, <1>2, <1>3, <1>4, <1>5, <1>6, ZenonT(40) DEF Re!ProbeStep

-----------------------------------------------------------------------------
(* Every step moves one call at most, and moves it well.                   *)
LEMMA RetryStep ==
    ASSUME Re!SendAssumption, RetryInv, [Re!Next]_Re!vars
    PROVE  RetryInv' /\ \A c \in Call : send'[c] = send[c] \/ Moves(send[c], send'[c])
<1>1. ASSUME NEW c \in Call, Re!Start(c) \/ Re!CallStep(c)
      PROVE  RetryInv' /\ \A d \in Call : send'[d] = send[d] \/ Moves(send[d], send'[d])
  <2>1. PICK y : Re!Becomes(c, y) /\ Moves(send[c], y)
    BY <1>1, CallMoves, Zenon
  <2>2. Tables'
    BY <1>1, CallMoves, Zenon
  <2>3. send \in [Call -> Local] /\ Fits(y) /\ y \in Local
    BY <2>1, Zenon DEF RetryInv, Moves, Fits
  <2>4. /\ send' \in [Call -> Local] /\ send'[c] = y
        /\ \A d \in Call : d # c => send'[d] = send[d]
    BY <2>1, <2>3, Zenon DEF Re!Becomes
  <2>5. \A d \in Call : Fits(send'[d])
    BY <2>3, <2>4, Zenon DEF RetryInv
  <2>6. RetryInv'
    BY <2>2, <2>4, <2>5, Zenon DEF RetryInv, Fits
  <2> QED BY <2>1, <2>4, <2>6, Zenon
<1>2. CASE \/ Re!RouteUpdate \/ Re!ProbeStep
           \/ \E b \in Broker : Re!Elapse(b) \/ Re!Due(b)
           \/ UNCHANGED Re!vars
  <2>1. UNCHANGED send /\ Tables'
    BY <1>2, OtherSteps, Zenon
  <2> QED BY <2>1, Zenon DEF RetryInv, Fits
<1> QED BY <1>1, <1>2, Zenon DEF Re!Next

(* The invariant holds before any call.                                    *)
LEMMA RetryStarts ==
    ASSUME Re!SendAssumption, Re!Init
    PROVE  RetryInv
<1>1. \A c \in Call : send[c] = Re!NoCall
  BY Zenon DEF Re!Init
<1>2. Re!NoCall \in Local /\ Re!NoCall.pc = "idle" /\ Re!NoCall.waited = 0 /\ Re!NoCall.spent = 0
  BY DEF Re!NoCall, Local, Pc, Choice, Re!SendAssumption
<1>3. Fits(Re!NoCall)
  <2>1. 0 <= Budget /\ 0 <= 0
    BY DEF Re!SendAssumption
  <2> QED BY <1>2, <2>1, Zenon DEF Fits
<1>4. send \in [Call -> Local]
  BY <1>2, Zenon DEF Re!Init
<1>5. Tables
  <2>1. queues \in [list : Lists, index : 0 .. Cycle - 1, routes : Nat]
    BY DEF Re!Init, Re!SendAssumption
  <2>2. DOMAIN fault = {}
    BY DEF Re!Init
  <2>3. probe \in [todo : SUBSET Broker, cur : Choice]
    BY DEF Re!Init, Choice
  <2> QED BY <2>1, <2>2, <2>3, Zenon DEF Tables
<1> QED BY <1>1, <1>3, <1>4, <1>5, Zenon DEF RetryInv

(* It holds in every reachable state.                                      *)
LEMMA RetryHeld == ASSUME Re!SendAssumption PROVE Re!Spec => []RetryInv
<1>1. Re!Init => RetryInv
  BY RetryStarts, Zenon
<1>2. RetryInv /\ [Re!Next]_Re!vars => RetryInv'
  BY RetryStep, Zenon
<1> QED BY <1>1, <1>2, PTL DEF Re!Spec

(* A call makes at most retry_times_when_send_failed + 1 attempts, and the *)
(* cursor, the fault table and the round of the detector keep their types. *)
THEOREM RetryTypes == ASSUME Re!SendAssumption PROVE Re!Spec => []Re!TypeOK
<1>1. ASSUME RetryInv PROVE Re!TypeOK
  <2>1. \A c \in Call : /\ send[c].pc \in Pc /\ send[c].attempt \in 0 .. Times
                        /\ send[c].last \in Broker \union {NoBroker}
    BY <1>1 DEF RetryInv, Local, Choice
  <2>2. /\ queues.list \in Lists /\ queues.index \in 0 .. Cycle - 1
        /\ DOMAIN fault \subseteq Broker /\ probe.todo \subseteq Broker
    BY <1>1 DEF RetryInv, Tables
  <2> QED BY <2>1, <2>2, Zenon DEF Re!TypeOK, Pc
<1> QED BY <1>1, RetryHeld, PTL

(* The attempts of send_with_retry together wait for brokers no longer     *)
(* than the timeout of the call, however long the lookups of addresses     *)
(* between them take.                                                      *)
THEOREM BudgetKept == ASSUME Re!SendAssumption PROVE Re!Spec => []Re!WithinBudget
<1>1. RetryInv => Re!WithinBudget
  BY Zenon DEF RetryInv, Fits, Re!WithinBudget
<1> QED BY <1>1, RetryHeld, PTL

(* Without latency faults a retry goes to another broker than the one that *)
(* just failed, unless some route has no other: whatever the calls that    *)
(* share the cursor and the updates of the route do in between.            *)
THEOREM RetriedElsewhere == ASSUME Re!SendAssumption PROVE Re!Spec => [][Re!GoesElsewhere]_Re!vars
<1>1. ASSUME RetryInv, [Re!Next]_Re!vars PROVE Re!GoesElsewhere
  BY <1>1, RetryStep, Zenon DEF Re!GoesElsewhere, Moves, OnlyOn
<1>2. RetryInv /\ [Re!Next]_Re!vars => [Re!GoesElsewhere]_Re!vars
  BY <1>1, Zenon
<1> QED BY <1>2, RetryHeld, PTL DEF Re!Spec

(* A call that was told of a store by one broker reports no failure after  *)
(* the later brokers refuse, do not answer or cannot be reached.  An error *)
(* of no tier goes straight up, so the theorem is about calls that meet    *)
(* none.                                                                   *)
THEOREM StoreReported ==
    ASSUME Re!SendAssumption, "other" \notin Outcomes
    PROVE  Re!Spec => [][Re!ReportsStore]_Re!vars
<1>1. ASSUME RetryInv, [Re!Next]_Re!vars PROVE Re!ReportsStore
  BY <1>1, RetryStep, Zenon DEF Re!ReportsStore, Moves
<1>2. RetryInv /\ [Re!Next]_Re!vars => [Re!ReportsStore]_Re!vars
  BY <1>1, Zenon
<1> QED BY <1>2, RetryHeld, PTL DEF Re!Spec
=============================================================================
