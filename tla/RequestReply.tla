---------------------------- MODULE RequestReply ----------------------------
(***************************************************************************)
(* Request and reply (client/request_reply.rs, DefaultMQProducer::request):*)
(* a table of futures by correlation id, taken out by the reply the broker *)
(* pushes, by the scan for expired requests the producers keep running, or *)
(* by the caller when it is done waiting.                                  *)
(***************************************************************************)
EXTENDS Integers, Sequences, FiniteSets

CONSTANTS
    Sync,       \* requests whose caller waits in request()
    Async,      \* requests registered with a callback
    Producer,   \* producers of the process
    Stays,      \* producers that are not shut down
    MaxReplies  \* bound on the replies to one request

RequestAssumption ==
    /\ Sync \intersect Async = {} /\ Stays \subseteq Producer /\ MaxReplies \in Nat
    /\ IsFiniteSet(Sync \union Async) /\ IsFiniteSet(Producer)

Req == Sync \union Async

VARIABLES
    caller,  \* of every request: where its caller is
    future,  \* of every request: its RequestResponseFuture
    table,   \* request_future_table
    told,    \* of every request: what its callback was called with
    expired, \* requests whose timeout has passed
    stored,  \* requests the broker has
    reply,   \* of every request: the processor of its reply, and replies so far
    scan,    \* SCAN_TASK and SCAN_PRODUCERS, and the futures a scan removed
    started  \* producers that are started

vars == <<caller, future, table, told, expired, stored, reply, scan, started>>

NoFuture == [resp |-> FALSE, cause |-> FALSE, ok |-> TRUE, responded |-> FALSE,
             fired |-> FALSE, notified |-> FALSE]

Init ==
    /\ caller = [r \in Req |-> "idle"]
    /\ future = [r \in Req |-> NoFuture]
    /\ table = {} /\ expired = {} /\ stored = {} /\ started = {}
    /\ told = [r \in Req |-> <<>>]
    /\ reply = [r \in Req |-> [pc |-> "none", count |-> 0]]
    /\ scan = [on |-> FALSE, count |-> 0, todo |-> {}]

-----------------------------------------------------------------------------
(* notify_waiters reaches whoever holds a ticket.                          *)
Notified(f) == [f EXCEPT !.notified = TRUE]

(* request: the future is in the table before the message is sent.         *)
Request(r) ==
    /\ caller[r] = "idle" /\ started # {}
    /\ table' = table \union {r}
    /\ caller' = [caller EXCEPT ![r] = "sending"]
    /\ UNCHANGED <<future, told, expired, stored, reply, scan, started>>

(* The send may have reached the broker although it failed.                *)
Sent(r) ==
    /\ caller[r] = "sending"
    /\ \/ stored' = stored \union {r} /\ UNCHANGED future
       \/ /\ stored' \in {stored, stored \union {r}}
          /\ future' = [future EXCEPT ![r] =
                Notified([@ EXCEPT !.ok = FALSE, !.cause = TRUE, !.responded = TRUE])]
    /\ caller' = [caller EXCEPT ![r] = IF r \in Sync THEN "check" ELSE "away"]
    /\ UNCHANGED <<table, told, expired, reply, scan, started>>

(* wait_response_message: a ticket first, then the look at the response.   *)
WaitCheck(r) ==
    /\ caller[r] = "check"
    /\ caller' = [caller EXCEPT ![r] = IF future[r].resp THEN "got" ELSE "wait"]
    /\ future' = [future EXCEPT ![r].notified = FALSE]
    /\ UNCHANGED <<table, told, expired, stored, reply, scan, started>>

WaitWoken(r) ==
    /\ caller[r] = "wait" /\ future[r].notified
    /\ caller' = [caller EXCEPT ![r] = "check"]
    /\ UNCHANGED <<future, table, told, expired, stored, reply, scan, started>>

(* wait_request_response: at its deadline the caller looks once more.      *)
WaitTimeout(r) ==
    /\ caller[r] = "wait"
    /\ caller' = [caller EXCEPT ![r] = IF future[r].resp THEN "got"
                                       ELSE IF future[r].ok THEN "timeout" ELSE "failed"]
    /\ UNCHANGED <<future, table, told, expired, stored, reply, scan, started>>

(* The future of request() is dropped: nothing cleans up.                  *)
Cancel(r) ==
    /\ r \in Sync /\ caller[r] \in {"sending", "check", "wait"}
    /\ caller' = [caller EXCEPT ![r] = "dropped"]
    /\ UNCHANGED <<future, table, told, expired, stored, reply, scan, started>>

Cleanup(r) ==
    /\ caller[r] \in {"got", "timeout", "failed"}
    /\ caller' = [caller EXCEPT ![r] = "done"]
    /\ table' = table \ {r}
    /\ UNCHANGED <<future, told, expired, stored, reply, scan, started>>

Outcome(f) == IF f.cause \/ ~f.ok THEN "exception" ELSE "success"

(* execute_request_callback                                                *)
Execute(r, f) ==
    IF r \in Async /\ ~f.fired
    THEN /\ future' = [future EXCEPT ![r] = [f EXCEPT !.fired = TRUE, !.cause = FALSE]]
         /\ told' = [told EXCEPT ![r] = Append(@, Outcome(f))]
    ELSE future' = [future EXCEPT ![r] = f] /\ UNCHANGED told

-----------------------------------------------------------------------------
(* Replies *)

(* put_response takes the future out of the table; a reply nobody waits    *)
(* for is dropped.                                                         *)
ReplyTakes(r) ==
    /\ r \in stored /\ reply[r].pc = "none" /\ reply[r].count < MaxReplies
    /\ reply' = [reply EXCEPT ![r] = [pc |-> IF r \in table THEN "put" ELSE "none",
                                      count |-> @.count + 1]]
    /\ table' = table \ {r}
    /\ UNCHANGED <<caller, future, told, expired, stored, scan, started>>

ReplyPut(r) ==
    /\ reply[r].pc = "put"
    /\ future' = [future EXCEPT ![r] = Notified([@ EXCEPT !.resp = TRUE, !.responded = TRUE])]
    /\ reply' = [reply EXCEPT ![r].pc = "call"]
    /\ UNCHANGED <<caller, table, told, expired, stored, scan, started>>

ReplyCall(r) ==
    /\ reply[r].pc = "call"
    /\ Execute(r, future[r])
    /\ reply' = [reply EXCEPT ![r].pc = "none"]
    /\ UNCHANGED <<caller, table, expired, stored, scan, started>>

-----------------------------------------------------------------------------
(* The scan for expired requests *)

Expire(r) ==
    /\ r \in table \ expired
    /\ expired' = expired \union {r}
    /\ UNCHANGED <<caller, future, table, told, stored, reply, scan, started>>

ScanRemove ==
    /\ scan.on /\ scan.todo = {} /\ table \intersect expired # {}
    /\ scan' = [scan EXCEPT !.todo = table \intersect expired]
    /\ table' = table \ expired
    /\ UNCHANGED <<caller, future, told, expired, stored, reply, started>>

(* set_cause_only and the callback; the task has no await in between, so   *)
(* a scan that has begun ends.                                             *)
ScanCall(r) ==
    /\ r \in scan.todo
    /\ Execute(r, [future[r] EXCEPT !.cause = TRUE])
    /\ scan' = [scan EXCEPT !.todo = @ \ {r}]
    /\ UNCHANGED <<caller, table, expired, stored, reply, started>>

(* start_scan                                                              *)
StartProducer(p) ==
    /\ p \notin started
    /\ started' = started \union {p}
    /\ scan' = [scan EXCEPT !.count = @ + 1, !.on = TRUE]
    /\ UNCHANGED <<caller, future, table, told, expired, stored, reply>>

LastStopped == scan.count <= 1

(* stop_scan                                                               *)
StopProducer(p) ==
    /\ p \in started \ Stays
    /\ started' = started \ {p}
    /\ scan' = [scan EXCEPT !.count = @ - 1, !.on = @ /\ ~LastStopped]
    /\ UNCHANGED <<caller, future, table, told, expired, stored, reply>>

-----------------------------------------------------------------------------
CallerStep(r) == Sent(r) \/ WaitCheck(r) \/ WaitWoken(r) \/ WaitTimeout(r) \/ Cleanup(r)
ReplyStep(r) == ReplyTakes(r) \/ ReplyPut(r) \/ ReplyCall(r)

Next ==
    \/ \E r \in Req : \/ Request(r) \/ Cancel(r) \/ CallerStep(r) \/ ReplyStep(r)
                    \/ Expire(r) \/ ScanCall(r)
    \/ ScanRemove
    \/ \E p \in Producer : StartProducer(p) \/ StopProducer(p)

Spec == Init /\ [][Next]_vars

-----------------------------------------------------------------------------
(* Properties *)

TypeOK ==
    /\ \A r \in Req : caller[r] \in {"idle", "sending", "check", "wait", "got", "timeout",
                                     "failed", "done", "away", "dropped"}
    /\ table \subseteq Req /\ expired \subseteq Req /\ stored \subseteq Req
    /\ \A r \in Req : Len(told[r]) <= 1
    /\ scan.count = Cardinality(started)

(* A callback hears of a timeout only if no reply arrived, and of success  *)
(* only with one: the reply and the scan take the future out of the table  *)
(* before they touch it.                                                   *)
AnswerAgrees ==
    \A r \in Async :
        /\ told[r] = <<"success">> => future[r].resp
        /\ told[r] = <<"exception">> => ~future[r].resp \/ ~future[r].ok

(* No caller sleeps beside its reply (wait_response_message takes its      *)
(* ticket before it looks).                                                *)
ReplyWakes == \A r \in Sync : caller[r] = "wait" /\ future[r].resp => future[r].notified

(* Every request ends: the caller returns (or was dropped), the callback   *)
(* is called, and nothing of it stays in the table, the requests whose     *)
(* caller was dropped included.                                            *)
EveryRequestEnds ==
    \A r \in Req :
        caller[r] = "sending" ~>
            /\ r \notin table
            /\ IF r \in Sync THEN caller[r] \in {"done", "dropped"} ELSE told[r] # <<>>
=============================================================================
