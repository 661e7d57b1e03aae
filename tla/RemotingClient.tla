--------------------------- MODULE RemotingClient ---------------------------
(***************************************************************************)
(* The transport of the Rust port (remoting/client.rs): a table of         *)
(* connections keyed by address, a table of in-flight requests keyed by    *)
(* opaque, and the tasks that share them -- callers of invoke_sync /       *)
(* invoke_async / invoke_oneway (and ResponseSink, which writes a frame    *)
(* exactly as a oneway call does), the reader and writer task of every     *)
(* connection, the idle sweeper, start() and shutdown().                   *)
(*                                                                         *)
(* One step is one critical section of Inner.state (or of a connect gate), *)
(* or one await point.  close_channel and on_connection_lost take the lock *)
(* twice, once for the table and once for fail_pending_for; they are one   *)
(* step here because everything another task can do between the two        *)
(* commutes with one of them.                                              *)
(*                                                                         *)
(* Payloads are abstracted to the call and attempt a frame belongs to;     *)
(* idle clocks to "may be idle"; TLS and SOCKS to the outcome of connect.  *)
(***************************************************************************)
EXTENDS Integers, FiniteSets

CONSTANTS
    Caller,          \* concurrent invocations, each performs one call
    CallKind,        \* call shapes in use: "sync" (also async) and "oneway"
    Addr,            \* broker and name-server addresses
    Peer,            \* stands for the remote side as the origin of a frame
    BrokerOpaque,    \* opaques the peer uses for the requests it pushes
    MaxConn,         \* bound on connections opened
    MaxLife,         \* bound on shutdown() and start() calls
    ReconnectGoAway, \* config.enable_reconnect_for_go_away
    CloseOnTimeout   \* close_socket_on_sync_timeout

ASSUME KindAssumption == CallKind \subseteq {"sync", "oneway"}
ASSUME BoundAssumption == MaxConn \in Nat /\ MaxLife \in Nat
ASSUME SwitchAssumption == ReconnectGoAway \in BOOLEAN /\ CloseOnTimeout \in BOOLEAN
ASSUME BrokerOpaqueAssumption == BrokerOpaque \subseteq Nat

NoConn == 0
NoCaller == "nobody"

ASSUME CallerAssumption == Peer \notin Caller /\ NoCaller \notin Caller

VARIABLES
    running,    \* Inner.running
    down,       \* progress of shutdown()
    todo,       \* addresses shutdown() still has to close
    life,       \* effective shutdown() and start() calls so far
    sweeper,    \* Inner.sweeper: no handle / task alive / handle of an ended task
    conns,      \* State.conns: the connection published for an address
    alive,      \* connections whose alive flag is set
    reading,    \* connections whose reader task runs
    writing,    \* connections whose writer task runs
    leaving,    \* tasks that left their loop, on_connection_lost still to come
    nextConn,   \* NEXT_CONN_ID
    gate,       \* connect_gates: who holds the gate of an address
    pending,    \* State.pending
    nextOpaque, \* REQUEST_ID
    wire,       \* request frames handed to a socket and not answered yet
    pushed,     \* broker-initiated requests already pushed
    pc, kind, addr, opq, attempt, held, rx, result   \* the calls' locals

connVars == <<conns, alive, reading, writing>>
lifeVars == <<running, down, todo, life>>
callVars == <<kind, addr, opq, attempt, held, rx, result>>
vars == <<lifeVars, sweeper, leaving, connVars, nextConn, gate, pending, nextOpaque,
          wire, pushed, pc, callVars>>

Empty == [call |-> Peer, attempt |-> 0, code |-> "empty"]
Frame == [conn : Nat, opaque : Nat, call : Caller, attempt : Nat]
Response == [call : Caller \cup {Peer}, attempt : Nat, code : {"empty", "ok", "goaway"}]
Pending == [opaque : Nat, owner : Caller, conn : Nat]

Location == {"idle", "register", "check", "lookup", "gate", "recheck", "connect",
             "publish", "ensure", "write", "wbroken", "attach", "wait", "reconnect",
             "expired", "closesock", "cancel", "done"}
Outcome == {"none", "ok", "sent", "timeout", "closed", "connect", "shutdown", "goaway"}

Init ==
    /\ running = TRUE /\ down = "up" /\ todo = {} /\ life = 0
    /\ sweeper = "none"
    /\ conns = [a \in Addr |-> NoConn]
    /\ alive = {} /\ reading = {} /\ writing = {} /\ leaving = {}
    /\ nextConn = 1
    /\ gate = [a \in Addr |-> NoCaller]
    /\ pending = {}
    /\ nextOpaque = 1
    /\ wire = {} /\ pushed = {}
    /\ pc = [c \in Caller |-> "idle"]
    /\ kind = [c \in Caller |-> "sync"]
    /\ addr \in [Caller -> Addr]
    /\ opq = [c \in Caller |-> 0]
    /\ attempt = [c \in Caller |-> 1]
    /\ held = [c \in Caller |-> NoConn]
    /\ rx = [c \in Caller |-> Empty]
    /\ result = [c \in Caller |-> "none"]

-----------------------------------------------------------------------------
(* The shared tables.                                                      *)

Published == {conns[a] : a \in Addr} \ {NoConn}

Existing(a) == conns[a] \in alive

\* Faulty: claims by address instead of by connection.
FailPendingOfAddress(K) == IF K = {} THEN pending ELSE {}

\* fail_pending_for: only the requests written on those very connections.
FailPendingFor(K) == {p \in pending : p.conn \notin K}

\* close_channel for every address in S: unpublish, mark_dead, abort_tasks,
\* fail_pending_for.  A request not written out yet has conn NoConn.
CloseChannels(S) ==
    LET K == {conns[a] : a \in S} \ {NoConn}
    IN  /\ conns' = [a \in Addr |-> IF a \in S THEN NoConn ELSE conns[a]]
        /\ alive' = alive \ K
        /\ reading' = reading \ K
        /\ writing' = writing \ K
        /\ pending' = FailPendingFor(K)

CloseChannel(a) == CloseChannels({a})

Goto(c, l) == pc' = [pc EXCEPT ![c] = l]

\* Faulty: leaves the entry of a failed send in the table.
FailWithoutCancel(c, r) ==
    /\ result' = [result EXCEPT ![c] = r]
    /\ Goto(c, "done")

\* An error leaves send_request: a sync call still has to cancel its entry.
FailWith(c, r) ==
    /\ result' = [result EXCEPT ![c] = r]
    /\ Goto(c, IF kind[c] = "sync" THEN "cancel" ELSE "done")

\* Faulty: every request carries the same opaque.
NextOpaqueStuck == 1

\* REQUEST_ID starts at 0; here at 1, for 0 marks a call without an opaque.
NextOpaque == nextOpaque

\* Faulty: the stopped flag is not looked at.
IsRunningIgnored == TRUE

IsRunning == running

-----------------------------------------------------------------------------
(* A call: invoke_impl / invoke_with_timeout / send_request / write_frame. *)

Invoke(c, k) ==
    /\ pc[c] = "idle"
    /\ kind' = [kind EXCEPT ![c] = k]
    /\ opq' = [opq EXCEPT ![c] = NextOpaque]
    /\ nextOpaque' = nextOpaque + 1
    /\ Goto(c, IF k = "sync" THEN "register" ELSE "check")
    /\ UNCHANGED <<lifeVars, sweeper, leaving, connVars, nextConn, gate, pending, wire,
                   pushed, addr, attempt, held, rx, result>>

RegisterPending(c) ==
    /\ pc[c] = "register"
    /\ pending' = {p \in pending : p.opaque # opq[c]}
                    \cup {[opaque |-> opq[c], owner |-> c, conn |-> NoConn]}
    /\ Goto(c, "check")
    /\ UNCHANGED <<lifeVars, sweeper, leaving, connVars, nextConn, gate, nextOpaque,
                   wire, pushed, callVars>>

CheckRunning(c) ==
    /\ pc[c] = "check"
    /\ \/ IsRunning /\ Goto(c, "lookup") /\ UNCHANGED result
       \/ ~IsRunning /\ FailWith(c, "shutdown")
    /\ UNCHANGED <<lifeVars, sweeper, leaving, connVars, nextConn, gate, pending,
                   nextOpaque, wire, pushed, kind, addr, opq, attempt, held, rx>>

Lookup(c) ==
    /\ pc[c] = "lookup"
    /\ \/ /\ Existing(addr[c])
          /\ held' = [held EXCEPT ![c] = conns[addr[c]]]
          /\ Goto(c, "write")
       \/ ~Existing(addr[c]) /\ Goto(c, "gate") /\ UNCHANGED held
    /\ UNCHANGED <<lifeVars, sweeper, leaving, connVars, nextConn, gate, pending,
                   nextOpaque, wire, pushed, kind, addr, opq, attempt, rx, result>>

\* Faulty: nobody waits for the gate.
GateAlwaysFree(a) == TRUE

GateFree(a) == gate[a] = NoCaller

AcquireGate(c) ==
    /\ pc[c] = "gate"
    /\ GateFree(addr[c])
    /\ gate' = [gate EXCEPT ![addr[c]] = c]
    /\ Goto(c, "recheck")
    /\ UNCHANGED <<lifeVars, sweeper, leaving, connVars, nextConn, pending, nextOpaque,
                   wire, pushed, callVars>>

\* Faulty: the guard outlives the connect.
GateKept(c) == UNCHANGED gate

ReleaseGate(c) == gate' = [gate EXCEPT ![addr[c]] = NoCaller]

Recheck(c) ==
    /\ pc[c] = "recheck"
    /\ \/ /\ Existing(addr[c])
          /\ held' = [held EXCEPT ![c] = conns[addr[c]]]
          /\ ReleaseGate(c)
          /\ Goto(c, "write")
       \/ ~Existing(addr[c]) /\ Goto(c, "connect") /\ UNCHANGED <<held, gate>>
    /\ UNCHANGED <<lifeVars, sweeper, leaving, connVars, nextConn, pending, nextOpaque,
                   wire, pushed, kind, addr, opq, attempt, rx, result>>

ConnectFails(c) ==
    /\ pc[c] = "connect"
    /\ ReleaseGate(c)
    /\ FailWith(c, "connect")
    /\ UNCHANGED <<lifeVars, sweeper, leaving, connVars, nextConn, pending, nextOpaque,
                   wire, pushed, kind, addr, opq, attempt, held, rx>>

\* connect: the two tasks run before the connection is in the table.
ConnectOk(c) ==
    /\ pc[c] = "connect"
    /\ nextConn <= MaxConn
    /\ held' = [held EXCEPT ![c] = nextConn]
    /\ nextConn' = nextConn + 1
    /\ alive' = alive \cup {nextConn}
    /\ reading' = reading \cup {nextConn}
    /\ writing' = writing \cup {nextConn}
    /\ Goto(c, "publish")
    /\ UNCHANGED <<lifeVars, sweeper, leaving, conns, gate, pending, nextOpaque, wire,
                   pushed, kind, addr, opq, attempt, rx, result>>

\* The table is looked at once more: a live connection wins over the new one,
\* a dead one has its tasks aborted and is replaced.
Loser(c) == IF Existing(addr[c]) THEN held[c] ELSE conns[addr[c]]

Publish(c) ==
    /\ pc[c] = "publish"
    /\ reading' = reading \ {Loser(c)}
    /\ writing' = writing \ {Loser(c)}
    /\ IF Existing(addr[c])
       THEN /\ held' = [held EXCEPT ![c] = conns[addr[c]]]
            /\ ReleaseGate(c)
            /\ Goto(c, "write")
            /\ UNCHANGED conns
       ELSE /\ conns' = [conns EXCEPT ![addr[c]] = held[c]]
            /\ Goto(c, "ensure")
            /\ UNCHANGED <<held, gate>>
    /\ UNCHANGED <<lifeVars, sweeper, leaving, alive, nextConn, pending, nextOpaque,
                   wire, pushed, kind, addr, opq, attempt, rx, result>>

SweeperSlot == IF sweeper = "none" THEN "live" ELSE sweeper

\* ensure_sweeper, then the gate goes and the channel listeners are called.
EnsureSweeper(c) ==
    /\ pc[c] = "ensure"
    /\ sweeper' = SweeperSlot
    /\ ReleaseGate(c)
    /\ Goto(c, "write")
    /\ UNCHANGED <<leaving, lifeVars, connVars, nextConn, pending, nextOpaque, wire,
                   pushed, callVars>>

\* writer.send succeeds while the writer task has not dropped its end of the
\* queue.  A task that was aborted or has left its loop may still hold it, and
\* then the frame is lost.
WriteOk(c) ==
    /\ pc[c] = "write"
    /\ LET frame == [conn |-> held[c], opaque |-> opq[c], call |-> c, attempt |-> attempt[c]]
       IN  wire' = IF held[c] \in writing THEN wire \cup {frame} ELSE wire
    /\ \/ kind[c] = "sync" /\ Goto(c, "attach") /\ UNCHANGED result
       \/ /\ kind[c] = "oneway"
          /\ result' = [result EXCEPT ![c] = "sent"]
          /\ Goto(c, "done")
    /\ UNCHANGED <<lifeVars, sweeper, leaving, connVars, nextConn, gate, pending,
                   nextOpaque, pushed, kind, addr, opq, attempt, held, rx>>

WriteFails(c) ==
    /\ pc[c] = "write"
    /\ held[c] \notin writing
    /\ alive' = alive \ {held[c]}
    /\ Goto(c, "wbroken")
    /\ UNCHANGED <<lifeVars, sweeper, leaving, conns, reading, writing, nextConn, gate,
                   pending, nextOpaque, wire, pushed, callVars>>

\* The second half of a failed write: close_channel by address.
CloseAfterWriteFailure(c) ==
    /\ pc[c] = "wbroken"
    /\ CloseChannel(addr[c])
    /\ FailWith(c, "closed")
    /\ UNCHANGED <<lifeVars, sweeper, leaving, nextConn, gate, nextOpaque, wire, pushed,
                   kind, addr, opq, attempt, held, rx>>

AttachPendingConn(c) ==
    /\ pc[c] = "attach"
    /\ pending' = {IF p.opaque = opq[c] THEN [p EXCEPT !.conn = held[c]] ELSE p : p \in pending}
    /\ Goto(c, "wait")
    /\ UNCHANGED <<lifeVars, sweeper, leaving, connVars, nextConn, gate, nextOpaque,
                   wire, pushed, callVars>>

\* Faulty: GO_AWAY is answered by a resend every time.
MayResendForever(c) == ReconnectGoAway

MayResend(c) == ReconnectGoAway /\ attempt[c] = 1

\* The receiver is ready with a response.
GotResponse(c) ==
    /\ pc[c] = "wait"
    /\ rx[c] # Empty
    /\ \/ /\ rx[c].code = "ok"
          /\ result' = [result EXCEPT ![c] = "ok"]
          /\ Goto(c, "done")
       \/ /\ rx[c].code = "goaway" /\ MayResend(c)
          /\ Goto(c, "reconnect")
          /\ UNCHANGED result
       \/ /\ rx[c].code = "goaway" /\ ~MayResend(c)
          /\ result' = [result EXCEPT ![c] = "goaway"]
          /\ Goto(c, "done")
    /\ UNCHANGED <<lifeVars, sweeper, leaving, connVars, nextConn, gate, pending,
                   nextOpaque, wire, pushed, kind, addr, opq, attempt, held, rx>>

\* GO_AWAY: close the channel, then resend once under a new opaque.
Reconnect(c) ==
    /\ pc[c] = "reconnect"
    /\ CloseChannel(addr[c])
    /\ opq' = [opq EXCEPT ![c] = NextOpaque]
    /\ nextOpaque' = nextOpaque + 1
    /\ attempt' = [attempt EXCEPT ![c] = @ + 1]
    /\ held' = [held EXCEPT ![c] = NoConn]
    /\ rx' = [rx EXCEPT ![c] = Empty]
    /\ Goto(c, "register")
    /\ UNCHANGED <<lifeVars, sweeper, leaving, nextConn, gate, wire, pushed, kind, addr, result>>

\* The receiver is ready because its sender was dropped with the entry.
SenderDropped(c) ==
    /\ pc[c] = "wait"
    /\ rx[c] = Empty
    /\ \A p \in pending : p.opaque # opq[c]
    /\ FailWith(c, "closed")
    /\ UNCHANGED <<lifeVars, sweeper, leaving, connVars, nextConn, gate, pending,
                   nextOpaque, wire, pushed, kind, addr, opq, attempt, held, rx>>

\* tokio's timeout looks at the receiver before it looks at the deadline.
WaitExpires(c) ==
    /\ pc[c] = "wait"
    /\ rx[c] = Empty
    /\ \E p \in pending : p.opaque = opq[c]
    /\ Goto(c, "expired")
    /\ UNCHANGED <<lifeVars, sweeper, leaving, connVars, nextConn, gate, pending,
                   nextOpaque, wire, pushed, callVars>>

CancelExpired(c) ==
    /\ pc[c] = "expired"
    /\ pending' = {p \in pending : p.opaque # opq[c]}
    /\ result' = [result EXCEPT ![c] = "timeout"]
    /\ Goto(c, IF CloseOnTimeout THEN "closesock" ELSE "done")
    /\ UNCHANGED <<lifeVars, sweeper, leaving, connVars, nextConn, gate, nextOpaque,
                   wire, pushed, kind, addr, opq, attempt, held, rx>>

CloseSocketOnTimeout(c) ==
    /\ pc[c] = "closesock"
    /\ CloseChannel(addr[c])
    /\ Goto(c, "done")
    /\ UNCHANGED <<lifeVars, sweeper, leaving, nextConn, gate, nextOpaque, wire, pushed, callVars>>

Cancel(c) ==
    /\ pc[c] = "cancel"
    /\ pending' = {p \in pending : p.opaque # opq[c]}
    /\ Goto(c, "done")
    /\ UNCHANGED <<lifeVars, sweeper, leaving, connVars, nextConn, gate, nextOpaque,
                   wire, pushed, callVars>>

-----------------------------------------------------------------------------
(* The reader and writer tasks, and what the peer does.                    *)

\* dispatch: whatever frame carries an opaque that is in flight pops the
\* entry and completes its caller.
Dispatch(o, r) ==
    LET hit == {p \in pending : p.opaque = o}
    IN  /\ pending' = pending \ hit
        /\ rx' = [c \in Caller |-> IF \E p \in hit : p.owner = c THEN r ELSE rx[c]]

\* A response is read; one that nobody waits for any more is dropped.
DispatchResponse(f, code) ==
    /\ f \in wire
    /\ f.conn \in reading
    /\ wire' = wire \ {f}
    /\ Dispatch(f.opaque, [call |-> f.call, attempt |-> f.attempt, code |-> code])
    /\ UNCHANGED <<lifeVars, sweeper, leaving, connVars, nextConn, gate, nextOpaque,
                   pushed, pc, kind, addr, opq, attempt, held, result>>

\* A request the peer pushes: to the processor table unless its opaque hits
\* an entry.  The answer, if any, is a oneway call of its own.
DispatchRequest(k, o) ==
    /\ k \in reading /\ k \in Published
    /\ o \in BrokerOpaque \ pushed
    /\ pushed' = pushed \cup {o}
    /\ Dispatch(o, [call |-> Peer, attempt |-> 0, code |-> "ok"])
    /\ UNCHANGED <<lifeVars, sweeper, leaving, connVars, nextConn, gate, nextOpaque,
                   wire, pc, kind, addr, opq, attempt, held, result>>

\* EOF, a bad length prefix, an undecodable frame, or a stopped client: from
\* here on abort_tasks no longer stops the task.
ReaderExits(k) ==
    /\ k \in reading
    /\ reading' = reading \ {k}
    /\ leaving' = leaving \cup {<<"reader", k>>}
    /\ UNCHANGED <<lifeVars, sweeper, conns, alive, writing, nextConn, gate,
                   pending, nextOpaque, wire, pushed, pc, callVars>>

\* A write on the socket fails.
WriterExits(k) ==
    /\ k \in writing
    /\ \E f \in wire : f.conn = k
    /\ writing' = writing \ {k}
    /\ leaving' = leaving \cup {<<"writer", k>>}
    /\ UNCHANGED <<lifeVars, sweeper, conns, alive, reading, nextConn, gate,
                   pending, nextOpaque, wire, pushed, pc, callVars>>

\* Faulty: the tasks of a lost connection are not aborted.
MineNever(k) == {}

Mine(k) == {k} \cap Published

\* on_connection_lost: unpublish, mark_dead and abort only if the table still
\* holds this very connection, but fail the requests written on it always.
OnConnectionLost(t) ==
    LET k == t[2]
        mine == Mine(k)
    IN  /\ t \in leaving
        /\ leaving' = leaving \ {t}
        /\ conns' = [a \in Addr |-> IF conns[a] = k THEN NoConn ELSE conns[a]]
        /\ alive' = alive \ mine
        /\ reading' = reading \ mine
        /\ writing' = writing \ mine
        /\ pending' = FailPendingFor({k})
        /\ UNCHANGED <<lifeVars, sweeper, nextConn, gate, nextOpaque, wire, pushed,
                       pc, callVars>>

\* sweep_idle_connections: one tick reaps any set of idle connections.
SweepIdle(S) ==
    /\ sweeper = "live" /\ IsRunning
    /\ S # {} /\ \A a \in S : conns[a] # NoConn
    /\ CloseChannels(S)
    /\ UNCHANGED <<lifeVars, sweeper, leaving, nextConn, gate, nextOpaque, wire, pushed,
                   pc, callVars>>

\* A tick of a stopped client ends the task; its handle stays in the slot.
SweeperEnds ==
    /\ sweeper = "live" /\ ~IsRunning
    /\ sweeper' = "ended"
    /\ UNCHANGED <<leaving, lifeVars, connVars, nextConn, gate, pending, nextOpaque,
                   wire, pushed, pc, callVars>>

-----------------------------------------------------------------------------
(* close_channel(), start() and shutdown().                                *)

CloseByAddress(a) ==
    /\ conns[a] # NoConn
    /\ CloseChannel(a)
    /\ UNCHANGED <<lifeVars, sweeper, leaving, nextConn, gate, nextOpaque, wire, pushed,
                   pc, callVars>>

ShutdownSwap ==
    /\ running
    /\ life < MaxLife
    /\ life' = life + 1
    /\ running' = FALSE
    /\ down' = "swapped"
    /\ UNCHANGED <<todo, sweeper, leaving, connVars, nextConn, gate, pending,
                   nextOpaque, wire, pushed, pc, callVars>>

ShutdownSnapshot ==
    /\ down = "swapped"
    /\ sweeper' = "none"
    /\ todo' = {a \in Addr : conns[a] # NoConn}
    /\ down' = "closing"
    /\ UNCHANGED <<leaving, running, life, connVars, nextConn, gate, pending,
                   nextOpaque, wire, pushed, pc, callVars>>

ShutdownClose(a) ==
    /\ down = "closing"
    /\ a \in todo
    /\ CloseChannel(a)
    /\ todo' = todo \ {a}
    /\ UNCHANGED <<running, down, life, sweeper, leaving, nextConn, gate, nextOpaque,
                   wire, pushed, pc, callVars>>

ShutdownClear ==
    /\ down = "closing"
    /\ todo = {}
    /\ pending' = {}
    /\ down' = "down"
    /\ UNCHANGED <<running, todo, life, sweeper, leaving, connVars, nextConn, gate,
                   nextOpaque, wire, pushed, pc, callVars>>

Start ==
    /\ down = "down"
    /\ life < MaxLife
    /\ running' = TRUE
    /\ down' = "up"
    /\ life' = life + 1
    /\ UNCHANGED <<todo, sweeper, leaving, connVars, nextConn, gate, pending,
                   nextOpaque, wire, pushed, pc, callVars>>

-----------------------------------------------------------------------------
Connect(c) == ConnectFails(c) \/ ConnectOk(c)

Write(c) == WriteOk(c) \/ WriteFails(c)

\* What a call does by itself, its timer included.
CallStep(c) ==
    \/ RegisterPending(c) \/ CheckRunning(c) \/ Lookup(c) \/ AcquireGate(c)
    \/ Recheck(c) \/ Connect(c) \/ Publish(c) \/ EnsureSweeper(c)
    \/ Write(c) \/ CloseAfterWriteFailure(c) \/ AttachPendingConn(c)
    \/ GotResponse(c) \/ Reconnect(c) \/ SenderDropped(c)
    \/ WaitExpires(c) \/ CancelExpired(c) \/ CloseSocketOnTimeout(c) \/ Cancel(c)

Environment ==
    \/ \E f \in wire, code \in {"ok", "goaway"} : DispatchResponse(f, code)
    \/ \E k \in reading, o \in BrokerOpaque : DispatchRequest(k, o)
    \/ \E k \in reading : ReaderExits(k)
    \/ \E k \in writing : WriterExits(k)
    \/ \E t \in leaving : OnConnectionLost(t)

Lifecycle ==
    \/ \E S \in SUBSET Addr : SweepIdle(S)
    \/ SweeperEnds
    \/ \E a \in Addr : CloseByAddress(a)
    \/ ShutdownSwap \/ ShutdownSnapshot
    \/ \E a \in Addr : ShutdownClose(a)
    \/ ShutdownClear \/ Start

Next ==
    \/ \E c \in Caller, k \in CallKind : Invoke(c, k)
    \/ \E c \in Caller : CallStep(c)
    \/ Environment
    \/ Lifecycle

Spec == Init /\ [][Next]_vars

-----------------------------------------------------------------------------
(* Properties.                                                             *)

TypeOK ==
    /\ running \in BOOLEAN
    /\ down \in {"up", "swapped", "closing", "down"}
    /\ todo \in SUBSET Addr
    /\ life \in Nat
    /\ sweeper \in {"none", "live", "ended"}
    /\ conns \in [Addr -> Nat]
    /\ alive \in SUBSET Nat /\ reading \in SUBSET Nat /\ writing \in SUBSET Nat
    /\ leaving \in SUBSET ({"reader", "writer"} \X Nat)
    /\ nextConn \in Nat \ {0}
    /\ gate \in [Addr -> Caller \cup {NoCaller}]
    /\ pending \in SUBSET Pending
    /\ nextOpaque \in Nat
    /\ wire \in SUBSET Frame
    /\ pushed \in SUBSET BrokerOpaque
    /\ pc \in [Caller -> Location]
    /\ kind \in [Caller -> {"sync", "oneway"}]
    /\ addr \in [Caller -> Addr]
    /\ opq \in [Caller -> Nat]
    /\ attempt \in [Caller -> {1, 2}]
    /\ held \in [Caller -> Nat]
    /\ rx \in [Caller -> Response]
    /\ result \in [Caller -> Outcome]

InFlight == {"check", "lookup", "gate", "recheck", "connect", "publish", "ensure",
             "write", "wbroken", "attach", "wait", "expired", "cancel"}

\* The in-flight table holds no entry that nobody will reclaim: each belongs
\* to the current attempt of a sync call that is still between
\* register_pending and the cancel or response that ends the attempt.
PendingReclaimed ==
    \A p \in pending : /\ opq[p.owner] = p.opaque
                       /\ kind[p.owner] = "sync"
                       /\ pc[p.owner] \in InFlight

\* A caller is completed only by a response to the very attempt it waits for
\* (dispatch pops by opaque; the GO_AWAY resend takes a new opaque).
OwnResponse ==
    \A c \in Caller : rx[c] # Empty => rx[c].call = c /\ rx[c].attempt = attempt[c]

\* The connect gate makes the last look at the table in get_or_create idle:
\* no other task can have published a live connection meanwhile, so a
\* connection is never opened only to be thrown away.
OneConnector ==
    \A c \in Caller : pc[c] \in {"connect", "publish"} => ~Existing(addr[c])

\* No socket outlives its owner: a connection with a running task is in the
\* table or in the hands of the one call that is about to publish it.
SocketsAccounted ==
    \A k \in reading \cup writing :
        k \in Published \/ \E c \in Caller : pc[c] = "publish" /\ held[c] = k

\* A call fails with "connection closed" only because the connection it was
\* written on is gone, never because another connection of the same address
\* went (fail_pending_for claims by connection id) -- or at shutdown.
ClosedOnlyWithOwnConnection ==
    \A c \in Caller : result[c] = "closed" =>
        held[c] \notin alive \/ down = "down" \/ life > 1

\* Once shutdown() has returned no caller is left waiting for a response:
\* an entry that still exists belongs to a call that will see the stopped
\* flag before it writes, or that is on its way out.
ShutdownSettles ==
    down = "down" => \A p \in pending : pc[p.owner] \in {"check", "cancel"}

\* While the client runs, whoever published a connection has a sweeper for
\* it, or is about to install one.
SweeperCovers ==
    running /\ Published # {} =>
        sweeper = "live" \/ \E c \in Caller : pc[c] = "ensure"

\* A call fails with "connection closed" only with its own connection; and
\* until the client is started again, a published connection has a sweeper.
OwnFateOnly ==
    /\ ClosedOnlyWithOwnConnection
    /\ life < 2 => SweeperCovers

\* Every call returns, whatever the peer does: a lost, late or missing
\* response, a broken connection, a GO_AWAY or a shutdown never leaves it
\* hanging.
CallReturns == \A c \in Caller : pc[c] # "idle" ~> pc[c] = "done"

=============================================================================
