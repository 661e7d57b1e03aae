----------------------- MODULE RemotingClientTheorems -----------------------
(***************************************************************************)
(* The theorems about RemotingClient.  TLC checks the same properties on   *)
(* the instances of MCRemotingClient.                                      *)
(*                                                                         *)
(* The first part is the inductive invariant IInv: what the closing        *)
(* operations do to the tables, and that every step keeps the types, what  *)
(* the invariant says of connections, and what it says of calls: opaques,  *)
(* the in-flight table, responses and shutdown.                            *)
(*                                                                         *)
(* OwnFateOnly, in the second part, rests on more than IInv: on how the    *)
(* entry of a call is tied to its connection.  Until the frame is written  *)
(* the entry names no connection, so no closing can claim it; from then on *)
(* it names the one the call holds, so what claims it also marked that     *)
(* connection dead.                                                        *)
(***************************************************************************)
EXTENDS RemotingClient, TLAPS

\* Where a call is between connect_gate and the drop of its guard.
GateHeld == {"recheck", "connect", "publish", "ensure"}

\* Every opaque in use was drawn from REQUEST_ID, which only grows.
FreshOpaque ==
    /\ nextOpaque > 0
    /\ \A c \in Caller : opq[c] < nextOpaque
    /\ \A f \in wire : 0 < f.opaque /\ f.opaque < nextOpaque

\* Every connection id in use was drawn from NEXT_CONN_ID.
FreshConn ==
    /\ \A a \in Addr : conns[a] < nextConn
    /\ \A c \in Caller : held[c] < nextConn
    /\ \A k \in alive : 0 < k /\ k < nextConn

\* An opaque belongs to one attempt of one call.
OpaqueUnique ==
    /\ \A c \in Caller : pc[c] # "idle" => opq[c] > 0
    /\ \A c, d \in Caller : c # d /\ opq[c] = opq[d] => opq[c] = 0
    /\ \A f \in wire : \A c \in Caller :
          opq[c] = f.opaque => c = f.call /\ attempt[c] = f.attempt

\* Who is inside the gate holds it.
GateInv == \A c \in Caller : pc[c] \in GateHeld => gate[addr[c]] = c

\* The connection a call is about to publish is known to no one else.
PrivateConn ==
    \A c \in Caller : pc[c] = "publish" =>
        /\ held[c] > 0
        /\ \A d \in Caller : d # c => held[d] # held[c]
        /\ \A a \in Addr : conns[a] # held[c]

\* Only a first attempt is resent, and only a sync call waits.
CallInv ==
    \A c \in Caller :
        /\ pc[c] = "reconnect" => attempt[c] = 1
        /\ pc[c] \in {"register", "attach", "wait", "reconnect"} => kind[c] = "sync"

\* A call that has its response has no entry left, and starts without one.
RxInv ==
    \A c \in Caller :
        /\ pc[c] \in {"idle", "register"} => rx[c] = Empty
        /\ rx[c] # Empty => \A p \in pending : p.owner # c

\* shutdown() and start() flip the flag and the progress together.
LifeInv == running <=> down = "up"

\* The inductive invariant: the checked properties and what they rest on.
IInv ==
    /\ TypeOK
    /\ FreshOpaque /\ FreshConn /\ OpaqueUnique
    /\ GateInv /\ PrivateConn /\ CallInv /\ RxInv /\ LifeInv
    /\ OneConnector /\ PendingReclaimed /\ SocketsAccounted /\ ShutdownSettles

\* What closing channels may do to the tables: connections, tasks and entries
\* only go away.
Shrinks ==
    /\ conns' \in [Addr -> Nat]
    /\ \A a \in Addr : \/ conns'[a] = conns[a]
                       \/ conns'[a] = NoConn /\ conns[a] \notin reading' \cup writing'
    /\ alive' \subseteq alive
    /\ reading' \subseteq reading
    /\ writing' \subseteq writing
    /\ pending' \subseteq pending

\* register_pending adds the caller's entry and nothing else.
LEMMA RegisterAdds ==
    ASSUME NEW c \in Caller, RegisterPending(c)
    PROVE  \A p \in pending' : p \in pending \/ (p.owner = c /\ p.opaque = opq[c])
<1> DEFINE entry == [opaque |-> opq[c], owner |-> c, conn |-> NoConn]
<1>1. entry.owner = c /\ entry.opaque = opq[c]
  BY Zenon
<1>2. pending' = {p \in pending : p.opaque # opq[c]} \cup {entry}
  BY Zenon DEF RegisterPending
<1> HIDE DEF entry
<1>3. QED
  BY <1>1, <1>2, Zenon

\* close_channel, for every address it closes, only removes.
LEMMA CloseShrinks ==
    ASSUME NEW S \in SUBSET Addr, conns \in [Addr -> Nat], CloseChannels(S)
    PROVE  Shrinks
BY Zenon DEF CloseChannels, FailPendingFor, NoConn, Shrinks

\* So does every action that closes channels or handles a lost connection.
LEMMA ClosersShrink ==
    IInv =>
        /\ \A c \in Caller : CloseAfterWriteFailure(c) => Shrinks
        /\ \A c \in Caller : Reconnect(c) => Shrinks
        /\ \A c \in Caller : CloseSocketOnTimeout(c) => Shrinks
        /\ \A t \in leaving : OnConnectionLost(t) => Shrinks
        /\ \A S \in SUBSET Addr : SweepIdle(S) => Shrinks
        /\ \A a \in Addr : CloseByAddress(a) => Shrinks
        /\ \A a \in Addr : ShutdownClose(a) => Shrinks
<1> SUFFICES ASSUME IInv PROVE
        /\ \A c \in Caller : CloseAfterWriteFailure(c) => Shrinks
        /\ \A c \in Caller : Reconnect(c) => Shrinks
        /\ \A c \in Caller : CloseSocketOnTimeout(c) => Shrinks
        /\ \A t \in leaving : OnConnectionLost(t) => Shrinks
        /\ \A S \in SUBSET Addr : SweepIdle(S) => Shrinks
        /\ \A a \in Addr : CloseByAddress(a) => Shrinks
        /\ \A a \in Addr : ShutdownClose(a) => Shrinks
  BY Zenon
<1>1. conns \in [Addr -> Nat] /\ addr \in [Caller -> Addr]
  BY Zenon DEF IInv, TypeOK
<1>2. ASSUME NEW a \in Addr, CloseChannel(a) PROVE Shrinks
  <2>1. {a} \in SUBSET Addr /\ CloseChannels({a})
    BY <1>2, Zenon DEF CloseChannel
  <2>2. QED
    BY <1>1, <2>1, CloseShrinks, Zenon
<1>3. ASSUME NEW c \in Caller, CloseChannel(addr[c]) PROVE Shrinks
  BY <1>1, <1>2, <1>3, Zenon
<1>4. ASSUME NEW S \in SUBSET Addr, SweepIdle(S) PROVE Shrinks
  <2>1. CloseChannels(S)
    BY <1>4, Zenon DEF SweepIdle
  <2>2. QED
    BY <1>1, <2>1, CloseShrinks, Zenon
<1>5. ASSUME NEW t \in leaving, OnConnectionLost(t) PROVE Shrinks
  BY <1>1, <1>5, Zenon DEF OnConnectionLost, Mine, Published, FailPendingFor, NoConn, Shrinks
<1>6. QED
  BY <1>2, <1>3, <1>4, <1>5, Zenon
     DEF CloseAfterWriteFailure, Reconnect, CloseSocketOnTimeout, CloseByAddress,
         ShutdownClose

\* Every step keeps the types; a resend is a second attempt, never a third.
LEMMA TypeStep == IInv /\ [Next]_vars => TypeOK'
<1> SUFFICES ASSUME IInv, [Next]_vars PROVE TypeOK'
  BY Zenon
<1> USE DEF IInv, Shrinks, TypeOK, CallInv, Empty, Frame, Response, Pending, Location,
     Outcome, NoConn, NoCaller, connVars, lifeVars, callVars
<1>1. ASSUME NEW c \in Caller, NEW k \in CallKind, Invoke(c, k) PROVE TypeOK'
  BY <1>1, KindAssumption DEF Invoke, NextOpaque, Goto
<1>2. ASSUME NEW c \in Caller, RegisterPending(c) PROVE TypeOK'
  BY <1>2 DEF RegisterPending, Goto
<1>3. ASSUME NEW c \in Caller, CheckRunning(c) PROVE TypeOK'
  <2>1. CASE IsRunning
    BY <1>3, <2>1, ZenonT(60) DEF CheckRunning, Goto, FailWith
  <2>2. CASE ~IsRunning
    BY <1>3, <2>2, SMTT(30) DEF CheckRunning, FailWith, Goto
  <2>3. QED
    BY <2>1, <2>2, Zenon
<1>4. ASSUME NEW c \in Caller, Lookup(c) PROVE TypeOK'
  <2>1. CASE Existing(addr[c])
    BY <1>4, <2>1 DEF Lookup, Goto
  <2>2. CASE ~Existing(addr[c])
    BY <1>4, <2>2, ZenonT(60) DEF Lookup, Goto
  <2>3. QED
    BY <2>1, <2>2, Zenon
<1>5. ASSUME NEW c \in Caller, AcquireGate(c) PROVE TypeOK'
  BY <1>5, Zenon DEF AcquireGate, GateFree, Goto
<1>6. ASSUME NEW c \in Caller, Recheck(c) PROVE TypeOK'
  <2>1. gate' \in [Addr -> Caller \cup {NoCaller}]
    BY <1>6, Zenon DEF Recheck, ReleaseGate
  <2>2. held' \in [Caller -> Nat]
    BY <1>6 DEF Recheck
  <2>3. pc' \in [Caller -> Location]
    BY <1>6 DEF Recheck, Goto
  <2>4. QED
    BY <1>6, <2>1, <2>2, <2>3, Zenon DEF Recheck
<1>7. ASSUME NEW c \in Caller, ConnectFails(c) PROVE TypeOK'
  BY <1>7, Zenon DEF ConnectFails, ReleaseGate, FailWith, Goto
<1>8. ASSUME NEW c \in Caller, ConnectOk(c) PROVE TypeOK'
  BY <1>8 DEF ConnectOk, Goto
<1>9. ASSUME NEW c \in Caller, Publish(c) PROVE TypeOK'
  <2>1. reading' \in SUBSET Nat /\ writing' \in SUBSET Nat
    BY <1>9, Zenon DEF Publish
  <2>2. conns' \in [Addr -> Nat]
    BY <1>9 DEF Publish
  <2>3. gate' \in [Addr -> Caller \cup {NoCaller}]
    BY <1>9, Zenon DEF Publish, ReleaseGate
  <2>4. held' \in [Caller -> Nat]
    BY <1>9, SMTT(30) DEF Publish
  <2>5. pc' \in [Caller -> Location]
    BY <1>9, SMTT(30) DEF Publish, Goto
  <2>6. QED
    BY <1>9, <2>1, <2>2, <2>3, <2>4, <2>5, Zenon DEF Publish
<1>10. ASSUME NEW c \in Caller, EnsureSweeper(c) PROVE TypeOK'
  BY <1>10, Zenon DEF EnsureSweeper, SweeperSlot, ReleaseGate, Goto
<1>11. ASSUME NEW c \in Caller, WriteOk(c) PROVE TypeOK'
  <2>1. [conn |-> held[c], opaque |-> opq[c], call |-> c, attempt |-> attempt[c]] \in Frame
    OBVIOUS
  <2>2. wire' \subseteq Frame
    BY <1>11, <2>1, Zenon DEF WriteOk
  <2>3. pc' \in [Caller -> Location] /\ result' \in [Caller -> Outcome]
    BY <1>11, ZenonT(60) DEF WriteOk, Goto
  <2> QED BY <1>11, <2>2, <2>3, Zenon DEF WriteOk
<1>12. ASSUME NEW c \in Caller, WriteFails(c) PROVE TypeOK'
  BY <1>12, Zenon DEF WriteFails, Goto
<1>13. ASSUME NEW c \in Caller, CloseAfterWriteFailure(c), Shrinks PROVE TypeOK'
  BY <1>13, Zenon DEF CloseAfterWriteFailure, FailWith, Goto
<1>14. ASSUME NEW c \in Caller, AttachPendingConn(c) PROVE TypeOK'
  <2>1. \A p \in pending : [p EXCEPT !.conn = held[c]] \in Pending
    OBVIOUS
  <2>2. pending' \subseteq Pending
    <3>1. pending \subseteq Pending
      OBVIOUS
    <3> HIDE DEF IInv, TypeOK, Pending
    <3> QED BY <1>14, <2>1, <3>1 DEF AttachPendingConn
  <2>3. pc' \in [Caller -> Location]
    BY <1>14, Zenon DEF AttachPendingConn, Goto
  <2> QED BY <1>14, <2>2, <2>3, Zenon DEF AttachPendingConn
<1>15. ASSUME NEW c \in Caller, GotResponse(c) PROVE TypeOK'
  <2>1. pc' \in [Caller -> Location]
    BY <1>15, ZenonT(60) DEF GotResponse, Goto
  <2>2. result' \in [Caller -> Outcome]
    BY <1>15, ZenonT(40) DEF GotResponse
  <2>3. QED
    BY <1>15, <2>1, <2>2, Zenon DEF GotResponse
<1>16. ASSUME NEW c \in Caller, Reconnect(c), Shrinks PROVE TypeOK'
  <2>1. attempt[c] = 1
    BY <1>16, Zenon DEF Reconnect
  <2>2. attempt[c] + 1 \in {1, 2}
    BY <2>1
  <2>3. attempt' = [attempt EXCEPT ![c] = attempt[c] + 1]
    BY <1>16, Zenon DEF Reconnect
  <2>4. attempt' \in [Caller -> {1, 2}]
    BY <2>2, <2>3, Zenon
  <2>5. conns' \in [Addr -> Nat] /\ alive' \in SUBSET Nat /\ reading' \in SUBSET Nat
        /\ writing' \in SUBSET Nat /\ pending' \in SUBSET Pending
    BY <1>16, Zenon
  <2>6. opq' \in [Caller -> Nat] /\ nextOpaque' \in Nat /\ held' \in [Caller -> Nat]
    BY <1>16 DEF Reconnect, NextOpaque
  <2>7. rx' \in [Caller -> Response]
    BY <1>16, Zenon DEF Reconnect
  <2>8. pc' \in [Caller -> Location]
    BY <1>16, Zenon DEF Reconnect, Goto
  <2>9. QED
    BY <1>16, <2>4, <2>5, <2>6, <2>7, <2>8, Zenon DEF Reconnect
<1>17. ASSUME NEW c \in Caller, SenderDropped(c) PROVE TypeOK'
  BY <1>17, Zenon DEF SenderDropped, FailWith, Goto
<1>18. ASSUME NEW c \in Caller, WaitExpires(c) PROVE TypeOK'
  BY <1>18, Zenon DEF WaitExpires, Goto
<1>19. ASSUME NEW c \in Caller, CancelExpired(c) PROVE TypeOK'
  BY <1>19, Zenon DEF CancelExpired, Goto
<1>20. ASSUME NEW c \in Caller, CloseSocketOnTimeout(c), Shrinks PROVE TypeOK'
  BY <1>20, Zenon DEF CloseSocketOnTimeout, Goto
<1>21. ASSUME NEW c \in Caller, Cancel(c) PROVE TypeOK'
  BY <1>21, Zenon DEF Cancel, Goto
<1>22. ASSUME NEW f \in wire, NEW code \in {"ok", "goaway"}, DispatchResponse(f, code) PROVE TypeOK'
  BY <1>22 DEF DispatchResponse, Dispatch
<1>23. ASSUME NEW k \in reading, NEW o \in BrokerOpaque, DispatchRequest(k, o) PROVE TypeOK'
  BY <1>23 DEF DispatchRequest, Dispatch
<1>24. ASSUME NEW k \in reading, ReaderExits(k) PROVE TypeOK'
  BY <1>24 DEF ReaderExits
<1>25. ASSUME NEW k \in writing, WriterExits(k) PROVE TypeOK'
  BY <1>25 DEF WriterExits
<1>26. ASSUME NEW t \in leaving, OnConnectionLost(t), Shrinks PROVE TypeOK'
  BY <1>26, Zenon DEF OnConnectionLost
<1>27. ASSUME NEW S \in SUBSET Addr, SweepIdle(S), Shrinks PROVE TypeOK'
  BY <1>27, Zenon DEF SweepIdle
<1>28. CASE SweeperEnds
  BY <1>28, Zenon DEF SweeperEnds
<1>29. ASSUME NEW a \in Addr, CloseByAddress(a), Shrinks PROVE TypeOK'
  BY <1>29, Zenon DEF CloseByAddress
<1>30. CASE ShutdownSwap
  <2>1. running' \in BOOLEAN
    BY <1>30, Zenon DEF ShutdownSwap
  <2>2. QED
    BY <1>30, <2>1 DEF ShutdownSwap
<1>31. CASE ShutdownSnapshot
  BY <1>31, Zenon DEF ShutdownSnapshot
<1>32. ASSUME NEW a \in Addr, ShutdownClose(a), Shrinks PROVE TypeOK'
  BY <1>32, Zenon DEF ShutdownClose
<1>33. CASE ShutdownClear
  BY <1>33, Zenon DEF ShutdownClear
<1>34. CASE Start
  BY <1>34 DEF Start
<1>35. CASE UNCHANGED vars
  BY <1>35, Zenon DEF vars
<1> HIDE DEF IInv, Shrinks, TypeOK, CallInv, Empty, Frame, Response, Pending, Location,
     Outcome, NoConn, NoCaller, connVars, lifeVars, callVars
<1>36. QED
  BY ClosersShrink, <1>1, <1>2, <1>3, <1>4, <1>5, <1>6, <1>7, <1>8, <1>9, <1>10, <1>11,
     <1>12, <1>13, <1>14, <1>15, <1>16, <1>17, <1>18, <1>19, <1>20, <1>21, <1>22, <1>23,
     <1>24, <1>25, <1>26, <1>27, <1>28, <1>29, <1>30, <1>31, <1>32, <1>33, <1>34, <1>35, Zenon
     DEF Next, CallStep, Connect, Write, Environment, Lifecycle

-----------------------------------------------------------------------------
(* Connections *)

\* A new connection id is above all earlier ones.
LEMMA FreshConnStep == IInv /\ [Next]_vars => FreshConn'
<1> SUFFICES ASSUME IInv, [Next]_vars PROVE FreshConn'
  BY Zenon
<1>0. /\ conns \in [Addr -> Nat]
      /\ held \in [Caller -> Nat]
      /\ alive \in SUBSET Nat
      /\ nextConn \in Nat \ {0}
      /\ addr \in [Caller -> Addr]
      /\ FreshConn
  BY Zenon DEF IInv, TypeOK
<1> USE <1>0 DEF FreshConn, NoConn, Shrinks, connVars, lifeVars, callVars
<1>1. ASSUME NEW c \in Caller, Lookup(c) PROVE FreshConn'
  BY <1>1, Zenon DEF Lookup, Goto
<1>2. ASSUME NEW c \in Caller, Recheck(c) PROVE FreshConn'
  BY <1>2 DEF Recheck, ReleaseGate, Goto
<1>3. ASSUME NEW c \in Caller, ConnectOk(c) PROVE FreshConn'
  BY <1>3 DEF ConnectOk, Goto
<1>4. ASSUME NEW c \in Caller, Publish(c) PROVE FreshConn'
  BY <1>4, Zenon DEF Publish, Loser, ReleaseGate, Goto
<1>5. ASSUME NEW c \in Caller, WriteFails(c) PROVE FreshConn'
  BY <1>5, Zenon DEF WriteFails, Goto
<1>6. ASSUME NEW c \in Caller, CloseAfterWriteFailure(c), Shrinks PROVE FreshConn'
  BY <1>6 DEF CloseAfterWriteFailure, FailWith, Goto
<1>7. ASSUME NEW c \in Caller, Reconnect(c), Shrinks PROVE FreshConn'
  BY <1>7 DEF Reconnect, NextOpaque, Goto
<1>8. ASSUME NEW c \in Caller, CloseSocketOnTimeout(c), Shrinks PROVE FreshConn'
  BY <1>8 DEF CloseSocketOnTimeout, Goto
<1>9. ASSUME NEW f \in wire, NEW code \in {"ok", "goaway"}, DispatchResponse(f, code)
      PROVE  FreshConn'
  BY <1>9, Zenon DEF DispatchResponse, Dispatch
<1>10. ASSUME NEW k \in reading, NEW o \in BrokerOpaque, DispatchRequest(k, o)
      PROVE  FreshConn'
  BY <1>10, Zenon DEF DispatchRequest, Dispatch
<1>11. ASSUME NEW k \in reading, ReaderExits(k) PROVE FreshConn'
  BY <1>11, Zenon DEF ReaderExits
<1>12. ASSUME NEW k \in writing, WriterExits(k) PROVE FreshConn'
  BY <1>12, Zenon DEF WriterExits
<1>13. ASSUME NEW t \in leaving, OnConnectionLost(t), Shrinks PROVE FreshConn'
  <2>1. UNCHANGED <<held, nextConn, addr>>
    BY <1>13, Zenon DEF OnConnectionLost
  <2>2. QED
    BY <1>13, <2>1
<1>14. ASSUME NEW S \in SUBSET Addr, SweepIdle(S), Shrinks PROVE FreshConn'
  BY <1>14 DEF SweepIdle
<1>15. ASSUME NEW a \in Addr, CloseByAddress(a), Shrinks PROVE FreshConn'
  BY <1>15 DEF CloseByAddress
<1>16. ASSUME NEW a \in Addr, ShutdownClose(a), Shrinks PROVE FreshConn'
  BY <1>16 DEF ShutdownClose
<1>17. CASE UNCHANGED <<conns, held, alive, nextConn>>
  BY <1>17, Zenon
<1> HIDE <1>0 DEF FreshConn, NoConn, Shrinks
<1>18. ASSUME NEW c \in Caller, CallStep(c)
      PROVE  UNCHANGED <<conns, held, alive, nextConn>> \/
     Lookup(c) \/ Recheck(c) \/ ConnectOk(c) \/ Publish(c) \/ WriteFails(c) \/
     CloseAfterWriteFailure(c) \/ Reconnect(c) \/ CloseSocketOnTimeout(c)
  BY <1>18, Zenon DEF CallStep, Connect, Write, RegisterPending, CheckRunning, AcquireGate,
     ConnectFails, EnsureSweeper, WriteOk, AttachPendingConn, GotResponse, SenderDropped,
     WaitExpires, CancelExpired, Cancel
<1>19. CASE Environment
  BY ClosersShrink, <1>17, <1>9, <1>10, <1>11, <1>12, <1>13, <1>19, Zenon
     DEF Environment
<1>20. CASE Lifecycle
  BY ClosersShrink, <1>17, <1>14, <1>15, <1>16, <1>20, Zenon
     DEF Lifecycle, SweeperEnds, ShutdownSwap, ShutdownSnapshot, ShutdownClear, Start
<1>21. CASE UNCHANGED vars
  BY <1>17, <1>21, Zenon DEF vars
<1>22. QED
  BY ClosersShrink, <1>1, <1>2, <1>3, <1>4, <1>5, <1>6, <1>7, <1>8, <1>18, <1>17, <1>19,
     <1>20, <1>21, Zenon
     DEF Next, Invoke

\* The gate is released only by its holder.
LEMMA GateStep == IInv /\ [Next]_vars => GateInv'
<1> SUFFICES ASSUME IInv, [Next]_vars PROVE GateInv'
  BY Zenon
<1>0. /\ pc \in [Caller -> Location]
      /\ gate \in [Addr -> Caller \cup {NoCaller}]
      /\ addr \in [Caller -> Addr]
      /\ GateInv
  BY Zenon DEF IInv, TypeOK
<1> USE <1>0 DEF GateInv, GateHeld, NoCaller, Shrinks, connVars, lifeVars, callVars
<1>1. ASSUME NEW c \in Caller, NEW k \in CallKind, Invoke(c, k) PROVE GateInv'
  BY <1>1, CallerAssumption, Zenon DEF Invoke, NextOpaque, Goto
<1>2. ASSUME NEW c \in Caller, RegisterPending(c) PROVE GateInv'
  BY <1>2, CallerAssumption, Zenon DEF RegisterPending, Goto
<1>3. ASSUME NEW c \in Caller, CheckRunning(c) PROVE GateInv'
  BY <1>3, CallerAssumption, Zenon DEF CheckRunning, IsRunning, FailWith, Goto
<1>4. ASSUME NEW c \in Caller, Lookup(c) PROVE GateInv'
  BY <1>4, CallerAssumption, Zenon DEF Lookup, Goto
<1>5. ASSUME NEW c \in Caller, AcquireGate(c) PROVE GateInv'
  BY <1>5, CallerAssumption, Zenon DEF AcquireGate, GateFree, Goto
<1>6. ASSUME NEW c \in Caller, Recheck(c) PROVE GateInv'
  BY <1>6, CallerAssumption DEF Recheck, ReleaseGate, Goto
<1>7. ASSUME NEW c \in Caller, ConnectFails(c) PROVE GateInv'
  BY <1>7, CallerAssumption, Zenon DEF ConnectFails, ReleaseGate, FailWith, Goto
<1>8. ASSUME NEW c \in Caller, ConnectOk(c) PROVE GateInv'
  BY <1>8, CallerAssumption, Zenon DEF ConnectOk, Goto
<1>9. ASSUME NEW c \in Caller, Publish(c) PROVE GateInv'
  BY <1>9, CallerAssumption DEF Publish, Loser, ReleaseGate, Goto
<1>10. ASSUME NEW c \in Caller, EnsureSweeper(c) PROVE GateInv'
  BY <1>10, CallerAssumption, Zenon DEF EnsureSweeper, SweeperSlot, ReleaseGate, Goto
<1>11. ASSUME NEW c \in Caller, WriteOk(c) PROVE GateInv'
  BY <1>11, CallerAssumption, Zenon DEF WriteOk, Goto
<1>12. ASSUME NEW c \in Caller, WriteFails(c) PROVE GateInv'
  BY <1>12, CallerAssumption, Zenon DEF WriteFails, Goto
<1>13. ASSUME NEW c \in Caller, CloseAfterWriteFailure(c), Shrinks PROVE GateInv'
  BY <1>13, CallerAssumption, Zenon DEF CloseAfterWriteFailure, FailWith, Goto
<1>14. ASSUME NEW c \in Caller, AttachPendingConn(c) PROVE GateInv'
  BY <1>14, CallerAssumption, Zenon DEF AttachPendingConn, Goto
<1>15. ASSUME NEW c \in Caller, GotResponse(c) PROVE GateInv'
  BY <1>15, CallerAssumption, Zenon DEF GotResponse, MayResend, Goto
<1>16. ASSUME NEW c \in Caller, Reconnect(c), Shrinks PROVE GateInv'
  BY <1>16, CallerAssumption, Zenon DEF Reconnect, NextOpaque, Goto
<1>17. ASSUME NEW c \in Caller, SenderDropped(c) PROVE GateInv'
  BY <1>17, CallerAssumption, Zenon DEF SenderDropped, FailWith, Goto
<1>18. ASSUME NEW c \in Caller, WaitExpires(c) PROVE GateInv'
  BY <1>18, CallerAssumption, Zenon DEF WaitExpires, Goto
<1>19. ASSUME NEW c \in Caller, CancelExpired(c) PROVE GateInv'
  BY <1>19, CallerAssumption, Zenon DEF CancelExpired, Goto
<1>20. ASSUME NEW c \in Caller, CloseSocketOnTimeout(c), Shrinks PROVE GateInv'
  BY <1>20, CallerAssumption, Zenon DEF CloseSocketOnTimeout, Goto
<1>21. ASSUME NEW c \in Caller, Cancel(c) PROVE GateInv'
  BY <1>21, CallerAssumption, Zenon DEF Cancel, Goto
<1>22. CASE UNCHANGED <<pc, gate, addr>>
  BY <1>22, Zenon
<1> HIDE <1>0 DEF GateInv, GateHeld, NoCaller, Shrinks
<1>23. CASE Environment
  BY <1>22, <1>23, Zenon
     DEF Environment, DispatchResponse, DispatchRequest, ReaderExits, WriterExits,
     OnConnectionLost
<1>24. CASE Lifecycle
  BY <1>22, <1>24, Zenon
     DEF Lifecycle, SweepIdle, SweeperEnds, CloseByAddress, ShutdownSwap, ShutdownSnapshot,
     ShutdownClose, ShutdownClear, Start
<1>25. CASE UNCHANGED vars
  BY <1>22, <1>25, Zenon DEF vars
<1>26. QED
  BY ClosersShrink, <1>1, <1>2, <1>3, <1>4, <1>5, <1>6, <1>7, <1>8, <1>9, <1>10, <1>11,
     <1>12, <1>13, <1>14, <1>15, <1>16, <1>17, <1>18, <1>19, <1>20, <1>21, <1>22, <1>23,
     <1>24, <1>25, Zenon
     DEF Next, CallStep, Connect, Write

\* A call between connect and publish holds the gate, so nobody else
\* publishes for its address; and no connection comes back to life.
LEMMA ConnectorStep == IInv /\ [Next]_vars => OneConnector'
<1> SUFFICES ASSUME IInv, [Next]_vars PROVE OneConnector'
  BY Zenon
<1>0. /\ pc \in [Caller -> Location]
      /\ addr \in [Caller -> Addr]
      /\ conns \in [Addr -> Nat]
      /\ alive \in SUBSET Nat
      /\ held \in [Caller -> Nat]
      /\ nextConn \in Nat \ {0}
      /\ GateInv
      /\ OneConnector
      /\ FreshConn
  BY Zenon DEF IInv, TypeOK
<1> USE <1>0 DEF GateInv, GateHeld, OneConnector, Existing, FreshConn, NoConn, NoCaller,
     GateFree, Shrinks, connVars, lifeVars, callVars
<1>1. ASSUME NEW c \in Caller, NEW k \in CallKind, Invoke(c, k) PROVE OneConnector'
  BY <1>1, CallerAssumption, Zenon DEF Invoke, NextOpaque, Goto
<1>2. ASSUME NEW c \in Caller, RegisterPending(c) PROVE OneConnector'
  BY <1>2, CallerAssumption, Zenon DEF RegisterPending, Goto
<1>3. ASSUME NEW c \in Caller, CheckRunning(c) PROVE OneConnector'
  BY <1>3, CallerAssumption, Zenon DEF CheckRunning, IsRunning, FailWith, Goto
<1>4. ASSUME NEW c \in Caller, Lookup(c) PROVE OneConnector'
  BY <1>4, CallerAssumption, Zenon DEF Lookup, Goto
<1>5. ASSUME NEW c \in Caller, AcquireGate(c) PROVE OneConnector'
  BY <1>5, CallerAssumption, Zenon DEF AcquireGate, GateFree, Goto
<1>6. ASSUME NEW c \in Caller, Recheck(c) PROVE OneConnector'
  BY <1>6, CallerAssumption, Zenon DEF Recheck, ReleaseGate, Goto
<1>7. ASSUME NEW c \in Caller, ConnectFails(c) PROVE OneConnector'
  BY <1>7, CallerAssumption, Zenon DEF ConnectFails, ReleaseGate, FailWith, Goto
<1>8. ASSUME NEW c \in Caller, ConnectOk(c) PROVE OneConnector'
  BY <1>8, CallerAssumption DEF ConnectOk, Goto
<1>9. ASSUME NEW c \in Caller, Publish(c) PROVE OneConnector'
  BY <1>9, CallerAssumption DEF Publish, Loser, ReleaseGate, Goto
<1>10. ASSUME NEW c \in Caller, EnsureSweeper(c) PROVE OneConnector'
  BY <1>10, CallerAssumption, Zenon DEF EnsureSweeper, SweeperSlot, ReleaseGate, Goto
<1>11. ASSUME NEW c \in Caller, WriteOk(c) PROVE OneConnector'
  BY <1>11, CallerAssumption, Zenon DEF WriteOk, Goto
<1>12. ASSUME NEW c \in Caller, WriteFails(c) PROVE OneConnector'
  BY <1>12, CallerAssumption, Zenon DEF WriteFails, Goto
<1>13. ASSUME NEW c \in Caller, CloseAfterWriteFailure(c), Shrinks PROVE OneConnector'
  BY <1>13, CallerAssumption DEF CloseAfterWriteFailure, FailWith, Goto
<1>14. ASSUME NEW c \in Caller, AttachPendingConn(c) PROVE OneConnector'
  BY <1>14, CallerAssumption, Zenon DEF AttachPendingConn, Goto
<1>15. ASSUME NEW c \in Caller, GotResponse(c) PROVE OneConnector'
  BY <1>15, CallerAssumption, Zenon DEF GotResponse, MayResend, Goto
<1>16. ASSUME NEW c \in Caller, Reconnect(c), Shrinks PROVE OneConnector'
  BY <1>16, CallerAssumption DEF Reconnect, NextOpaque, Goto
<1>17. ASSUME NEW c \in Caller, SenderDropped(c) PROVE OneConnector'
  BY <1>17, CallerAssumption, Zenon DEF SenderDropped, FailWith, Goto
<1>18. ASSUME NEW c \in Caller, WaitExpires(c) PROVE OneConnector'
  BY <1>18, CallerAssumption, Zenon DEF WaitExpires, Goto
<1>19. ASSUME NEW c \in Caller, CancelExpired(c) PROVE OneConnector'
  BY <1>19, CallerAssumption, Zenon DEF CancelExpired, Goto
<1>20. ASSUME NEW c \in Caller, CloseSocketOnTimeout(c), Shrinks PROVE OneConnector'
  BY <1>20, CallerAssumption DEF CloseSocketOnTimeout, Goto
<1>21. ASSUME NEW c \in Caller, Cancel(c) PROVE OneConnector'
  BY <1>21, CallerAssumption, Zenon DEF Cancel, Goto
<1>22. ASSUME NEW f \in wire, NEW code \in {"ok", "goaway"}, DispatchResponse(f, code)
      PROVE  OneConnector'
  BY <1>22, CallerAssumption, Zenon DEF DispatchResponse, Dispatch
<1>23. ASSUME NEW k \in reading, NEW o \in BrokerOpaque, DispatchRequest(k, o)
      PROVE  OneConnector'
  BY <1>23, CallerAssumption, Zenon DEF DispatchRequest, Dispatch
<1>24. ASSUME NEW k \in reading, ReaderExits(k) PROVE OneConnector'
  BY <1>24, CallerAssumption, Zenon DEF ReaderExits
<1>25. ASSUME NEW k \in writing, WriterExits(k) PROVE OneConnector'
  BY <1>25, CallerAssumption, Zenon DEF WriterExits
<1>26. ASSUME NEW t \in leaving, OnConnectionLost(t), Shrinks PROVE OneConnector'
  <2>1. UNCHANGED <<pc, addr, held, nextConn>>
    BY <1>26, Zenon DEF OnConnectionLost
  <2>2. QED
    BY <1>26, <2>1
<1>27. ASSUME NEW S \in SUBSET Addr, SweepIdle(S), Shrinks PROVE OneConnector'
  BY <1>27, CallerAssumption DEF SweepIdle
<1>28. ASSUME NEW a \in Addr, CloseByAddress(a), Shrinks PROVE OneConnector'
  BY <1>28, CallerAssumption DEF CloseByAddress
<1>29. ASSUME NEW a \in Addr, ShutdownClose(a), Shrinks PROVE OneConnector'
  BY <1>29, CallerAssumption DEF ShutdownClose
<1>30. CASE UNCHANGED <<pc, addr, conns, alive>>
  BY <1>30, Zenon
<1> HIDE <1>0 DEF GateInv, GateHeld, OneConnector, Existing, FreshConn, NoConn, NoCaller,
     GateFree, Shrinks
<1>31. CASE Environment
  BY ClosersShrink, <1>30, <1>22, <1>23, <1>24, <1>25, <1>26, <1>31, Zenon
     DEF Environment
<1>32. CASE Lifecycle
  BY ClosersShrink, <1>30, <1>27, <1>28, <1>29, <1>32, Zenon
     DEF Lifecycle, SweeperEnds, ShutdownSwap, ShutdownSnapshot, ShutdownClear, Start
<1>33. CASE UNCHANGED vars
  BY <1>30, <1>33, Zenon DEF vars
<1>34. QED
  BY ClosersShrink, <1>1, <1>2, <1>3, <1>4, <1>5, <1>6, <1>7, <1>8, <1>9, <1>10, <1>11,
     <1>12, <1>13, <1>14, <1>15, <1>16, <1>17, <1>18, <1>19, <1>20, <1>21, <1>30, <1>31,
     <1>32, <1>33, Zenon
     DEF Next, CallStep, Connect, Write

\* A fresh connection stays private until it is published.
LEMMA PrivateStep == IInv /\ [Next]_vars => PrivateConn'
<1> SUFFICES ASSUME IInv, [Next]_vars PROVE PrivateConn'
  BY Zenon
<1>0. /\ pc \in [Caller -> Location]
      /\ addr \in [Caller -> Addr]
      /\ conns \in [Addr -> Nat]
      /\ alive \in SUBSET Nat
      /\ held \in [Caller -> Nat]
      /\ nextConn \in Nat \ {0}
      /\ PrivateConn
      /\ FreshConn
      /\ OneConnector
  BY Zenon DEF IInv, TypeOK
<1> USE <1>0 DEF PrivateConn, OneConnector, FreshConn, NoConn, Shrinks, connVars, lifeVars,
     callVars
<1>1. ASSUME NEW c \in Caller, NEW k \in CallKind, Invoke(c, k) PROVE PrivateConn'
  BY <1>1, Zenon DEF Invoke, NextOpaque, Goto
<1>2. ASSUME NEW c \in Caller, RegisterPending(c) PROVE PrivateConn'
  BY <1>2, Zenon DEF RegisterPending, Goto
<1>3. ASSUME NEW c \in Caller, CheckRunning(c) PROVE PrivateConn'
  BY <1>3, Zenon DEF CheckRunning, IsRunning, FailWith, Goto
<1>4. ASSUME NEW c \in Caller, Lookup(c) PROVE PrivateConn'
  BY <1>4 DEF Lookup, Goto
<1>5. ASSUME NEW c \in Caller, AcquireGate(c) PROVE PrivateConn'
  BY <1>5, Zenon DEF AcquireGate, GateFree, Goto
<1>6. ASSUME NEW c \in Caller, Recheck(c) PROVE PrivateConn'
  BY <1>6 DEF Recheck, ReleaseGate, Goto
<1>7. ASSUME NEW c \in Caller, ConnectFails(c) PROVE PrivateConn'
  BY <1>7, Zenon DEF ConnectFails, ReleaseGate, FailWith, Goto
<1>8. ASSUME NEW c \in Caller, ConnectOk(c) PROVE PrivateConn'
  BY <1>8 DEF ConnectOk, Goto
<1>9. ASSUME NEW c \in Caller, Publish(c) PROVE PrivateConn'
  BY <1>9, Zenon DEF Publish, Loser, ReleaseGate, Goto
<1>10. ASSUME NEW c \in Caller, EnsureSweeper(c) PROVE PrivateConn'
  BY <1>10, Zenon DEF EnsureSweeper, SweeperSlot, ReleaseGate, Goto
<1>11. ASSUME NEW c \in Caller, WriteOk(c) PROVE PrivateConn'
  BY <1>11, Zenon DEF WriteOk, Goto
<1>12. ASSUME NEW c \in Caller, WriteFails(c) PROVE PrivateConn'
  BY <1>12, Zenon DEF WriteFails, Goto
<1>13. ASSUME NEW c \in Caller, CloseAfterWriteFailure(c), Shrinks PROVE PrivateConn'
  BY <1>13 DEF CloseAfterWriteFailure, FailWith, Goto
<1>14. ASSUME NEW c \in Caller, AttachPendingConn(c) PROVE PrivateConn'
  BY <1>14, Zenon DEF AttachPendingConn, Goto
<1>15. ASSUME NEW c \in Caller, GotResponse(c) PROVE PrivateConn'
  BY <1>15, Zenon DEF GotResponse, MayResend, Goto
<1>16. ASSUME NEW c \in Caller, Reconnect(c), Shrinks PROVE PrivateConn'
  BY <1>16 DEF Reconnect, NextOpaque, Goto
<1>17. ASSUME NEW c \in Caller, SenderDropped(c) PROVE PrivateConn'
  BY <1>17, Zenon DEF SenderDropped, FailWith, Goto
<1>18. ASSUME NEW c \in Caller, WaitExpires(c) PROVE PrivateConn'
  BY <1>18, Zenon DEF WaitExpires, Goto
<1>19. ASSUME NEW c \in Caller, CancelExpired(c) PROVE PrivateConn'
  BY <1>19, Zenon DEF CancelExpired, Goto
<1>20. ASSUME NEW c \in Caller, CloseSocketOnTimeout(c), Shrinks PROVE PrivateConn'
  BY <1>20 DEF CloseSocketOnTimeout, Goto
<1>21. ASSUME NEW c \in Caller, Cancel(c) PROVE PrivateConn'
  BY <1>21, Zenon DEF Cancel, Goto
<1>22. ASSUME NEW f \in wire, NEW code \in {"ok", "goaway"}, DispatchResponse(f, code)
      PROVE  PrivateConn'
  BY <1>22, Zenon DEF DispatchResponse, Dispatch
<1>23. ASSUME NEW k \in reading, NEW o \in BrokerOpaque, DispatchRequest(k, o)
      PROVE  PrivateConn'
  BY <1>23, Zenon DEF DispatchRequest, Dispatch
<1>24. ASSUME NEW k \in reading, ReaderExits(k) PROVE PrivateConn'
  BY <1>24, Zenon DEF ReaderExits
<1>25. ASSUME NEW k \in writing, WriterExits(k) PROVE PrivateConn'
  BY <1>25, Zenon DEF WriterExits
<1>26. ASSUME NEW t \in leaving, OnConnectionLost(t), Shrinks PROVE PrivateConn'
  <2>1. UNCHANGED <<pc, held, addr, nextConn>>
    BY <1>26, Zenon DEF OnConnectionLost
  <2>2. QED
    BY <1>26, <2>1
<1>27. ASSUME NEW S \in SUBSET Addr, SweepIdle(S), Shrinks PROVE PrivateConn'
  BY <1>27 DEF SweepIdle
<1>28. ASSUME NEW a \in Addr, CloseByAddress(a), Shrinks PROVE PrivateConn'
  BY <1>28 DEF CloseByAddress
<1>29. ASSUME NEW a \in Addr, ShutdownClose(a), Shrinks PROVE PrivateConn'
  BY <1>29 DEF ShutdownClose
<1>30. CASE UNCHANGED <<pc, held, conns>>
  BY <1>30, Zenon
<1> HIDE <1>0 DEF PrivateConn, OneConnector, FreshConn, NoConn, Shrinks
<1>31. CASE Environment
  BY ClosersShrink, <1>30, <1>22, <1>23, <1>24, <1>25, <1>26, <1>31, Zenon
     DEF Environment
<1>32. CASE Lifecycle
  BY ClosersShrink, <1>30, <1>27, <1>28, <1>29, <1>32, Zenon
     DEF Lifecycle, SweeperEnds, ShutdownSwap, ShutdownSnapshot, ShutdownClear, Start
<1>33. CASE UNCHANGED vars
  BY <1>30, <1>33, Zenon DEF vars
<1>34. QED
  BY ClosersShrink, <1>1, <1>2, <1>3, <1>4, <1>5, <1>6, <1>7, <1>8, <1>9, <1>10, <1>11,
     <1>12, <1>13, <1>14, <1>15, <1>16, <1>17, <1>18, <1>19, <1>20, <1>21, <1>30, <1>31,
     <1>32, <1>33, Zenon
     DEF Next, CallStep, Connect, Write

\* Whoever unpublishes a connection, or replaces it, also stops its tasks.
LEMMA SocketsStep == IInv /\ [Next]_vars => SocketsAccounted'
<1> SUFFICES ASSUME IInv, [Next]_vars PROVE SocketsAccounted'
  BY Zenon
<1>0. /\ pc \in [Caller -> Location]
      /\ addr \in [Caller -> Addr]
      /\ conns \in [Addr -> Nat]
      /\ held \in [Caller -> Nat]
      /\ nextConn \in Nat \ {0}
      /\ PrivateConn
      /\ OneConnector
      /\ SocketsAccounted
  BY Zenon DEF IInv, TypeOK
<1>p. /\ \A k \in Published : k # NoConn /\ \E a \in Addr : conns[a] = k
      /\ \A a \in Addr : conns'[a] # NoConn => conns'[a] \in Published'
      /\ conns' = conns => Published' = Published
  BY Zenon DEF Published
<1> USE <1>0, <1>p DEF PrivateConn, OneConnector, SocketsAccounted, NoConn, Shrinks, connVars,
     lifeVars, callVars
<1>1. ASSUME NEW c \in Caller, NEW k \in CallKind, Invoke(c, k) PROVE SocketsAccounted'
  BY <1>1, Zenon DEF Invoke, NextOpaque, Goto
<1>2. ASSUME NEW c \in Caller, RegisterPending(c) PROVE SocketsAccounted'
  BY <1>2, Zenon DEF RegisterPending, Goto
<1>3. ASSUME NEW c \in Caller, CheckRunning(c) PROVE SocketsAccounted'
  <2>1. \A d \in Caller : pc[d] = "publish" => pc'[d] = "publish" /\ held'[d] = held[d]
    BY <1>3, ZenonT(60) DEF CheckRunning, FailWith, Goto
  <2>2. UNCHANGED <<conns, reading, writing>>
    BY <1>3, Zenon DEF CheckRunning
  <2>3. QED
    BY <2>1, <2>2
<1>4. ASSUME NEW c \in Caller, Lookup(c) PROVE SocketsAccounted'
  <2>1. \A d \in Caller : pc[d] = "publish" => pc'[d] = "publish" /\ held'[d] = held[d]
    BY <1>4 DEF Lookup, Goto
  <2>2. UNCHANGED <<conns, reading, writing>>
    BY <1>4, Zenon DEF Lookup
  <2>3. QED
    BY <2>1, <2>2, ZenonT(60)
<1>5. ASSUME NEW c \in Caller, AcquireGate(c) PROVE SocketsAccounted'
  BY <1>5, Zenon DEF AcquireGate, GateFree, Goto
<1>6. ASSUME NEW c \in Caller, Recheck(c) PROVE SocketsAccounted'
  <2>1. \A d \in Caller : pc[d] = "publish" => pc'[d] = "publish" /\ held'[d] = held[d]
    BY <1>6 DEF Recheck, Goto
  <2>2. UNCHANGED <<conns, reading, writing>>
    BY <1>6, Zenon DEF Recheck
  <2>3. QED
    BY <2>1, <2>2, Zenon
<1>7. ASSUME NEW c \in Caller, ConnectFails(c) PROVE SocketsAccounted'
  BY <1>7, Zenon DEF ConnectFails, ReleaseGate, FailWith, Goto
<1>8. ASSUME NEW c \in Caller, ConnectOk(c) PROVE SocketsAccounted'
  BY <1>8 DEF ConnectOk, Goto
<1>9. ASSUME NEW c \in Caller, Publish(c) PROVE SocketsAccounted'
  BY <1>9 DEF Publish, Loser, ReleaseGate, Goto
<1>10. ASSUME NEW c \in Caller, EnsureSweeper(c) PROVE SocketsAccounted'
  BY <1>10, Zenon DEF EnsureSweeper, SweeperSlot, ReleaseGate, Goto
<1>11. ASSUME NEW c \in Caller, WriteOk(c) PROVE SocketsAccounted'
  <2>1. \A d \in Caller : pc[d] = "publish" => pc'[d] = "publish" /\ held'[d] = held[d]
    BY <1>11, ZenonT(60) DEF WriteOk, Goto
  <2>2. UNCHANGED <<conns, reading, writing>>
    BY <1>11, Zenon DEF WriteOk
  <2>3. QED
    BY <2>1, <2>2, Zenon
<1>12. ASSUME NEW c \in Caller, WriteFails(c) PROVE SocketsAccounted'
  BY <1>12, Zenon DEF WriteFails, Goto
<1>13. ASSUME NEW c \in Caller, CloseAfterWriteFailure(c), Shrinks PROVE SocketsAccounted'
  BY <1>13 DEF CloseAfterWriteFailure, FailWith, Goto
<1>14. ASSUME NEW c \in Caller, AttachPendingConn(c) PROVE SocketsAccounted'
  BY <1>14, Zenon DEF AttachPendingConn, Goto
<1>15. ASSUME NEW c \in Caller, GotResponse(c) PROVE SocketsAccounted'
  <2>1. \A d \in Caller : pc[d] = "publish" => pc'[d] = "publish" /\ held'[d] = held[d]
    BY <1>15, ZenonT(60) DEF GotResponse, Goto
  <2>2. UNCHANGED <<conns, reading, writing>>
    BY <1>15, Zenon DEF GotResponse
  <2>3. QED
    BY <2>1, <2>2, Zenon
<1>16. ASSUME NEW c \in Caller, Reconnect(c), Shrinks PROVE SocketsAccounted'
  BY <1>16 DEF Reconnect, NextOpaque, Goto
<1>17. ASSUME NEW c \in Caller, SenderDropped(c) PROVE SocketsAccounted'
  BY <1>17, Zenon DEF SenderDropped, FailWith, Goto
<1>18. ASSUME NEW c \in Caller, WaitExpires(c) PROVE SocketsAccounted'
  BY <1>18, Zenon DEF WaitExpires, Goto
<1>19. ASSUME NEW c \in Caller, CancelExpired(c) PROVE SocketsAccounted'
  BY <1>19, Zenon DEF CancelExpired, Goto
<1>20. ASSUME NEW c \in Caller, CloseSocketOnTimeout(c), Shrinks PROVE SocketsAccounted'
  BY <1>20 DEF CloseSocketOnTimeout, Goto
<1>21. ASSUME NEW c \in Caller, Cancel(c) PROVE SocketsAccounted'
  BY <1>21, Zenon DEF Cancel, Goto
<1>22. ASSUME NEW f \in wire, NEW code \in {"ok", "goaway"}, DispatchResponse(f, code)
      PROVE  SocketsAccounted'
  BY <1>22, Zenon DEF DispatchResponse, Dispatch
<1>23. ASSUME NEW k \in reading, NEW o \in BrokerOpaque, DispatchRequest(k, o)
      PROVE  SocketsAccounted'
  BY <1>23, Zenon DEF DispatchRequest, Dispatch
<1>24. ASSUME NEW k \in reading, ReaderExits(k) PROVE SocketsAccounted'
  BY <1>24, Zenon DEF ReaderExits
<1>25. ASSUME NEW k \in writing, WriterExits(k) PROVE SocketsAccounted'
  BY <1>25, Zenon DEF WriterExits
<1>26. ASSUME NEW t \in leaving, OnConnectionLost(t), Shrinks PROVE SocketsAccounted'
  <2>1. UNCHANGED <<pc, held, addr, nextConn>>
    BY <1>26, Zenon DEF OnConnectionLost
  <2>2. QED
    BY <1>26, <2>1
<1>27. ASSUME NEW S \in SUBSET Addr, SweepIdle(S), Shrinks PROVE SocketsAccounted'
  BY <1>27 DEF SweepIdle
<1>28. ASSUME NEW a \in Addr, CloseByAddress(a), Shrinks PROVE SocketsAccounted'
  BY <1>28 DEF CloseByAddress
<1>29. ASSUME NEW a \in Addr, ShutdownClose(a), Shrinks PROVE SocketsAccounted'
  BY <1>29 DEF ShutdownClose
<1>30. CASE UNCHANGED <<pc, held, conns, reading, writing>>
  BY <1>30, Zenon
<1> HIDE <1>0, <1>p DEF PrivateConn, OneConnector, SocketsAccounted, NoConn, Shrinks
<1>31. CASE Environment
  BY ClosersShrink, <1>30, <1>22, <1>23, <1>24, <1>25, <1>26, <1>31, Zenon
     DEF Environment
<1>32. CASE Lifecycle
  BY ClosersShrink, <1>30, <1>27, <1>28, <1>29, <1>32, Zenon
     DEF Lifecycle, SweeperEnds, ShutdownSwap, ShutdownSnapshot, ShutdownClear, Start
<1>33. CASE UNCHANGED vars
  BY <1>30, <1>33, Zenon DEF vars
<1>34. QED
  BY ClosersShrink, <1>1, <1>2, <1>3, <1>4, <1>5, <1>6, <1>7, <1>8, <1>9, <1>10, <1>11,
     <1>12, <1>13, <1>14, <1>15, <1>16, <1>17, <1>18, <1>19, <1>20, <1>21, <1>30, <1>31,
     <1>32, <1>33, Zenon
     DEF Next, CallStep, Connect, Write

-----------------------------------------------------------------------------
\* A new opaque is above all earlier ones.
LEMMA FreshOpaqueStep == IInv /\ [Next]_vars => FreshOpaque'
<1> SUFFICES ASSUME IInv, [Next]_vars PROVE FreshOpaque'
  BY Zenon
<1>0. /\ opq \in [Caller -> Nat]
      /\ nextOpaque \in Nat
      /\ wire \in SUBSET Frame
      /\ FreshOpaque
      /\ OpaqueUnique
  BY Zenon DEF IInv, TypeOK
<1> USE <1>0 DEF FreshOpaque, Frame, Shrinks, connVars, lifeVars, callVars
<1>1. ASSUME NEW c \in Caller, NEW k \in CallKind, Invoke(c, k) PROVE FreshOpaque'
  BY <1>1 DEF Invoke, NextOpaque, Goto
<1>2. ASSUME NEW c \in Caller, WriteOk(c) PROVE FreshOpaque'
  <2>1. \A f \in wire' : f \in wire \/ f.opaque = opq[c]
    BY <1>2, SMTT(60) DEF WriteOk
  <2>2. opq[c] > 0
    BY <1>2, Zenon DEF WriteOk, OpaqueUnique
  <2>3. QED
    BY <1>2, <2>1, <2>2, Zenon DEF WriteOk
<1>3. ASSUME NEW c \in Caller, Reconnect(c), Shrinks PROVE FreshOpaque'
  BY <1>3 DEF Reconnect, NextOpaque, Goto
<1>4. ASSUME NEW f \in wire, NEW code \in {"ok", "goaway"}, DispatchResponse(f, code)
      PROVE  FreshOpaque'
  BY <1>4, Zenon DEF DispatchResponse, Dispatch
<1>5. CASE UNCHANGED <<opq, nextOpaque, wire>>
  BY <1>5, Zenon
<1> HIDE <1>0 DEF FreshOpaque, Frame, Shrinks
<1>6. ASSUME NEW c \in Caller, CallStep(c)
      PROVE  UNCHANGED <<opq, nextOpaque, wire>> \/
     WriteOk(c) \/ Reconnect(c)
  BY <1>6, Zenon DEF CallStep, Connect, Write, RegisterPending, CheckRunning, Lookup, AcquireGate,
     Recheck, ConnectFails, ConnectOk, Publish, EnsureSweeper, WriteFails,
     CloseAfterWriteFailure, AttachPendingConn, GotResponse, SenderDropped, WaitExpires,
     CancelExpired, CloseSocketOnTimeout, Cancel
<1>7. CASE Environment
  BY <1>5, <1>4, <1>7, Zenon
     DEF Environment, DispatchRequest, ReaderExits, WriterExits, OnConnectionLost
<1>8. CASE Lifecycle
  BY <1>5, <1>8, Zenon
     DEF Lifecycle, SweepIdle, SweeperEnds, CloseByAddress, ShutdownSwap, ShutdownSnapshot,
     ShutdownClose, ShutdownClear, Start
<1>9. CASE UNCHANGED vars
  BY <1>5, <1>9, Zenon DEF vars
<1>10. QED
  BY ClosersShrink, <1>1, <1>2, <1>3, <1>6, <1>5, <1>7, <1>8, <1>9, Zenon
     DEF Next

\* No two attempts ever share an opaque.
LEMMA OpaqueStep == IInv /\ [Next]_vars => OpaqueUnique'
<1> SUFFICES ASSUME IInv, [Next]_vars PROVE OpaqueUnique'
  BY Zenon
<1>0. /\ opq \in [Caller -> Nat]
      /\ nextOpaque \in Nat
      /\ wire \in SUBSET Frame
      /\ pc \in [Caller -> Location]
      /\ attempt \in [Caller -> {1, 2}]
      /\ FreshOpaque
      /\ OpaqueUnique
  BY Zenon DEF IInv, TypeOK
<1> USE <1>0 DEF FreshOpaque, OpaqueUnique, Frame, Shrinks, connVars, lifeVars, callVars
<1>1. ASSUME NEW c \in Caller, NEW k \in CallKind, Invoke(c, k) PROVE OpaqueUnique'
  BY <1>1 DEF Invoke, NextOpaque, Goto
<1>2. ASSUME NEW c \in Caller, RegisterPending(c) PROVE OpaqueUnique'
  BY <1>2, Zenon DEF RegisterPending, Goto
<1>3. ASSUME NEW c \in Caller, CheckRunning(c) PROVE OpaqueUnique'
  BY <1>3, Zenon DEF CheckRunning, IsRunning, FailWith, Goto
<1>4. ASSUME NEW c \in Caller, Lookup(c) PROVE OpaqueUnique'
  BY <1>4, Zenon DEF Lookup, Goto
<1>5. ASSUME NEW c \in Caller, AcquireGate(c) PROVE OpaqueUnique'
  BY <1>5, Zenon DEF AcquireGate, GateFree, Goto
<1>6. ASSUME NEW c \in Caller, Recheck(c) PROVE OpaqueUnique'
  BY <1>6, Zenon DEF Recheck, ReleaseGate, Goto
<1>7. ASSUME NEW c \in Caller, ConnectFails(c) PROVE OpaqueUnique'
  BY <1>7, Zenon DEF ConnectFails, ReleaseGate, FailWith, Goto
<1>8. ASSUME NEW c \in Caller, ConnectOk(c) PROVE OpaqueUnique'
  BY <1>8, Zenon DEF ConnectOk, Goto
<1>9. ASSUME NEW c \in Caller, Publish(c) PROVE OpaqueUnique'
  BY <1>9, Zenon DEF Publish, Loser, ReleaseGate, Goto
<1>10. ASSUME NEW c \in Caller, EnsureSweeper(c) PROVE OpaqueUnique'
  BY <1>10, Zenon DEF EnsureSweeper, SweeperSlot, ReleaseGate, Goto
<1>11. ASSUME NEW c \in Caller, WriteOk(c) PROVE OpaqueUnique'
  BY <1>11, SMTT(60) DEF WriteOk, Goto
<1>12. ASSUME NEW c \in Caller, WriteFails(c) PROVE OpaqueUnique'
  BY <1>12, Zenon DEF WriteFails, Goto
<1>13. ASSUME NEW c \in Caller, CloseAfterWriteFailure(c), Shrinks PROVE OpaqueUnique'
  BY <1>13, Zenon DEF CloseAfterWriteFailure, FailWith, Goto
<1>14. ASSUME NEW c \in Caller, AttachPendingConn(c) PROVE OpaqueUnique'
  BY <1>14, Zenon DEF AttachPendingConn, Goto
<1>15. ASSUME NEW c \in Caller, GotResponse(c) PROVE OpaqueUnique'
  BY <1>15, ZenonT(60) DEF GotResponse, MayResend, Goto
<1>16. ASSUME NEW c \in Caller, Reconnect(c), Shrinks PROVE OpaqueUnique'
  BY <1>16 DEF Reconnect, NextOpaque, Goto
<1>17. ASSUME NEW c \in Caller, SenderDropped(c) PROVE OpaqueUnique'
  BY <1>17, Zenon DEF SenderDropped, FailWith, Goto
<1>18. ASSUME NEW c \in Caller, WaitExpires(c) PROVE OpaqueUnique'
  BY <1>18, Zenon DEF WaitExpires, Goto
<1>19. ASSUME NEW c \in Caller, CancelExpired(c) PROVE OpaqueUnique'
  BY <1>19, Zenon DEF CancelExpired, Goto
<1>20. ASSUME NEW c \in Caller, CloseSocketOnTimeout(c), Shrinks PROVE OpaqueUnique'
  BY <1>20, Zenon DEF CloseSocketOnTimeout, Goto
<1>21. ASSUME NEW c \in Caller, Cancel(c) PROVE OpaqueUnique'
  BY <1>21, Zenon DEF Cancel, Goto
<1>22. ASSUME NEW f \in wire, NEW code \in {"ok", "goaway"}, DispatchResponse(f, code)
      PROVE  OpaqueUnique'
  BY <1>22, Zenon DEF DispatchResponse, Dispatch
<1>23. CASE UNCHANGED <<opq, wire, pc, attempt>>
  BY <1>23, Zenon
<1> HIDE <1>0 DEF FreshOpaque, OpaqueUnique, Frame, Shrinks
<1>24. CASE Environment
  BY <1>23, <1>22, <1>24, Zenon
     DEF Environment, DispatchRequest, ReaderExits, WriterExits, OnConnectionLost
<1>25. CASE Lifecycle
  BY <1>23, <1>25, Zenon
     DEF Lifecycle, SweepIdle, SweeperEnds, CloseByAddress, ShutdownSwap, ShutdownSnapshot,
     ShutdownClose, ShutdownClear, Start
<1>26. CASE UNCHANGED vars
  BY <1>23, <1>26, Zenon DEF vars
<1>27. QED
  BY ClosersShrink, <1>1, <1>2, <1>3, <1>4, <1>5, <1>6, <1>7, <1>8, <1>9, <1>10, <1>11,
     <1>12, <1>13, <1>14, <1>15, <1>16, <1>17, <1>18, <1>19, <1>20, <1>21, <1>23, <1>24,
     <1>25, <1>26, Zenon
     DEF Next, CallStep, Connect, Write

\* Only sync calls wait, and only first attempts are resent.
LEMMA CallLemma == IInv /\ [Next]_vars => CallInv'
<1> SUFFICES ASSUME IInv, [Next]_vars PROVE CallInv'
  BY Zenon
<1>0. /\ pc \in [Caller -> Location]
      /\ kind \in [Caller -> {"sync", "oneway"}]
      /\ attempt \in [Caller -> {1, 2}]
      /\ CallInv
  BY Zenon DEF IInv, TypeOK
<1> USE <1>0 DEF CallInv, Shrinks, connVars, lifeVars, callVars
<1>1. ASSUME NEW c \in Caller, NEW k \in CallKind, Invoke(c, k) PROVE CallInv'
  BY <1>1, Zenon DEF Invoke, NextOpaque, Goto
<1>2. ASSUME NEW c \in Caller, RegisterPending(c) PROVE CallInv'
  BY <1>2, Zenon DEF RegisterPending, Goto
<1>3. ASSUME NEW c \in Caller, CheckRunning(c) PROVE CallInv'
  BY <1>3, Zenon DEF CheckRunning, IsRunning, FailWith, Goto
<1>4. ASSUME NEW c \in Caller, Lookup(c) PROVE CallInv'
  BY <1>4, Zenon DEF Lookup, Goto
<1>5. ASSUME NEW c \in Caller, AcquireGate(c) PROVE CallInv'
  BY <1>5, Zenon DEF AcquireGate, GateFree, Goto
<1>6. ASSUME NEW c \in Caller, Recheck(c) PROVE CallInv'
  BY <1>6, Zenon DEF Recheck, ReleaseGate, Goto
<1>7. ASSUME NEW c \in Caller, ConnectFails(c) PROVE CallInv'
  BY <1>7, Zenon DEF ConnectFails, ReleaseGate, FailWith, Goto
<1>8. ASSUME NEW c \in Caller, ConnectOk(c) PROVE CallInv'
  BY <1>8, Zenon DEF ConnectOk, Goto
<1>9. ASSUME NEW c \in Caller, Publish(c) PROVE CallInv'
  BY <1>9, Zenon DEF Publish, Loser, ReleaseGate, Goto
<1>10. ASSUME NEW c \in Caller, EnsureSweeper(c) PROVE CallInv'
  BY <1>10, Zenon DEF EnsureSweeper, SweeperSlot, ReleaseGate, Goto
<1>11. ASSUME NEW c \in Caller, WriteOk(c) PROVE CallInv'
  BY <1>11, Zenon DEF WriteOk, Goto
<1>12. ASSUME NEW c \in Caller, WriteFails(c) PROVE CallInv'
  BY <1>12, Zenon DEF WriteFails, Goto
<1>13. ASSUME NEW c \in Caller, CloseAfterWriteFailure(c), Shrinks PROVE CallInv'
  BY <1>13, Zenon DEF CloseAfterWriteFailure, FailWith, Goto
<1>14. ASSUME NEW c \in Caller, AttachPendingConn(c) PROVE CallInv'
  BY <1>14, Zenon DEF AttachPendingConn, Goto
<1>15. ASSUME NEW c \in Caller, GotResponse(c) PROVE CallInv'
  BY <1>15, Zenon DEF GotResponse, MayResend, Goto
<1>16. ASSUME NEW c \in Caller, Reconnect(c), Shrinks PROVE CallInv'
  BY <1>16, Zenon DEF Reconnect, NextOpaque, Goto
<1>17. ASSUME NEW c \in Caller, SenderDropped(c) PROVE CallInv'
  BY <1>17, Zenon DEF SenderDropped, FailWith, Goto
<1>18. ASSUME NEW c \in Caller, WaitExpires(c) PROVE CallInv'
  BY <1>18, Zenon DEF WaitExpires, Goto
<1>19. ASSUME NEW c \in Caller, CancelExpired(c) PROVE CallInv'
  BY <1>19, Zenon DEF CancelExpired, Goto
<1>20. ASSUME NEW c \in Caller, CloseSocketOnTimeout(c), Shrinks PROVE CallInv'
  BY <1>20, Zenon DEF CloseSocketOnTimeout, Goto
<1>21. ASSUME NEW c \in Caller, Cancel(c) PROVE CallInv'
  BY <1>21, Zenon DEF Cancel, Goto
<1>22. CASE UNCHANGED <<pc, kind, attempt>>
  BY <1>22, Zenon
<1> HIDE <1>0 DEF CallInv, Shrinks
<1>23. CASE Environment
  BY <1>22, <1>23, Zenon
     DEF Environment, DispatchResponse, DispatchRequest, ReaderExits, WriterExits,
     OnConnectionLost
<1>24. CASE Lifecycle
  BY <1>22, <1>24, Zenon
     DEF Lifecycle, SweepIdle, SweeperEnds, CloseByAddress, ShutdownSwap, ShutdownSnapshot,
     ShutdownClose, ShutdownClear, Start
<1>25. CASE UNCHANGED vars
  BY <1>22, <1>25, Zenon DEF vars
<1>26. QED
  BY ClosersShrink, <1>1, <1>2, <1>3, <1>4, <1>5, <1>6, <1>7, <1>8, <1>9, <1>10, <1>11,
     <1>12, <1>13, <1>14, <1>15, <1>16, <1>17, <1>18, <1>19, <1>20, <1>21, <1>22, <1>23,
     <1>24, <1>25, Zenon
     DEF Next, CallStep, Connect, Write

\* Every way out of an attempt takes its entry along.
LEMMA PendingStep == IInv /\ [Next]_vars => PendingReclaimed'
<1> SUFFICES ASSUME IInv, [Next]_vars PROVE PendingReclaimed'
  BY Zenon
<1>0. /\ pending \in SUBSET Pending
      /\ pc \in [Caller -> Location]
      /\ opq \in [Caller -> Nat]
      /\ kind \in [Caller -> {"sync", "oneway"}]
      /\ FreshOpaque
      /\ OpaqueUnique
      /\ PendingReclaimed
      /\ CallInv
      /\ RxInv
  BY Zenon DEF IInv, TypeOK
<1> USE <1>0 DEF Pending, OpaqueUnique, FreshOpaque, PendingReclaimed, InFlight, CallInv,
     RxInv, Shrinks, connVars, lifeVars, callVars
<1>1. ASSUME NEW c \in Caller, NEW k \in CallKind, Invoke(c, k) PROVE PendingReclaimed'
  BY <1>1, Zenon DEF Invoke, NextOpaque, Goto
<1>2. ASSUME NEW c \in Caller, RegisterPending(c) PROVE PendingReclaimed'
  <2>1. \A p \in pending' : p \in pending \/ (p.owner = c /\ p.opaque = opq[c])
    BY <1>2, RegisterAdds, Zenon
  <2>2. \A p \in pending : p.owner # c /\ p.owner \in Caller
    BY <1>2, Zenon DEF RegisterPending, PendingReclaimed, InFlight
  <2>3. pc[c] = "register" /\ pc' = [pc EXCEPT ![c] = "check"] /\ UNCHANGED <<opq, kind>>
    BY <1>2, Zenon DEF RegisterPending, Goto
  <2>4. QED
    BY <2>1, <2>2, <2>3, ZenonT(60)
<1>3. ASSUME NEW c \in Caller, CheckRunning(c) PROVE PendingReclaimed'
  BY <1>3, ZenonT(60) DEF CheckRunning, IsRunning, FailWith, Goto
<1>4. ASSUME NEW c \in Caller, Lookup(c) PROVE PendingReclaimed'
  BY <1>4, Zenon DEF Lookup, Goto
<1>5. ASSUME NEW c \in Caller, AcquireGate(c) PROVE PendingReclaimed'
  BY <1>5, Zenon DEF AcquireGate, GateFree, Goto
<1>6. ASSUME NEW c \in Caller, Recheck(c) PROVE PendingReclaimed'
  BY <1>6, Zenon DEF Recheck, ReleaseGate, Goto
<1>7. ASSUME NEW c \in Caller, ConnectFails(c) PROVE PendingReclaimed'
  BY <1>7, ZenonT(60) DEF ConnectFails, ReleaseGate, FailWith, Goto
<1>8. ASSUME NEW c \in Caller, ConnectOk(c) PROVE PendingReclaimed'
  BY <1>8, Zenon DEF ConnectOk, Goto
<1>9. ASSUME NEW c \in Caller, Publish(c) PROVE PendingReclaimed'
  BY <1>9, ZenonT(60) DEF Publish, Loser, ReleaseGate, Goto
<1>10. ASSUME NEW c \in Caller, EnsureSweeper(c) PROVE PendingReclaimed'
  BY <1>10, Zenon DEF EnsureSweeper, SweeperSlot, ReleaseGate, Goto
<1>11. ASSUME NEW c \in Caller, WriteOk(c) PROVE PendingReclaimed'
  BY <1>11, Zenon DEF WriteOk, Goto
<1>12. ASSUME NEW c \in Caller, WriteFails(c) PROVE PendingReclaimed'
  BY <1>12, Zenon DEF WriteFails, Goto
<1>13. ASSUME NEW c \in Caller, CloseAfterWriteFailure(c), Shrinks PROVE PendingReclaimed'
  BY <1>13, Zenon DEF CloseAfterWriteFailure, FailWith, Goto
<1>14. ASSUME NEW c \in Caller, AttachPendingConn(c) PROVE PendingReclaimed'
  BY <1>14 DEF AttachPendingConn, Goto
<1>15. ASSUME NEW c \in Caller, GotResponse(c) PROVE PendingReclaimed'
  BY <1>15, ZenonT(60) DEF GotResponse, MayResend, Goto
<1>16. ASSUME NEW c \in Caller, Reconnect(c), Shrinks PROVE PendingReclaimed'
  BY <1>16, Zenon DEF Reconnect, NextOpaque, Goto
<1>17. ASSUME NEW c \in Caller, SenderDropped(c) PROVE PendingReclaimed'
  BY <1>17, Zenon DEF SenderDropped, FailWith, Goto
<1>18. ASSUME NEW c \in Caller, WaitExpires(c) PROVE PendingReclaimed'
  BY <1>18, Zenon DEF WaitExpires, Goto
<1>19. ASSUME NEW c \in Caller, CancelExpired(c) PROVE PendingReclaimed'
  BY <1>19, ZenonT(60) DEF CancelExpired, Goto
<1>20. ASSUME NEW c \in Caller, CloseSocketOnTimeout(c), Shrinks PROVE PendingReclaimed'
  BY <1>20, Zenon DEF CloseSocketOnTimeout, Goto
<1>21. ASSUME NEW c \in Caller, Cancel(c) PROVE PendingReclaimed'
  BY <1>21, ZenonT(60) DEF Cancel, Goto
<1>22. ASSUME NEW f \in wire, NEW code \in {"ok", "goaway"}, DispatchResponse(f, code)
      PROVE  PendingReclaimed'
  BY <1>22, Zenon DEF DispatchResponse, Dispatch
<1>23. ASSUME NEW k \in reading, NEW o \in BrokerOpaque, DispatchRequest(k, o)
      PROVE  PendingReclaimed'
  BY <1>23, Zenon DEF DispatchRequest, Dispatch
<1>24. ASSUME NEW t \in leaving, OnConnectionLost(t), Shrinks PROVE PendingReclaimed'
  <2>1. UNCHANGED <<pc, opq, kind>>
    BY <1>24, Zenon DEF OnConnectionLost
  <2>2. QED
    BY <1>24, <2>1, Zenon
<1>25. ASSUME NEW S \in SUBSET Addr, SweepIdle(S), Shrinks PROVE PendingReclaimed'
  BY <1>25, Zenon DEF SweepIdle
<1>26. ASSUME NEW a \in Addr, CloseByAddress(a), Shrinks PROVE PendingReclaimed'
  BY <1>26, Zenon DEF CloseByAddress
<1>27. ASSUME NEW a \in Addr, ShutdownClose(a), Shrinks PROVE PendingReclaimed'
  BY <1>27, Zenon DEF ShutdownClose
<1>28. CASE ShutdownClear
  BY <1>28, Zenon DEF ShutdownClear
<1>29. CASE UNCHANGED <<pending, pc, opq, kind>>
  BY <1>29, Zenon
<1> HIDE <1>0 DEF Pending, OpaqueUnique, FreshOpaque, PendingReclaimed, InFlight, CallInv,
     RxInv, Shrinks
<1>30. CASE Environment
  BY ClosersShrink, <1>29, <1>22, <1>23, <1>24, <1>30, Zenon
     DEF Environment, ReaderExits, WriterExits
<1>31. CASE Lifecycle
  BY ClosersShrink, <1>29, <1>25, <1>26, <1>27, <1>28, <1>31, Zenon
     DEF Lifecycle, SweeperEnds, ShutdownSwap, ShutdownSnapshot, Start
<1>32. CASE UNCHANGED vars
  BY <1>29, <1>32, Zenon DEF vars
<1>33. QED
  BY ClosersShrink, <1>1, <1>2, <1>3, <1>4, <1>5, <1>6, <1>7, <1>8, <1>9, <1>10, <1>11,
     <1>12, <1>13, <1>14, <1>15, <1>16, <1>17, <1>18, <1>19, <1>20, <1>21, <1>29, <1>30,
     <1>31, <1>32, Zenon
     DEF Next, CallStep, Connect, Write

\* dispatch pops the entry it completes.
LEMMA RxStep == IInv /\ [Next]_vars => RxInv'
<1> SUFFICES ASSUME IInv, [Next]_vars PROVE RxInv'
  BY Zenon
<1>0. /\ pending \in SUBSET Pending
      /\ pc \in [Caller -> Location]
      /\ opq \in [Caller -> Nat]
      /\ rx \in [Caller -> Response]
      /\ OpaqueUnique
      /\ PendingReclaimed
      /\ RxInv
  BY Zenon DEF IInv, TypeOK
<1> USE <1>0 DEF Pending, PendingReclaimed, InFlight, RxInv, Shrinks, connVars, lifeVars,
     callVars
<1>1. ASSUME NEW c \in Caller, NEW k \in CallKind, Invoke(c, k) PROVE RxInv'
  BY <1>1, Zenon DEF Invoke, NextOpaque, Goto
<1>2. ASSUME NEW c \in Caller, RegisterPending(c) PROVE RxInv'
  <2>1. \A p \in pending' : p \in pending \/ (p.owner = c /\ p.opaque = opq[c])
    BY <1>2, RegisterAdds, Zenon
  <2>2. \A p \in pending : p.owner # c /\ p.owner \in Caller
    BY <1>2, Zenon DEF RegisterPending, PendingReclaimed, InFlight
  <2>3. pc[c] = "register" /\ pc' = [pc EXCEPT ![c] = "check"] /\ UNCHANGED <<rx>>
    BY <1>2, Zenon DEF RegisterPending, Goto
  <2>4. QED
    BY <2>1, <2>2, <2>3, Zenon
<1>3. ASSUME NEW c \in Caller, CheckRunning(c) PROVE RxInv'
  BY <1>3, Zenon DEF CheckRunning, IsRunning, FailWith, Goto
<1>4. ASSUME NEW c \in Caller, Lookup(c) PROVE RxInv'
  BY <1>4, Zenon DEF Lookup, Goto
<1>5. ASSUME NEW c \in Caller, AcquireGate(c) PROVE RxInv'
  BY <1>5, Zenon DEF AcquireGate, GateFree, Goto
<1>6. ASSUME NEW c \in Caller, Recheck(c) PROVE RxInv'
  BY <1>6, Zenon DEF Recheck, ReleaseGate, Goto
<1>7. ASSUME NEW c \in Caller, ConnectFails(c) PROVE RxInv'
  BY <1>7, Zenon DEF ConnectFails, ReleaseGate, FailWith, Goto
<1>8. ASSUME NEW c \in Caller, ConnectOk(c) PROVE RxInv'
  BY <1>8, Zenon DEF ConnectOk, Goto
<1>9. ASSUME NEW c \in Caller, Publish(c) PROVE RxInv'
  BY <1>9, Zenon DEF Publish, Loser, ReleaseGate, Goto
<1>10. ASSUME NEW c \in Caller, EnsureSweeper(c) PROVE RxInv'
  BY <1>10, Zenon DEF EnsureSweeper, SweeperSlot, ReleaseGate, Goto
<1>11. ASSUME NEW c \in Caller, WriteOk(c) PROVE RxInv'
  BY <1>11, Zenon DEF WriteOk, Goto
<1>12. ASSUME NEW c \in Caller, WriteFails(c) PROVE RxInv'
  BY <1>12, Zenon DEF WriteFails, Goto
<1>13. ASSUME NEW c \in Caller, CloseAfterWriteFailure(c), Shrinks PROVE RxInv'
  BY <1>13, Zenon DEF CloseAfterWriteFailure, FailWith, Goto
<1>14. ASSUME NEW c \in Caller, AttachPendingConn(c) PROVE RxInv'
  BY <1>14 DEF AttachPendingConn, Goto
<1>15. ASSUME NEW c \in Caller, GotResponse(c) PROVE RxInv'
  BY <1>15, Zenon DEF GotResponse, MayResend, Goto
<1>16. ASSUME NEW c \in Caller, Reconnect(c), Shrinks PROVE RxInv'
  BY <1>16, Zenon DEF Reconnect, NextOpaque, Goto
<1>17. ASSUME NEW c \in Caller, SenderDropped(c) PROVE RxInv'
  BY <1>17, Zenon DEF SenderDropped, FailWith, Goto
<1>18. ASSUME NEW c \in Caller, WaitExpires(c) PROVE RxInv'
  BY <1>18, Zenon DEF WaitExpires, Goto
<1>19. ASSUME NEW c \in Caller, CancelExpired(c) PROVE RxInv'
  BY <1>19, Zenon DEF CancelExpired, Goto
<1>20. ASSUME NEW c \in Caller, CloseSocketOnTimeout(c), Shrinks PROVE RxInv'
  BY <1>20, Zenon DEF CloseSocketOnTimeout, Goto
<1>21. ASSUME NEW c \in Caller, Cancel(c) PROVE RxInv'
  BY <1>21, Zenon DEF Cancel, Goto
<1>22. ASSUME NEW f \in wire, NEW code \in {"ok", "goaway"}, DispatchResponse(f, code)
      PROVE  RxInv'
  <2>1. \A p \in pending' : p \in pending /\ p.opaque # f.opaque
    BY <1>22, Zenon DEF DispatchResponse, Dispatch
  <2>2. \A d \in Caller : rx'[d] = rx[d] \/ \E p \in pending : p.opaque = f.opaque /\ p.owner = d
    BY <1>22, Zenon DEF DispatchResponse, Dispatch
  <2>3. UNCHANGED <<pc, opq>>
    BY <1>22, Zenon DEF DispatchResponse
  <2>4. ASSUME NEW d \in Caller, NEW p \in pending, p.opaque = f.opaque, p.owner = d
        PROVE  pc[d] \in InFlight /\ \A q \in pending' : q.owner # d
    BY <2>1, <2>4, SMTT(30)
  <2>5. ASSUME NEW d \in Caller
        PROVE  /\ pc'[d] \in {"idle", "register"} => rx'[d] = Empty
               /\ rx'[d] # Empty => \A p \in pending' : p.owner # d
    BY <2>1, <2>2, <2>3, <2>4, SMTT(60)
  <2>6. QED
    BY <2>5, Zenon
<1>23. ASSUME NEW k \in reading, NEW o \in BrokerOpaque, DispatchRequest(k, o) PROVE RxInv'
  <2>1. \A p \in pending' : p \in pending /\ p.opaque # o
    BY <1>23, Zenon DEF DispatchRequest, Dispatch
  <2>2. \A d \in Caller : rx'[d] = rx[d] \/ \E p \in pending : p.opaque = o /\ p.owner = d
    BY <1>23, Zenon DEF DispatchRequest, Dispatch
  <2>3. UNCHANGED <<pc, opq>>
    BY <1>23, Zenon DEF DispatchRequest
  <2>4. ASSUME NEW d \in Caller, NEW p \in pending, p.opaque = o, p.owner = d
        PROVE  pc[d] \in InFlight /\ \A q \in pending' : q.owner # d
    BY <2>1, <2>4
  <2>5. ASSUME NEW d \in Caller
        PROVE  /\ pc'[d] \in {"idle", "register"} => rx'[d] = Empty
               /\ rx'[d] # Empty => \A p \in pending' : p.owner # d
    BY <2>1, <2>2, <2>3, <2>4, SMTT(60)
  <2>6. QED
    BY <2>5, Zenon
<1>24. ASSUME NEW t \in leaving, OnConnectionLost(t), Shrinks PROVE RxInv'
  <2>1. UNCHANGED <<pc, rx, opq>>
    BY <1>24, Zenon DEF OnConnectionLost
  <2>2. QED
    BY <1>24, <2>1, Zenon
<1>25. ASSUME NEW S \in SUBSET Addr, SweepIdle(S), Shrinks PROVE RxInv'
  BY <1>25, Zenon DEF SweepIdle
<1>26. ASSUME NEW a \in Addr, CloseByAddress(a), Shrinks PROVE RxInv'
  BY <1>26, Zenon DEF CloseByAddress
<1>27. ASSUME NEW a \in Addr, ShutdownClose(a), Shrinks PROVE RxInv'
  BY <1>27, Zenon DEF ShutdownClose
<1>28. CASE ShutdownClear
  BY <1>28, Zenon DEF ShutdownClear
<1>29. CASE UNCHANGED <<pending, pc, rx>>
  BY <1>29, Zenon
<1> HIDE <1>0 DEF Pending, PendingReclaimed, InFlight, RxInv, Shrinks
<1>30. CASE Environment
  BY ClosersShrink, <1>29, <1>22, <1>23, <1>24, <1>30, Zenon
     DEF Environment, ReaderExits, WriterExits
<1>31. CASE Lifecycle
  BY ClosersShrink, <1>29, <1>25, <1>26, <1>27, <1>28, <1>31, Zenon
     DEF Lifecycle, SweeperEnds, ShutdownSwap, ShutdownSnapshot, Start
<1>32. CASE UNCHANGED vars
  BY <1>29, <1>32, Zenon DEF vars
<1>33. QED
  BY ClosersShrink, <1>1, <1>2, <1>3, <1>4, <1>5, <1>6, <1>7, <1>8, <1>9, <1>10, <1>11,
     <1>12, <1>13, <1>14, <1>15, <1>16, <1>17, <1>18, <1>19, <1>20, <1>21, <1>29, <1>30,
     <1>31, <1>32, Zenon
     DEF Next, CallStep, Connect, Write

\* The stopped flag and the progress of shutdown() agree.
LEMMA LifeStep == IInv /\ [Next]_vars => LifeInv'
<1> SUFFICES ASSUME IInv, [Next]_vars PROVE LifeInv'
  BY Zenon
<1>0. /\ running \in BOOLEAN
      /\ down \in {"up", "swapped", "closing", "down"}
      /\ LifeInv
  BY Zenon DEF IInv, TypeOK
<1> USE <1>0 DEF LifeInv, Shrinks, connVars, lifeVars, callVars
<1>1. CASE ShutdownSwap
  BY <1>1, Zenon DEF ShutdownSwap
<1>2. CASE ShutdownSnapshot
  BY <1>2, Zenon DEF ShutdownSnapshot
<1>3. CASE ShutdownClear
  BY <1>3, Zenon DEF ShutdownClear
<1>4. CASE Start
  BY <1>4, Zenon DEF Start
<1>5. CASE UNCHANGED <<running, down>>
  BY <1>5, Zenon
<1> HIDE <1>0 DEF LifeInv, Shrinks
<1>6. ASSUME NEW c \in Caller, CallStep(c) PROVE UNCHANGED <<running, down>>
  BY <1>6, Zenon DEF CallStep, Connect, Write, RegisterPending, CheckRunning, Lookup, AcquireGate,
     Recheck, ConnectFails, ConnectOk, Publish, EnsureSweeper, WriteOk, WriteFails,
     CloseAfterWriteFailure, AttachPendingConn, GotResponse, Reconnect, SenderDropped,
     WaitExpires, CancelExpired, CloseSocketOnTimeout, Cancel
<1>7. CASE Environment
  BY <1>5, <1>7, Zenon
     DEF Environment, DispatchResponse, DispatchRequest, ReaderExits, WriterExits,
     OnConnectionLost
<1>8. CASE Lifecycle
  BY <1>5, <1>1, <1>2, <1>3, <1>4, <1>8, Zenon
     DEF Lifecycle, SweepIdle, SweeperEnds, CloseByAddress, ShutdownClose
<1>9. CASE UNCHANGED vars
  BY <1>5, <1>9, SMTT(30) DEF vars
<1>10. QED
  BY ClosersShrink, <1>6, <1>5, <1>7, <1>8, <1>9, Zenon
     DEF Next, Invoke

\* shutdown() clears the table last, and a call that registers later has
\* still to look at the stopped flag.
LEMMA SettleStep == IInv /\ [Next]_vars => ShutdownSettles'
<1> SUFFICES ASSUME IInv, [Next]_vars PROVE ShutdownSettles'
  BY Zenon
<1>0. /\ pending \in SUBSET Pending
      /\ pc \in [Caller -> Location]
      /\ kind \in [Caller -> {"sync", "oneway"}]
      /\ running \in BOOLEAN
      /\ down \in {"up", "swapped", "closing", "down"}
      /\ PendingReclaimed
      /\ LifeInv
      /\ ShutdownSettles
  BY Zenon DEF IInv, TypeOK
<1> USE <1>0 DEF Pending, ShutdownSettles, LifeInv, PendingReclaimed, Shrinks, connVars,
     lifeVars, callVars
<1>1. ASSUME NEW c \in Caller, NEW k \in CallKind, Invoke(c, k) PROVE ShutdownSettles'
  BY <1>1, Zenon DEF Invoke, NextOpaque, Goto
<1>2. ASSUME NEW c \in Caller, RegisterPending(c) PROVE ShutdownSettles'
  <2>1. \A p \in pending' : p \in pending \/ (p.owner = c /\ p.opaque = opq[c])
    BY <1>2, RegisterAdds, Zenon
  <2>2. \A p \in pending : p.owner # c /\ p.owner \in Caller
    BY <1>2, Zenon DEF RegisterPending, PendingReclaimed, InFlight
  <2>3. pc[c] = "register" /\ pc' = [pc EXCEPT ![c] = "check"] /\ UNCHANGED <<down>>
    BY <1>2, Zenon DEF RegisterPending, Goto
  <2>4. QED
    BY <2>1, <2>2, <2>3, Zenon
<1>3. ASSUME NEW c \in Caller, CheckRunning(c) PROVE ShutdownSettles'
  BY <1>3, Zenon DEF CheckRunning, IsRunning, FailWith, Goto
<1>4. ASSUME NEW c \in Caller, Lookup(c) PROVE ShutdownSettles'
  BY <1>4, Zenon DEF Lookup, Goto
<1>5. ASSUME NEW c \in Caller, AcquireGate(c) PROVE ShutdownSettles'
  BY <1>5, Zenon DEF AcquireGate, GateFree, Goto
<1>6. ASSUME NEW c \in Caller, Recheck(c) PROVE ShutdownSettles'
  BY <1>6, Zenon DEF Recheck, ReleaseGate, Goto
<1>7. ASSUME NEW c \in Caller, ConnectFails(c) PROVE ShutdownSettles'
  BY <1>7, Zenon DEF ConnectFails, ReleaseGate, FailWith, Goto
<1>8. ASSUME NEW c \in Caller, ConnectOk(c) PROVE ShutdownSettles'
  BY <1>8, Zenon DEF ConnectOk, Goto
<1>9. ASSUME NEW c \in Caller, Publish(c) PROVE ShutdownSettles'
  BY <1>9, Zenon DEF Publish, Loser, ReleaseGate, Goto
<1>10. ASSUME NEW c \in Caller, EnsureSweeper(c) PROVE ShutdownSettles'
  BY <1>10, Zenon DEF EnsureSweeper, SweeperSlot, ReleaseGate, Goto
<1>11. ASSUME NEW c \in Caller, WriteOk(c) PROVE ShutdownSettles'
  BY <1>11, Zenon DEF WriteOk, Goto
<1>12. ASSUME NEW c \in Caller, WriteFails(c) PROVE ShutdownSettles'
  BY <1>12, Zenon DEF WriteFails, Goto
<1>13. ASSUME NEW c \in Caller, CloseAfterWriteFailure(c), Shrinks PROVE ShutdownSettles'
  BY <1>13, Zenon DEF CloseAfterWriteFailure, FailWith, Goto
<1>14. ASSUME NEW c \in Caller, AttachPendingConn(c) PROVE ShutdownSettles'
  BY <1>14 DEF AttachPendingConn, Goto
<1>15. ASSUME NEW c \in Caller, GotResponse(c) PROVE ShutdownSettles'
  BY <1>15, Zenon DEF GotResponse, MayResend, Goto
<1>16. ASSUME NEW c \in Caller, Reconnect(c), Shrinks PROVE ShutdownSettles'
  BY <1>16, Zenon DEF Reconnect, NextOpaque, Goto
<1>17. ASSUME NEW c \in Caller, SenderDropped(c) PROVE ShutdownSettles'
  BY <1>17, Zenon DEF SenderDropped, FailWith, Goto
<1>18. ASSUME NEW c \in Caller, WaitExpires(c) PROVE ShutdownSettles'
  BY <1>18, Zenon DEF WaitExpires, Goto
<1>19. ASSUME NEW c \in Caller, CancelExpired(c) PROVE ShutdownSettles'
  BY <1>19, Zenon DEF CancelExpired, Goto
<1>20. ASSUME NEW c \in Caller, CloseSocketOnTimeout(c), Shrinks PROVE ShutdownSettles'
  BY <1>20, Zenon DEF CloseSocketOnTimeout, Goto
<1>21. ASSUME NEW c \in Caller, Cancel(c) PROVE ShutdownSettles'
  BY <1>21, Zenon DEF Cancel, Goto
<1>22. ASSUME NEW f \in wire, NEW code \in {"ok", "goaway"}, DispatchResponse(f, code)
      PROVE  ShutdownSettles'
  BY <1>22, Zenon DEF DispatchResponse, Dispatch
<1>23. ASSUME NEW k \in reading, NEW o \in BrokerOpaque, DispatchRequest(k, o)
      PROVE  ShutdownSettles'
  BY <1>23, Zenon DEF DispatchRequest, Dispatch
<1>24. ASSUME NEW t \in leaving, OnConnectionLost(t), Shrinks PROVE ShutdownSettles'
  <2>1. UNCHANGED <<pc, down, kind, running>>
    BY <1>24, Zenon DEF OnConnectionLost
  <2>2. QED
    BY <1>24, <2>1, Zenon
<1>25. ASSUME NEW S \in SUBSET Addr, SweepIdle(S), Shrinks PROVE ShutdownSettles'
  BY <1>25, Zenon DEF SweepIdle
<1>26. ASSUME NEW a \in Addr, CloseByAddress(a), Shrinks PROVE ShutdownSettles'
  BY <1>26, Zenon DEF CloseByAddress
<1>27. CASE ShutdownSwap
  BY <1>27, Zenon DEF ShutdownSwap
<1>28. CASE ShutdownSnapshot
  BY <1>28, Zenon DEF ShutdownSnapshot
<1>29. ASSUME NEW a \in Addr, ShutdownClose(a), Shrinks PROVE ShutdownSettles'
  BY <1>29, Zenon DEF ShutdownClose
<1>30. CASE ShutdownClear
  BY <1>30, Zenon DEF ShutdownClear
<1>31. CASE Start
  BY <1>31, Zenon DEF Start
<1>32. CASE UNCHANGED <<pending, pc, down>>
  BY <1>32, Zenon
<1> HIDE <1>0 DEF Pending, ShutdownSettles, LifeInv, PendingReclaimed, Shrinks
<1>33. CASE Environment
  BY ClosersShrink, <1>32, <1>22, <1>23, <1>24, <1>33, Zenon
     DEF Environment, ReaderExits, WriterExits
<1>34. CASE Lifecycle
  BY ClosersShrink, <1>32, <1>25, <1>26, <1>27, <1>28, <1>29, <1>30, <1>31, <1>34, Zenon
     DEF Lifecycle, SweeperEnds
<1>35. CASE UNCHANGED vars
  BY <1>32, <1>35, Zenon DEF vars
<1>36. QED
  BY ClosersShrink, <1>1, <1>2, <1>3, <1>4, <1>5, <1>6, <1>7, <1>8, <1>9, <1>10, <1>11,
     <1>12, <1>13, <1>14, <1>15, <1>16, <1>17, <1>18, <1>19, <1>20, <1>21, <1>32, <1>33,
     <1>34, <1>35, Zenon
     DEF Next, CallStep, Connect, Write

\* Only the two dispatch actions and the resend touch a receiver or an attempt.
LEMMA OwnStep ==
    ASSUME BrokerOpaque \subseteq {0}
    PROVE  IInv /\ OwnResponse /\ [Next]_vars => OwnResponse'
<1> SUFFICES ASSUME IInv, OwnResponse, [Next]_vars PROVE OwnResponse'
  BY Zenon
<1>0. /\ PendingReclaimed /\ OpaqueUnique
      /\ pending \in SUBSET Pending /\ wire \in SUBSET Frame
      /\ rx \in [Caller -> Response] /\ attempt \in [Caller -> {1, 2}]
      /\ opq \in [Caller -> Nat]
  BY ZenonT(40) DEF IInv, TypeOK
<1>1. ASSUME NEW f \in wire, NEW code \in {"ok", "goaway"}, DispatchResponse(f, code)
      PROVE  OwnResponse'
  <2>1. \A d \in Caller : \/ rx'[d] = rx[d]
                          \/ /\ rx'[d].call = f.call /\ rx'[d].attempt = f.attempt
                             /\ \E p \in pending : p.opaque = f.opaque /\ p.owner = d
    BY <1>0, <1>1, Zenon DEF DispatchResponse, Dispatch
  <2>2. \A d \in Caller : (\E p \in pending : p.opaque = f.opaque /\ p.owner = d)
                             => f.call = d /\ f.attempt = attempt[d]
    BY <1>0, Zenon DEF PendingReclaimed, OpaqueUnique
  <2>3. attempt' = attempt
    BY <1>1, Zenon DEF DispatchResponse
  <2>4. QED
    BY <2>1, <2>2, <2>3 DEF OwnResponse, Empty
<1>2. ASSUME NEW k \in reading, NEW o \in BrokerOpaque, DispatchRequest(k, o)
      PROVE  OwnResponse'
  <2>1. \A p \in pending : p.opaque # o
    BY <1>0 DEF PendingReclaimed, OpaqueUnique, InFlight, Pending
  <2>2. rx' = rx
    BY <1>0, <1>2, <2>1, Zenon DEF DispatchRequest, Dispatch
  <2>3. QED
    BY <1>2, <2>2, Zenon DEF DispatchRequest, OwnResponse, Empty
<1>3. ASSUME NEW c \in Caller, Reconnect(c) PROVE OwnResponse'
  BY <1>0, <1>3, Zenon DEF Reconnect, OwnResponse, Empty
<1>4. CASE UNCHANGED <<rx, attempt>>
  BY <1>4, Zenon DEF OwnResponse, Empty
<1>5. ASSUME NEW c \in Caller, CallStep(c) PROVE UNCHANGED <<rx, attempt>> \/ Reconnect(c)
  BY <1>5, Zenon DEF CallStep, Connect, Write, RegisterPending, CheckRunning, Lookup, AcquireGate,
     Recheck, ConnectFails, ConnectOk, Publish, EnsureSweeper, WriteOk, WriteFails,
     CloseAfterWriteFailure, AttachPendingConn, GotResponse, SenderDropped, WaitExpires,
     CancelExpired, CloseSocketOnTimeout, Cancel, callVars
<1>6. CASE Environment
  BY <1>1, <1>2, <1>4, <1>6, Zenon DEF Environment, ReaderExits, WriterExits, OnConnectionLost, callVars
<1>7. CASE Lifecycle
  BY <1>4, <1>7, Zenon DEF Lifecycle, SweepIdle, SweeperEnds, CloseByAddress, ShutdownSwap,
     ShutdownSnapshot, ShutdownClose, ShutdownClear, Start, callVars
<1>8. CASE UNCHANGED vars
  BY <1>4, <1>8, Zenon DEF vars, callVars
<1>9. ASSUME NEW c \in Caller, NEW k \in CallKind, Invoke(c, k) PROVE OwnResponse'
  BY <1>4, <1>9, Zenon DEF Invoke
<1>10. QED
  BY <1>3, <1>4, <1>5, <1>6, <1>7, <1>8, <1>9, Zenon DEF Next

-----------------------------------------------------------------------------
\* Between register_pending and attach_pending_conn.
Before == {"check", "lookup", "gate", "recheck", "connect", "publish", "ensure", "write",
           "wbroken", "attach"}

\* The table was cleared by shutdown(), or may have been.
Past == down = "down" \/ life > 1

Entry(c) == \E p \in pending : p.opaque = opq[c]

\* A waiting call lost its entry to a response, to the loss of its own
\* connection or to shutdown().
FateOf(c) ==
    /\ pc[c] = "wbroken" => held[c] \notin alive
    /\ result[c] = "closed" => pc[c] \in {"cancel", "done"} /\ (held[c] \notin alive \/ Past)
    /\ pc[c] \in Before /\ kind[c] = "sync" => Entry(c) \/ rx[c] # Empty \/ Past
    /\ pc[c] \in Before => \A p \in pending : p.opaque = opq[c] => p.conn = NoConn
    /\ pc[c] = "wait" =>
          /\ \A p \in pending : p.opaque = opq[c] => p.conn = held[c]
          /\ Entry(c) \/ rx[c] # Empty \/ held[c] \notin alive \/ Past

\* shutdown() and start() are counted; a live connection is in the table or
\* with the call that opened it; a task that leaves had a connection.
LifeCount == (down # "up" => life > 0) /\ (life = 1 => ~running)
AliveAccounted ==
    \A k \in alive : k \in Published \/ \E c \in Caller : pc[c] = "publish" /\ held[c] = k
LeaversReal == \A t \in leaving : t[2] # NoConn

\* Before the first shutdown() the sweeper's slot is right.
SweeperInv ==
    life = 0 => /\ sweeper # "ended"
                /\ Published # {} => sweeper = "live" \/ \E c \in Caller : pc[c] = "ensure"

Fate ==
    /\ LifeCount /\ AliveAccounted /\ LeaversReal /\ SweeperInv
    /\ \A c \in Caller : FateOf(c)

-----------------------------------------------------------------------------
\* A step that does not move the call keeps its fate, if what it takes from
\* the call it takes for one of the allowed reasons.
LEMMA Bystander ==
    ASSUME NEW c \in Caller, FateOf(c),
           pc'[c] = pc[c], kind'[c] = kind[c], opq'[c] = opq[c], held'[c] = held[c],
           result'[c] = result[c],
           held[c] \notin alive => held[c] \notin alive', Past => Past',
           rx[c] # Empty => rx'[c] # Empty,
           \A p \in pending' : p.opaque = opq[c] => p \in pending,
           Entry(c) /\ pc[c] \in Before \cup {"wait"} =>
               \/ Entry(c)' \/ rx'[c] # Empty \/ Past'
               \/ pc[c] = "wait" /\ held[c] \notin alive'
    PROVE  FateOf(c)'
<1>0. Entry(c)' <=> \E p \in pending' : p.opaque = opq[c]
  BY Zenon DEF Entry
<1>1. pc'[c] = "wbroken" => held'[c] \notin alive'
  BY Zenon DEF FateOf
<1>2. result'[c] = "closed" => pc'[c] \in {"cancel", "done"} /\ (held'[c] \notin alive' \/ Past')
  BY Zenon DEF FateOf
<1>3. pc'[c] \in Before /\ kind'[c] = "sync" => Entry(c)' \/ rx'[c] # Empty \/ Past'
  <2> SUFFICES ASSUME pc[c] \in Before, kind[c] = "sync"
               PROVE  Entry(c)' \/ rx'[c] # Empty \/ Past'
    BY Zenon
  <2>1. pc[c] # "wait"
    BY Zenon DEF Before
  <2>2. Entry(c) \/ rx[c] # Empty \/ Past
    BY Zenon DEF FateOf
  <2> QED BY <2>1, <2>2, Zenon
<1>4. pc'[c] \in Before => \A p \in pending' : p.opaque = opq'[c] => p.conn = NoConn
  BY Zenon DEF FateOf
<1>5. pc'[c] = "wait" => /\ \A p \in pending' : p.opaque = opq'[c] => p.conn = held'[c]
                         /\ Entry(c)' \/ rx'[c] # Empty \/ held'[c] \notin alive' \/ Past'
  BY Zenon DEF FateOf
<1> QED BY <1>1, <1>2, <1>3, <1>4, <1>5, Zenon DEF FateOf

\* An entry under a call's opaque is that call's.
LEMMA EntryOwned ==
    ASSUME IInv, NEW c \in Caller, pc[c] # "idle", NEW p \in pending, p.opaque = opq[c]
    PROVE  p.owner = c
<1>1. p.owner \in Caller /\ opq[p.owner] = p.opaque /\ opq[c] > 0 /\ opq[c] \in Nat
  BY Zenon DEF IInv, TypeOK, Pending, PendingReclaimed, OpaqueUnique
<1> QED BY <1>1 DEF IInv, OpaqueUnique

\* close_channel takes the entries written on what it closed, and marks that
\* dead.
LEMMA CloseFate ==
    ASSUME IInv, Fate, NEW c \in Caller, NEW S \in SUBSET Addr, CloseChannels(S)
    PROVE  /\ alive' \subseteq alive /\ pending' \subseteq pending
           /\ \A p \in pending : p.opaque = opq[c] /\ pc[c] \in Before => p \in pending'
           /\ \A p \in pending : p.opaque = opq[c] /\ pc[c] = "wait" =>
                 p \in pending' \/ held[c] \notin alive'
<1> DEFINE K == {conns[a] : a \in S} \ {NoConn}
<1>1. alive' = alive \ K /\ pending' = {p \in pending : p.conn \notin K} /\ NoConn \notin K
  BY Zenon DEF CloseChannels, FailPendingFor
<1> HIDE DEF K
<1>2. FateOf(c)
  BY Zenon DEF Fate
<1> QED BY <1>1, <1>2, Zenon DEF FateOf

\* The same of on_connection_lost: the connection of a waiting call is not
\* one that is still to be published, so it is dead or in the table.
LEMMA LostFate ==
    ASSUME IInv, Fate, NEW c \in Caller, NEW t \in leaving, OnConnectionLost(t)
    PROVE  /\ alive' \subseteq alive /\ pending' \subseteq pending
           /\ \A p \in pending : p.opaque = opq[c] /\ pc[c] \in Before => p \in pending'
           /\ \A p \in pending : p.opaque = opq[c] /\ pc[c] = "wait" =>
                 p \in pending' \/ held[c] \notin alive'
<1> DEFINE k == t[2]
<1>1. /\ alive' = alive \ ({k} \cap Published) /\ pending' = {p \in pending : p.conn \notin {k}}
      /\ k # NoConn
  BY Zenon DEF OnConnectionLost, Mine, FailPendingFor, Fate, LeaversReal
<1> HIDE DEF k
<1>2. FateOf(c) /\ AliveAccounted /\ PrivateConn
  BY Zenon DEF Fate, IInv
<1>3. pc[c] = "wait" /\ held[c] = k => k \notin alive'
  BY <1>1, <1>2 DEF AliveAccounted, PrivateConn
<1>4. \A p \in pending : p.opaque = opq[c] /\ pc[c] \in Before => p \in pending'
  BY <1>1, <1>2, Zenon DEF FateOf
<1>5. \A p \in pending : p.opaque = opq[c] /\ pc[c] = "wait" => p \in pending' \/ held[c] \notin alive'
  BY <1>1, <1>2, <1>3, Zenon DEF FateOf
<1> QED BY <1>1, <1>4, <1>5, Zenon

\* The steps of shutdown(), start(), the sweeper and the tasks of connections,
\* for a call that takes no step itself.
LEMMA EnvironmentFate ==
    ASSUME IInv, Fate, NEW c \in Caller, Environment \/ Lifecycle
    PROVE  FateOf(c)'
<1>0. /\ UNCHANGED <<pc, kind, opq, held, result>> /\ FateOf(c) /\ life \in Nat
      /\ (down = "down" => life > 0)
  BY Zenon DEF Environment, DispatchResponse, DispatchRequest, ReaderExits, WriterExits,
         OnConnectionLost, Lifecycle, SweepIdle, SweeperEnds, CloseByAddress, ShutdownSwap,
         ShutdownSnapshot, ShutdownClose, ShutdownClear, Start, callVars, Fate, LifeCount,
         IInv, TypeOK
<1>1. ASSUME NEW S \in SUBSET Addr, CloseChannels(S), UNCHANGED <<down, life, rx>>
      PROVE  FateOf(c)'
  <2>1. Past' = Past /\ rx' = rx
    BY <1>1, Zenon DEF Past
  <2>2. /\ alive' \subseteq alive /\ pending' \subseteq pending
        /\ \A p \in pending : p.opaque = opq[c] /\ pc[c] \in Before => p \in pending'
        /\ \A p \in pending : p.opaque = opq[c] /\ pc[c] = "wait" =>
              p \in pending' \/ held[c] \notin alive'
    BY <1>1, CloseFate, Zenon
  <2> QED BY <1>0, <2>1, <2>2, Bystander, Zenon DEF Entry
<1>2. ASSUME NEW t \in leaving, OnConnectionLost(t) PROVE FateOf(c)'
  <2>1. Past' = Past /\ rx' = rx
    BY <1>2, Zenon DEF OnConnectionLost, Past, lifeVars, callVars
  <2>2. /\ alive' \subseteq alive /\ pending' \subseteq pending
        /\ \A p \in pending : p.opaque = opq[c] /\ pc[c] \in Before => p \in pending'
        /\ \A p \in pending : p.opaque = opq[c] /\ pc[c] = "wait" =>
              p \in pending' \/ held[c] \notin alive'
    BY <1>2, LostFate, Zenon
  <2> QED BY <1>0, <2>1, <2>2, Bystander, Zenon DEF Entry
<1>3. ASSUME NEW o, NEW r, r # Empty, Dispatch(o, r), UNCHANGED <<down, life, alive>>
      PROVE  FateOf(c)'
  <2>1. Past' = Past /\ pending' = pending \ {p \in pending : p.opaque = o}
    BY <1>3, Zenon DEF Past, Dispatch
  <2>2. rx'[c] = rx[c] \/ rx'[c] # Empty
    BY <1>3, Zenon DEF Dispatch
  <2>3. ASSUME NEW p \in pending, p.opaque = opq[c], p.opaque = o, pc[c] # "idle"
        PROVE  rx'[c] # Empty
    <3>1. p.owner = c
      BY <2>3, EntryOwned, Zenon
    <3> QED BY <1>3, <2>3, <3>1, Zenon DEF Dispatch
  <2>4. "idle" \notin Before \cup {"wait"}
    BY Zenon DEF Before
  <2>5. Entry(c) /\ pc[c] \in Before \cup {"wait"} => Entry(c)' \/ rx'[c] # Empty
    BY <1>0, <2>1, <2>3, <2>4, Zenon DEF Entry
  <2> QED BY <1>0, <1>3, <2>1, <2>2, <2>5, Bystander, Zenon
<1>4. CASE UNCHANGED <<alive, pending, rx, down, life>>
  BY <1>0, <1>4, Bystander, Zenon DEF Past, Entry
<1>5. CASE UNCHANGED <<alive, pending, rx>> /\ (Past => Past')
  BY <1>0, <1>5, Bystander, Zenon DEF Entry
<1>6. CASE ShutdownClear
  <2>1. Past' /\ pending' = {} /\ UNCHANGED <<alive, rx>>
    BY <1>6, Zenon DEF ShutdownClear, Past, connVars, callVars
  <2> QED BY <1>0, <2>1, Bystander, Zenon
<1>7. CASE Environment
  <2>1. ASSUME NEW f \in wire, NEW code \in {"ok", "goaway"}, DispatchResponse(f, code)
        PROVE  FateOf(c)'
    <3>1. [call |-> f.call, attempt |-> f.attempt, code |-> code] # Empty
      BY Zenon DEF Empty
    <3> QED BY <1>3, <2>1, <3>1, Zenon DEF DispatchResponse, lifeVars, connVars
  <2>2. ASSUME NEW k \in reading, NEW o \in BrokerOpaque, DispatchRequest(k, o)
        PROVE  FateOf(c)'
    <3>1. [call |-> Peer, attempt |-> 0, code |-> "ok"] # Empty
      BY Zenon DEF Empty
    <3> QED BY <1>3, <2>2, <3>1, Zenon DEF DispatchRequest, lifeVars, connVars
  <2> QED BY <1>2, <1>4, <1>7, <2>1, <2>2, Zenon
          DEF Environment, ReaderExits, WriterExits, lifeVars, callVars
<1>8. CASE Lifecycle
  <2>1. ASSUME NEW a \in Addr, CloseChannel(a), UNCHANGED <<down, life, rx>> PROVE FateOf(c)'
    BY <1>1, <2>1, Zenon DEF CloseChannel
  <2>2. ShutdownSwap => (Past => Past')
    BY <1>0 DEF ShutdownSwap, Past, IInv, LifeInv
  <2>3. ShutdownSnapshot => (Past => Past')
    BY Zenon DEF ShutdownSnapshot, Past
  <2>4. Start => Past'
    BY <1>0 DEF Start, Past
  <2>5. ShutdownSwap \/ ShutdownSnapshot \/ Start => UNCHANGED <<alive, pending, rx>>
    BY Zenon DEF ShutdownSwap, ShutdownSnapshot, Start, connVars, callVars
  <2> QED BY <1>1, <1>4, <1>5, <1>6, <1>8, <2>1, <2>2, <2>3, <2>4, <2>5, Zenon
          DEF Lifecycle, SweepIdle, SweeperEnds, CloseByAddress, ShutdownClose, lifeVars,
              connVars, callVars
<1> QED BY <1>7, <1>8, Zenon

\* A step of one call, for another.
LEMMA OtherFate ==
    ASSUME IInv, Fate, NEW c \in Caller, NEW d \in Caller, c # d,
           CallStep(d) \/ \E k \in CallKind : Invoke(d, k)
    PROVE  FateOf(c)'
<1> USE DEF connVars, lifeVars, callVars
<1>1. pc'[c] = pc[c] /\ kind'[c] = kind[c] /\ opq'[c] = opq[c]
  BY ZenonT(60) DEF Invoke, CallStep, RegisterPending, CheckRunning, Lookup, AcquireGate, Recheck, Connect,
         ConnectFails, ConnectOk, Publish, EnsureSweeper, Write, WriteOk, WriteFails,
         CloseAfterWriteFailure, AttachPendingConn, GotResponse, Reconnect, SenderDropped,
         WaitExpires, CancelExpired, CloseSocketOnTimeout, Cancel, Goto, FailWith, IInv, TypeOK
<1>2. held'[c] = held[c] /\ rx'[c] = rx[c] /\ result'[c] = result[c]
  BY Zenon DEF Invoke, CallStep, RegisterPending, CheckRunning, Lookup, AcquireGate, Recheck, Connect,
         ConnectFails, ConnectOk, Publish, EnsureSweeper, Write, WriteOk, WriteFails,
         CloseAfterWriteFailure, AttachPendingConn, GotResponse, Reconnect, SenderDropped,
         WaitExpires, CancelExpired, CloseSocketOnTimeout, Cancel, FailWith, IInv, TypeOK
<1>3. UNCHANGED lifeVars
  BY Zenon DEF Invoke, CallStep, RegisterPending, CheckRunning, Lookup, AcquireGate, Recheck, Connect,
         ConnectFails, ConnectOk, Publish, EnsureSweeper, Write, WriteOk, WriteFails,
         CloseAfterWriteFailure, AttachPendingConn, GotResponse, Reconnect, SenderDropped,
         WaitExpires, CancelExpired, CloseSocketOnTimeout, Cancel
<1>4. Past' = Past
  BY <1>3, Zenon DEF Past
<1>5. FateOf(c) /\ held[c] \in Nat /\ held[c] < nextConn /\ addr[d] \in Addr
  BY Zenon DEF Fate, IInv, TypeOK, FreshConn
<1>6. ASSUME CloseChannel(addr[d]) PROVE FateOf(c)'
  <2>1. {addr[d]} \in SUBSET Addr /\ CloseChannels({addr[d]})
    BY <1>5, <1>6, Zenon DEF CloseChannel
  <2>2. /\ alive' \subseteq alive /\ pending' \subseteq pending
        /\ \A p \in pending : p.opaque = opq[c] /\ pc[c] \in Before => p \in pending'
        /\ \A p \in pending : p.opaque = opq[c] /\ pc[c] = "wait" =>
              p \in pending' \/ held[c] \notin alive'
    BY <2>1, CloseFate, Zenon
  <2> QED BY <1>1, <1>2, <1>4, <1>5, <2>2, Bystander, Zenon DEF Entry
<1>7. ASSUME \A p : p.opaque = opq[c] => (p \in pending' <=> p \in pending),
             held[c] \notin alive => held[c] \notin alive'
      PROVE  FateOf(c)'
  BY <1>1, <1>2, <1>4, <1>5, <1>7, Bystander, Zenon DEF Entry
<1>8. pc[d] # "idle" /\ opq[d] = opq[c] => FALSE
  BY DEF IInv, OpaqueUnique, TypeOK
<1>9. ASSUME pending' = pending, alive' = alive PROVE FateOf(c)'
  BY <1>7, <1>9, Zenon
<1>10. CASE RegisterPending(d)
  <2> DEFINE entry == [opaque |-> opq[d], owner |-> d, conn |-> NoConn]
  <2>1. pending' = {p \in pending : p.opaque # opq[d]} \cup {entry} /\ alive' = alive
        /\ opq[d] # opq[c]
    BY <1>8, <1>10, Zenon DEF RegisterPending
  <2>2. entry.opaque = opq[d]
    BY Zenon
  <2> HIDE DEF entry
  <2> QED BY <1>7, <2>1, <2>2, Zenon
<1>11. CASE AttachPendingConn(d)
  <2>1. pending' = {IF p.opaque = opq[d] THEN [p EXCEPT !.conn = held[d]] ELSE p : p \in pending}
        /\ alive' = alive /\ opq[d] # opq[c]
    BY <1>8, <1>11, Zenon DEF AttachPendingConn
  <2>2. \A p \in pending : [p EXCEPT !.conn = held[d]].opaque = p.opaque
    BY Zenon DEF IInv, TypeOK, Pending
  <2> QED BY <1>7, <2>1, <2>2, Zenon
<1>12. CASE CancelExpired(d) \/ Cancel(d)
  <2>1. pending' = {p \in pending : p.opaque # opq[d]} /\ alive' = alive /\ opq[d] # opq[c]
    BY <1>8, <1>12, Zenon DEF CancelExpired, Cancel
  <2> QED BY <1>7, <2>1, Zenon
<1>13. CASE ConnectOk(d)
  <2>1. pending' = pending /\ alive' = alive \cup {nextConn}
    BY <1>13, Zenon DEF ConnectOk
  <2>2. nextConn \in Nat
    BY Zenon DEF IInv, TypeOK
  <2>3. held[c] # nextConn
    BY <1>5, <2>2
  <2> QED BY <1>7, <2>1, <2>3, ZenonT(60)
<1>14. CASE WriteFails(d)
  <2>1. pending' = pending /\ (held[c] \notin alive => held[c] \notin alive')
    BY <1>14, Zenon DEF WriteFails
  <2> QED BY <1>7, <2>1, Zenon
<1>15. CASE CloseAfterWriteFailure(d) \/ Reconnect(d) \/ CloseSocketOnTimeout(d)
  BY <1>6, <1>15, Zenon DEF CloseAfterWriteFailure, Reconnect, CloseSocketOnTimeout
<1>16. CASE \/ \E k \in CallKind : Invoke(d, k)
            \/ CheckRunning(d) \/ Lookup(d) \/ AcquireGate(d) \/ Recheck(d) \/ ConnectFails(d)
            \/ Publish(d) \/ EnsureSweeper(d) \/ WriteOk(d) \/ GotResponse(d)
            \/ SenderDropped(d) \/ WaitExpires(d)
  <2>1. pending' = pending /\ alive' = alive
    BY <1>16, Zenon DEF Invoke, CheckRunning, Lookup, AcquireGate, Recheck, ConnectFails, Publish,
                 EnsureSweeper, WriteOk, GotResponse, SenderDropped, WaitExpires
  <2> QED BY <1>9, <2>1, Zenon
<1> QED BY <1>10, <1>11, <1>12, <1>13, <1>14, <1>15, <1>16, Zenon DEF CallStep, Connect, Write

\* A step of a call on its way to the socket, and one that ends an attempt.
LEMMA OwnMoves ==
    ASSUME IInv, Fate, NEW c \in Caller
    PROVE  /\ /\ pc[c] \in Before /\ pc'[c] \in Before \ {"wbroken"}
              /\ UNCHANGED <<kind, opq, rx, pending, result, down, life>>
              => FateOf(c)'
           /\ pc'[c] \notin Before \cup {"wait"} /\ result'[c] # "closed" => FateOf(c)'
<1>1. FateOf(c)
  BY Zenon DEF Fate
<1>2. ASSUME pc[c] \in Before, pc'[c] \in Before \ {"wbroken"},
             UNCHANGED <<kind, opq, rx, pending, result, down, life>>
      PROVE  FateOf(c)'
  <2>1. result'[c] # "closed" /\ pc'[c] # "wait"
    BY <1>1, <1>2, Zenon DEF FateOf, Before
  <2> QED BY <1>1, <1>2, <2>1, Zenon DEF FateOf, Entry, Past
<1>3. ASSUME pc'[c] \notin Before \cup {"wait"}, result'[c] # "closed" PROVE FateOf(c)'
  BY <1>3, Zenon DEF FateOf, Before
<1> QED BY <1>2, <1>3, Zenon

\* A step of the call itself.
LEMMA OwnFate ==
    ASSUME IInv, Fate, NEW c \in Caller, CallStep(c) \/ \E k \in CallKind : Invoke(c, k)
    PROVE  FateOf(c)'
<1> USE DEF connVars, lifeVars, callVars, Goto
<1>0. /\ pc \in [Caller -> Location] /\ result \in [Caller -> Outcome] /\ kind \in [Caller -> {"sync", "oneway"}]
      /\ opq \in [Caller -> Nat] /\ held \in [Caller -> Nat] /\ rx \in [Caller -> Response]
      /\ pending \in SUBSET Pending /\ addr \in [Caller -> Addr] /\ nextOpaque \in Nat
  BY Zenon DEF IInv, TypeOK
<1>1. FateOf(c)
  BY Zenon DEF Fate
<1>2. pc[c] \notin {"cancel", "done"} => result[c] # "closed"
  BY <1>1, Zenon DEF FateOf
<1>3. ASSUME NEW k \in CallKind, Invoke(c, k) PROVE FateOf(c)'
  <2>1. CASE k = "sync"
    <3>1. pc'[c] = "register" /\ result'[c] # "closed"
      BY <1>0, <1>2, <1>3, <2>1, Zenon DEF Invoke
    <3> QED BY <3>1, OwnMoves, Zenon DEF Before
  <2>2. CASE k # "sync"
    <3>1. /\ pc'[c] = "check" /\ kind'[c] # "sync" /\ result'[c] # "closed" /\ pending' = pending
          /\ opq'[c] = nextOpaque
      BY <1>0, <1>2, <1>3, <2>2 DEF Invoke, NextOpaque
    <3>2. \A p \in pending : p.opaque # nextOpaque
      BY <1>0 DEF IInv, PendingReclaimed, FreshOpaque, Pending
    <3> QED BY <3>1, <3>2, Zenon DEF FateOf
  <2> QED BY <2>1, <2>2, Zenon
<1>4. CASE RegisterPending(c)
  <2> DEFINE entry == [opaque |-> opq[c], owner |-> c, conn |-> NoConn]
  <2>1. /\ pending' = {p \in pending : p.opaque # opq[c]} \cup {entry} /\ opq' = opq
        /\ pc'[c] = "check" /\ result'[c] # "closed"
    BY <1>0, <1>2, <1>4, Zenon DEF RegisterPending
  <2>2. entry.opaque = opq[c] /\ entry.conn = NoConn
    BY Zenon
  <2> HIDE DEF entry
  <2>3. Entry(c)' /\ \A p \in pending' : p.opaque = opq'[c] => p.conn = NoConn
    BY <2>1, <2>2, Zenon DEF Entry
  <2> QED BY <2>1, <2>3, Zenon DEF FateOf
<1>5. CASE Lookup(c) \/ AcquireGate(c) \/ Recheck(c) \/ ConnectOk(c) \/ Publish(c)
           \/ EnsureSweeper(c)
  <2>1. /\ pc[c] \in Before /\ pc'[c] \in Before \ {"wbroken"}
        /\ UNCHANGED <<kind, opq, rx, pending, result, down, life>>
    BY <1>0, <1>5, Zenon DEF Lookup, AcquireGate, Recheck, ConnectOk, Publish, EnsureSweeper, Before
  <2> QED BY <2>1, OwnMoves, Zenon
<1>6. CASE CheckRunning(c)
  <2>1. CASE IsRunning
    <3>1. /\ pc[c] \in Before /\ pc'[c] \in Before \ {"wbroken"}
          /\ UNCHANGED <<kind, opq, rx, pending, result, down, life>>
      BY <1>0, <1>6, <2>1, Zenon DEF CheckRunning, Before
    <3> QED BY <3>1, OwnMoves, Zenon
  <2>2. CASE ~IsRunning
    <3>1. pc'[c] \notin Before \cup {"wait"} /\ result'[c] # "closed"
      BY <1>0, <1>6, <2>2, Zenon DEF CheckRunning, FailWith, Before
    <3> QED BY <3>1, OwnMoves, Zenon
  <2> QED BY <2>1, <2>2, Zenon
<1>7. CASE ConnectFails(c)
  <2>1. pc'[c] \notin Before \cup {"wait"} /\ result'[c] # "closed"
    BY <1>0, <1>7, Zenon DEF ConnectFails, FailWith, Before
  <2> QED BY <2>1, OwnMoves, Zenon
<1>8. CASE WriteOk(c)
  <2>1. CASE kind[c] = "sync"
    <3>1. /\ pc[c] \in Before /\ pc'[c] \in Before \ {"wbroken"}
          /\ UNCHANGED <<kind, opq, rx, pending, result, down, life>>
      BY <1>0, <1>8, <2>1, Zenon DEF WriteOk, Before
    <3> QED BY <3>1, OwnMoves, Zenon
  <2>2. CASE kind[c] # "sync"
    <3>1. pc'[c] \notin Before \cup {"wait"} /\ result'[c] # "closed"
      BY <1>0, <1>8, <2>2, Zenon DEF WriteOk, Before
    <3> QED BY <3>1, OwnMoves, Zenon
  <2> QED BY <2>1, <2>2, Zenon
<1>9. CASE WriteFails(c)
  <2>1. /\ pc[c] = "write" /\ pc'[c] = "wbroken" /\ held'[c] \notin alive' /\ result'[c] # "closed"
        /\ UNCHANGED <<kind, opq, rx, pending, down, life>>
    BY <1>0, <1>2, <1>9, Zenon DEF WriteFails
  <2> QED BY <1>1, <2>1, Zenon DEF FateOf, Entry, Past, Before
<1>10. CASE CloseAfterWriteFailure(c)
  <2>1. /\ pc'[c] \in {"cancel", "done"} /\ held' = held /\ pc[c] = "wbroken"
        /\ CloseChannel(addr[c])
    BY <1>0, <1>10, Zenon DEF CloseAfterWriteFailure, FailWith
  <2>2. alive' \subseteq alive
    BY <2>1, Zenon DEF CloseChannel, CloseChannels
  <2>3. held'[c] \notin alive'
    BY <1>1, <2>1, <2>2, Zenon DEF FateOf
  <2> QED BY <2>1, <2>3, Zenon DEF FateOf, Before
<1>11. CASE AttachPendingConn(c)
  <2>1. /\ pending' = {IF p.opaque = opq[c] THEN [p EXCEPT !.conn = held[c]] ELSE p : p \in pending}
        /\ pc[c] = "attach" /\ pc'[c] = "wait" /\ result'[c] # "closed" /\ kind[c] = "sync"
        /\ UNCHANGED <<opq, held, rx, alive, down, life>>
    BY <1>0, <1>2, <1>11, Zenon DEF AttachPendingConn, IInv, CallInv
  <2>2. \A p \in pending : /\ [p EXCEPT !.conn = held[c]].opaque = p.opaque
                           /\ [p EXCEPT !.conn = held[c]].conn = held[c]
    BY <1>0, Zenon DEF Pending
  <2>3. \A p \in pending' : p.opaque = opq[c] => p.conn = held[c]
    BY <2>1, <2>2, Zenon
  <2>4. Entry(c) => Entry(c)'
    BY <2>1, <2>2, Zenon DEF Entry
  <2>5. Entry(c) \/ rx[c] # Empty \/ Past
    BY <1>1, <2>1, Zenon DEF FateOf, Before
  <2>6. Entry(c)' \/ rx'[c] # Empty \/ Past'
    BY <2>1, <2>4, <2>5, Zenon DEF Past
  <2> QED BY <2>1, <2>3, <2>6, Zenon DEF FateOf, Before
<1>12. CASE GotResponse(c)
  <2>1. pc'[c] \in {"done", "reconnect"}
    BY <1>0, <1>12, Zenon DEF GotResponse
  <2>2. result'[c] # "closed"
    BY <1>0, <1>2, <1>12, Zenon DEF GotResponse
  <2> QED BY <2>1, <2>2, OwnMoves, Zenon DEF Before
<1>13. CASE Reconnect(c)
  <2>1. pc'[c] = "register" /\ result'[c] # "closed"
    BY <1>0, <1>2, <1>13, Zenon DEF Reconnect
  <2> QED BY <2>1, OwnMoves, Zenon DEF Before
<1>14. CASE SenderDropped(c)
  <2>1. /\ pc[c] = "wait" /\ pc'[c] \in {"cancel", "done"} /\ rx[c] = Empty /\ ~Entry(c)
        /\ UNCHANGED <<held, alive, down, life>>
    BY <1>0, <1>14, Zenon DEF SenderDropped, FailWith, Entry
  <2>2. held'[c] \notin alive' \/ Past'
    BY <1>1, <2>1, Zenon DEF FateOf, Past
  <2> QED BY <2>1, <2>2, Zenon DEF FateOf, Before
<1>15. CASE WaitExpires(c)
  <2>1. pc'[c] = "expired" /\ result'[c] # "closed"
    BY <1>0, <1>2, <1>15, Zenon DEF WaitExpires
  <2> QED BY <2>1, OwnMoves, Zenon DEF Before
<1>16. CASE CancelExpired(c)
  <2>1. pc'[c] \in {"closesock", "done"} /\ result'[c] # "closed"
    BY <1>0, <1>16, Zenon DEF CancelExpired
  <2> QED BY <2>1, OwnMoves, Zenon DEF Before
<1>17. CASE CloseSocketOnTimeout(c)
  <2>1. pc'[c] = "done" /\ result'[c] # "closed"
    BY <1>0, <1>2, <1>17, Zenon DEF CloseSocketOnTimeout
  <2> QED BY <2>1, OwnMoves, Zenon DEF Before
<1>18. CASE Cancel(c)
  <2>1. pc[c] = "cancel" /\ pc'[c] = "done" /\ UNCHANGED <<held, alive, result, down, life>>
    BY <1>0, <1>18, Zenon DEF Cancel
  <2> QED BY <1>1, <2>1, Zenon DEF FateOf, Before, Past
<1> QED BY <1>3, <1>4, <1>5, <1>6, <1>7, <1>8, <1>9, <1>10, <1>11, <1>12, <1>13, <1>14, <1>15,
           <1>16, <1>17, <1>18, Zenon DEF CallStep, Connect, Write

\* shutdown() and start() alternate.
LEMMA LifeCountStep == IInv /\ Fate /\ [Next]_vars => LifeCount'
<1> SUFFICES ASSUME IInv, Fate, [Next]_vars PROVE LifeCount'
  BY Zenon
<1>1. LifeCount /\ LifeInv /\ life \in Nat
  BY Zenon DEF Fate, IInv, TypeOK
<1>2. CASE UNCHANGED lifeVars
  BY <1>1, <1>2, Zenon DEF LifeCount, lifeVars
<1>3. CASE ShutdownSwap
  BY <1>1, <1>3 DEF LifeCount, LifeInv, ShutdownSwap
<1>4. CASE ShutdownSnapshot
  BY <1>1, <1>4, Zenon DEF LifeCount, ShutdownSnapshot
<1>5. CASE \E a \in Addr : ShutdownClose(a)
  BY <1>1, <1>5 DEF LifeCount, ShutdownClose
<1>6. CASE ShutdownClear
  BY <1>1, <1>6, Zenon DEF LifeCount, ShutdownClear
<1>7. CASE Start
  BY <1>1, <1>7 DEF LifeCount, Start
<1>8. CASE \/ \E c \in Caller, k \in CallKind : Invoke(c, k)
           \/ \E c \in Caller : CallStep(c)
  <2>1. UNCHANGED lifeVars
    BY <1>8, ZenonT(60) DEF Invoke, CallStep, RegisterPending, CheckRunning, Lookup, AcquireGate, Recheck,
         Connect, ConnectFails, ConnectOk, Publish, EnsureSweeper, Write, WriteOk, WriteFails,
         CloseAfterWriteFailure, AttachPendingConn, GotResponse, Reconnect, SenderDropped,
         WaitExpires, CancelExpired, CloseSocketOnTimeout, Cancel
  <2> QED BY <1>2, <2>1, Zenon
<1>9. CASE Environment
  <2>1. UNCHANGED lifeVars
    BY <1>9, Zenon DEF Environment, DispatchResponse, DispatchRequest, ReaderExits, WriterExits,
                OnConnectionLost
  <2> QED BY <1>2, <2>1, Zenon
<1>10. CASE (\E S \in SUBSET Addr : SweepIdle(S)) \/ SweeperEnds \/ \E a \in Addr : CloseByAddress(a)
  <2>1. UNCHANGED lifeVars
    BY <1>10, Zenon DEF SweepIdle, SweeperEnds, CloseByAddress
  <2> QED BY <1>2, <2>1, Zenon
<1>11. CASE UNCHANGED vars
  BY <1>2, <1>11, Zenon DEF vars
<1> QED BY <1>3, <1>4, <1>5, <1>6, <1>7, <1>8, <1>9, <1>10, <1>11, Zenon DEF Next, Lifecycle

\* A task that leaves its loop leaves one of the connections in use.
LEMMA LeaveStep == IInv /\ Fate /\ [Next]_vars => LeaversReal'
<1> SUFFICES ASSUME IInv, Fate, [Next]_vars PROVE LeaversReal'
  BY Zenon
<1>1. LeaversReal
  BY Zenon DEF Fate
<1>2. \A k \in reading \cup writing : k # NoConn
  BY DEF IInv, SocketsAccounted, PrivateConn, Published, NoConn, TypeOK
<1>3. CASE \E k \in reading : ReaderExits(k)
  BY <1>1, <1>2, <1>3 DEF ReaderExits, LeaversReal
<1>4. CASE \E k \in writing : WriterExits(k)
  BY <1>1, <1>2, <1>4 DEF WriterExits, LeaversReal
<1>5. ASSUME leaving' \subseteq leaving PROVE LeaversReal'
  BY <1>1, <1>5, Zenon DEF LeaversReal
<1>6. CASE \E t \in leaving : OnConnectionLost(t)
  BY <1>5, <1>6, Zenon DEF OnConnectionLost
<1>7. CASE \/ \E c \in Caller, k \in CallKind : Invoke(c, k)
           \/ \E c \in Caller : CallStep(c)
  <2>1. leaving' = leaving
    BY <1>7, ZenonT(60) DEF Invoke, CallStep, RegisterPending, CheckRunning, Lookup, AcquireGate, Recheck,
         Connect, ConnectFails, ConnectOk, Publish, EnsureSweeper, Write, WriteOk, WriteFails,
         CloseAfterWriteFailure, AttachPendingConn, GotResponse, Reconnect, SenderDropped,
         WaitExpires, CancelExpired, CloseSocketOnTimeout, Cancel
  <2> QED BY <1>5, <2>1, Zenon
<1>8. CASE Lifecycle
  <2>1. leaving' = leaving
    BY <1>8, Zenon DEF Lifecycle, SweepIdle, SweeperEnds, CloseByAddress, ShutdownSwap,
                ShutdownSnapshot, ShutdownClose, ShutdownClear, Start
  <2> QED BY <1>5, <2>1, Zenon
<1>9. CASE \/ \E f \in wire, code \in {"ok", "goaway"} : DispatchResponse(f, code)
           \/ \E k \in reading, o \in BrokerOpaque : DispatchRequest(k, o)
  <2>1. leaving' = leaving
    BY <1>9, Zenon DEF DispatchResponse, DispatchRequest
  <2> QED BY <1>5, <2>1, Zenon
<1>10. CASE UNCHANGED vars
  BY <1>5, <1>10, Zenon DEF vars
<1> QED BY <1>3, <1>4, <1>6, <1>7, <1>8, <1>9, <1>10, Zenon DEF Next, Environment

\* A live connection leaves the table only when it is marked dead, and the
\* hands of its opener only for the table.
LEMMA AliveStep == IInv /\ Fate /\ [Next]_vars => AliveAccounted'
<1> SUFFICES ASSUME IInv, Fate, [Next]_vars PROVE AliveAccounted'
  BY Zenon
<1> USE DEF connVars, lifeVars, callVars
<1>1. AliveAccounted /\ OneConnector /\ conns \in [Addr -> Nat] /\ addr \in [Caller -> Addr]
      /\ pc \in [Caller -> Location] /\ held \in [Caller -> Nat]
  BY Zenon DEF Fate, IInv, TypeOK
<1> DEFINE Hands(k) == \E c \in Caller : pc[c] = "publish" /\ held[c] = k
<1>2. ASSUME \A k \in alive' : k \in alive, \A k \in Published : k \in alive' => k \in Published',
             \A c \in Caller : pc[c] = "publish" => pc'[c] = "publish" /\ held'[c] = held[c]
      PROVE  AliveAccounted'
  BY <1>1, <1>2, Zenon DEF AliveAccounted
<1>3. ASSUME NEW S \in SUBSET Addr, CloseChannels(S)
      PROVE  /\ \A k \in alive' : k \in alive
             /\ \A k \in Published : k \in alive' => k \in Published'
  BY <1>1, <1>3, Zenon DEF CloseChannels, Published
<1>4. ASSUME NEW d \in Caller, pc[d] # "publish", NEW l, pc' = [pc EXCEPT ![d] = l],
             \A c \in Caller : c # d => held'[c] = held[c]
      PROVE  \A c \in Caller : pc[c] = "publish" => pc'[c] = "publish" /\ held'[c] = held[c]
  BY <1>1, <1>4, Zenon
<1>5. ASSUME NEW c \in Caller, ConnectOk(c) PROVE AliveAccounted'
  <2>1. /\ alive' = alive \cup {nextConn} /\ conns' = conns
        /\ pc'[c] = "publish" /\ held'[c] = nextConn
        /\ \A d \in Caller : d # c => pc'[d] = pc[d] /\ held'[d] = held[d]
        /\ pc[c] # "publish"
    BY <1>1, <1>5, Zenon DEF ConnectOk, Goto
  <2>2. Published' = Published
    BY <2>1, Zenon DEF Published
  <2> QED BY <1>1, <2>1, <2>2 DEF AliveAccounted
<1>6. ASSUME NEW c \in Caller, Publish(c) PROVE AliveAccounted'
  <2>1. pc[c] = "publish" /\ ~Existing(addr[c]) /\ addr[c] \in Addr
    BY <1>1, <1>6, Zenon DEF Publish, OneConnector
  <2>2. /\ alive' = alive /\ conns' = [conns EXCEPT ![addr[c]] = held[c]] /\ held' = held
        /\ \A d \in Caller : d # c => pc'[d] = pc[d]
    BY <1>1, <1>6, <2>1, Zenon DEF Publish, Goto
  <2>3. \A k \in Published : k \in alive => k \in Published'
    BY <1>1, <2>1, <2>2, Zenon DEF Published, Existing
  <2>4. held[c] \in alive => held[c] \in Published'
    BY <1>1, <2>1, <2>2 DEF Published, NoConn, IInv, FreshConn
  <2> QED BY <1>1, <2>1, <2>2, <2>3, <2>4 DEF AliveAccounted
<1>7. ASSUME NEW c \in Caller, Reconnect(c) \/ CloseAfterWriteFailure(c) \/ CloseSocketOnTimeout(c)
      PROVE  AliveAccounted'
  <2>1. {addr[c]} \in SUBSET Addr /\ CloseChannels({addr[c]}) /\ pc[c] # "publish"
        /\ \A d \in Caller : d # c => held'[d] = held[d]
    BY <1>1, <1>7 DEF Reconnect, CloseAfterWriteFailure, CloseSocketOnTimeout, CloseChannel
  <2>2. \E l : pc' = [pc EXCEPT ![c] = l]
    BY <1>7, Zenon DEF Reconnect, CloseAfterWriteFailure, CloseSocketOnTimeout, FailWith, Goto
  <2> QED BY <1>2, <1>3, <1>4, <2>1, <2>2, ZenonT(60)
<1>8. ASSUME NEW c \in Caller,
             \/ \E k \in CallKind : Invoke(c, k)
             \/ RegisterPending(c) \/ CheckRunning(c) \/ Lookup(c) \/ AcquireGate(c) \/ Recheck(c)
             \/ ConnectFails(c) \/ EnsureSweeper(c) \/ Write(c) \/ AttachPendingConn(c)
             \/ GotResponse(c) \/ SenderDropped(c) \/ WaitExpires(c) \/ CancelExpired(c)
             \/ Cancel(c)
      PROVE  AliveAccounted'
  <2>1. alive' \subseteq alive /\ conns' = conns
    BY <1>8, Zenon DEF Invoke, RegisterPending, CheckRunning, Lookup, AcquireGate, Recheck,
         ConnectFails, EnsureSweeper, Write, WriteOk, WriteFails, AttachPendingConn, GotResponse,
         SenderDropped, WaitExpires, CancelExpired, Cancel
  <2>2. \A d \in Caller : d # c => held'[d] = held[d] /\ pc'[d] = pc[d]
    BY <1>1, <1>8, Zenon DEF Invoke, RegisterPending, CheckRunning, Lookup, AcquireGate, Recheck,
         ConnectFails, EnsureSweeper, Write, WriteOk, WriteFails, AttachPendingConn, GotResponse,
         SenderDropped, WaitExpires, CancelExpired, Cancel, FailWith, Goto
  <2>3. pc[c] # "publish"
    BY <1>8, Zenon DEF Invoke, RegisterPending, CheckRunning, Lookup, AcquireGate, Recheck,
         ConnectFails, EnsureSweeper, Write, WriteOk, WriteFails, AttachPendingConn, GotResponse,
         SenderDropped, WaitExpires, CancelExpired, Cancel
  <2> QED BY <1>2, <2>1, <2>2, <2>3, Zenon DEF Published
<1>9. ASSUME pc' = pc, held' = held, conns' = conns, alive' = alive PROVE AliveAccounted'
  BY <1>2, <1>9, Zenon DEF Published
<1>10. CASE Environment
  <2>1. ASSUME NEW t \in leaving, OnConnectionLost(t) PROVE AliveAccounted'
    <3>1. \A k \in Published : k \in alive' => k \in Published'
      BY <1>1, <2>1, Zenon DEF OnConnectionLost, Mine, Published
    <3> QED BY <1>2, <2>1, <3>1, Zenon DEF OnConnectionLost
  <2> QED BY <1>9, <1>10, <2>1, Zenon DEF Environment, DispatchResponse, DispatchRequest, ReaderExits,
                                   WriterExits
<1>11. CASE Lifecycle
  <2>1. pc' = pc /\ held' = held
    BY <1>11, Zenon DEF Lifecycle, SweepIdle, SweeperEnds, CloseByAddress, ShutdownSwap,
                 ShutdownSnapshot, ShutdownClose, ShutdownClear, Start
  <2>2. (\E S \in SUBSET Addr : CloseChannels(S)) \/ UNCHANGED <<conns, alive>>
    <3>1. ASSUME NEW a \in Addr, CloseChannel(a) PROVE \E S \in SUBSET Addr : CloseChannels(S)
      BY <3>1, Zenon DEF CloseChannel
    <3> QED BY <1>11, <3>1, Zenon DEF Lifecycle, SweepIdle, SweeperEnds, CloseByAddress, ShutdownSwap,
                               ShutdownSnapshot, ShutdownClose, ShutdownClear, Start
  <2> QED BY <1>2, <1>3, <1>9, <2>1, <2>2, Zenon
<1>12. CASE UNCHANGED vars
  BY <1>9, <1>12, Zenon DEF vars
<1> QED BY <1>5, <1>6, <1>7, <1>8, <1>10, <1>11, <1>12, Zenon DEF Next, CallStep, Connect

\* Until the first shutdown() the slot is empty or has a live sweeper, and
\* whoever publishes goes on to fill it.
LEMMA SweeperStep == IInv /\ Fate /\ [Next]_vars => SweeperInv'
<1> SUFFICES ASSUME IInv, Fate, [Next]_vars, life' = 0 PROVE
        /\ sweeper' # "ended"
        /\ Published' # {} => sweeper' = "live" \/ \E c \in Caller : pc'[c] = "ensure"
  BY Zenon DEF SweeperInv
<1> USE DEF connVars, lifeVars, callVars
<1> DEFINE Covered == Published # {} => sweeper = "live" \/ \E c \in Caller : pc[c] = "ensure"
           Goal == sweeper' # "ended" /\ Covered'
<1>1. /\ life \in Nat /\ LifeCount /\ LifeInv /\ pc \in [Caller -> Location]
      /\ sweeper \in {"none", "live", "ended"} /\ conns \in [Addr -> Nat]
  BY Zenon DEF IInv, Fate, TypeOK
<1>2. life = 0 /\ ~ShutdownSwap /\ ~ShutdownSnapshot /\ ~Start
  <2>1. ~ShutdownSwap /\ ~Start
    BY <1>1, SMTT(30) DEF ShutdownSwap, Start
  <2>2. life = 0
    BY <2>1, ZenonT(60) DEF Next, Invoke, CallStep, RegisterPending, CheckRunning, Lookup, AcquireGate, Recheck,
         Connect, ConnectFails, ConnectOk, Publish, EnsureSweeper, Write, WriteOk, WriteFails,
         CloseAfterWriteFailure, AttachPendingConn, GotResponse, Reconnect, SenderDropped,
         WaitExpires, CancelExpired, CloseSocketOnTimeout, Cancel, Environment, DispatchResponse,
         DispatchRequest, ReaderExits, WriterExits, OnConnectionLost, Lifecycle, SweepIdle,
         SweeperEnds, CloseByAddress, ShutdownSnapshot, ShutdownClose, ShutdownClear, vars
  <2>3. ~ShutdownSnapshot
    BY <1>1, <2>2 DEF LifeCount, ShutdownSnapshot
  <2> QED BY <2>1, <2>2, <2>3, Zenon
<1>3. sweeper # "ended" /\ Covered /\ running
  BY <1>1, <1>2 DEF Fate, SweeperInv, LifeCount, LifeInv
<1>4. ASSUME sweeper' = sweeper, Published' \subseteq Published,
             \A c \in Caller : pc[c] = "ensure" => pc'[c] = "ensure"
      PROVE  Goal
  BY <1>3, <1>4, Zenon
<1>5. ASSUME NEW c \in Caller, EnsureSweeper(c) PROVE Goal
  BY <1>1, <1>3, <1>5, Zenon DEF EnsureSweeper, SweeperSlot
<1>6. ASSUME NEW c \in Caller, Publish(c) PROVE Goal
  <2>1. ~Existing(addr[c]) /\ sweeper' = sweeper
    BY <1>6, Zenon DEF Publish, IInv, OneConnector
  <2>2. pc'[c] = "ensure"
    BY <1>1, <1>6, <2>1, Zenon DEF Publish, Goto
  <2> QED BY <1>3, <2>1, <2>2, Zenon
<1>7. ASSUME NEW S \in SUBSET Addr, CloseChannels(S) PROVE Published' \subseteq Published
  BY <1>1, <1>7, Zenon DEF CloseChannels, Published
<1>8. ASSUME NEW c \in Caller, Reconnect(c) \/ CloseAfterWriteFailure(c) \/ CloseSocketOnTimeout(c)
      PROVE  Goal
  <2>1. {addr[c]} \in SUBSET Addr /\ CloseChannels({addr[c]}) /\ sweeper' = sweeper /\ pc[c] # "ensure"
    BY <1>8, Zenon DEF Reconnect, CloseAfterWriteFailure, CloseSocketOnTimeout, CloseChannel, IInv, TypeOK
  <2>2. \A d \in Caller : d # c => pc'[d] = pc[d]
    BY <1>1, <1>8, Zenon DEF Reconnect, CloseAfterWriteFailure, CloseSocketOnTimeout, FailWith, Goto
  <2> QED BY <1>4, <1>7, <2>1, <2>2, Zenon
<1>9. ASSUME NEW c \in Caller,
             \/ \E k \in CallKind : Invoke(c, k)
             \/ RegisterPending(c) \/ CheckRunning(c) \/ Lookup(c) \/ AcquireGate(c) \/ Recheck(c)
             \/ Connect(c) \/ Write(c) \/ AttachPendingConn(c) \/ GotResponse(c)
             \/ SenderDropped(c) \/ WaitExpires(c) \/ CancelExpired(c) \/ Cancel(c)
      PROVE  Goal
  <2>1. sweeper' = sweeper /\ conns' = conns
    BY <1>9, Zenon DEF Invoke, RegisterPending, CheckRunning, Lookup, AcquireGate, Recheck, Connect,
         ConnectFails, ConnectOk, Write, WriteOk, WriteFails, AttachPendingConn, GotResponse,
         SenderDropped, WaitExpires, CancelExpired, Cancel
  <2>2. \A d \in Caller : d # c => pc'[d] = pc[d]
    BY <1>1, <1>9, Zenon DEF Invoke, RegisterPending, CheckRunning, Lookup, AcquireGate, Recheck, Connect,
         ConnectFails, ConnectOk, Write, WriteOk, WriteFails, AttachPendingConn, GotResponse,
         SenderDropped, WaitExpires, CancelExpired, Cancel, FailWith, Goto
  <2>3. pc[c] # "ensure"
    BY <1>9, Zenon DEF Invoke, RegisterPending, CheckRunning, Lookup, AcquireGate, Recheck, Connect,
         ConnectFails, ConnectOk, Write, WriteOk, WriteFails, AttachPendingConn, GotResponse,
         SenderDropped, WaitExpires, CancelExpired, Cancel
  <2> QED BY <1>4, <2>1, <2>2, <2>3, Zenon DEF Published
<1>10. CASE Environment
  <2>1. sweeper' = sweeper /\ pc' = pc
    BY <1>10, Zenon DEF Environment, DispatchResponse, DispatchRequest, ReaderExits, WriterExits,
                 OnConnectionLost
  <2>2. Published' \subseteq Published
    BY <1>1, <1>10, Zenon DEF Environment, DispatchResponse, DispatchRequest, ReaderExits, WriterExits,
                 OnConnectionLost, Published
  <2> QED BY <1>4, <2>1, <2>2, Zenon
<1>11. CASE Lifecycle
  <2>1. sweeper' = sweeper /\ pc' = pc
    BY <1>2, <1>3, <1>11, Zenon DEF Lifecycle, SweepIdle, SweeperEnds, IsRunning, CloseByAddress,
                             ShutdownClose, ShutdownClear
  <2>2. (\E S \in SUBSET Addr : CloseChannels(S)) \/ conns' = conns
    <3>1. ASSUME NEW a \in Addr, CloseChannel(a) PROVE \E S \in SUBSET Addr : CloseChannels(S)
      BY <3>1, Zenon DEF CloseChannel
    <3> QED BY <1>2, <1>11, <3>1, Zenon DEF Lifecycle, SweepIdle, SweeperEnds, CloseByAddress,
                                     ShutdownClose, ShutdownClear
  <2>3. Published' \subseteq Published
    BY <1>7, <2>2, Zenon DEF Published
  <2> QED BY <1>4, <2>1, <2>3, Zenon
<1>12. CASE UNCHANGED vars
  BY <1>4, <1>12, Zenon DEF vars, Published
<1> QED BY <1>2, <1>5, <1>6, <1>8, <1>9, <1>10, <1>11, <1>12, Zenon DEF Next, CallStep

\* Every step keeps the fate of every call.
LEMMA FateStep == IInv /\ Fate /\ [Next]_vars => Fate'
<1> SUFFICES ASSUME IInv, Fate, [Next]_vars PROVE Fate'
  BY Zenon
<1>1. ASSUME NEW c \in Caller PROVE FateOf(c)'
  <2>1. CASE UNCHANGED vars
    BY <2>1, Zenon DEF Fate, FateOf, Entry, Past, vars, connVars, lifeVars, callVars
  <2>2. CASE Environment \/ Lifecycle
    BY <2>2, EnvironmentFate, Zenon
  <2>3. ASSUME NEW d \in Caller, CallStep(d) \/ \E k \in CallKind : Invoke(d, k) PROVE FateOf(c)'
    <3>1. CASE c = d
      BY <2>3, <3>1, OwnFate, Zenon
    <3>2. CASE c # d
      BY <2>3, <3>2, OtherFate, Zenon
    <3> QED BY <3>1, <3>2, Zenon
  <2> QED BY <2>1, <2>2, <2>3, Zenon DEF Next
<1> QED BY <1>1, LifeCountStep, AliveStep, LeaveStep, SweeperStep, Zenon DEF Fate

\* A new client has neither calls nor connections.
LEMMA InitFate == Init => Fate
<1> SUFFICES ASSUME Init PROVE Fate
  BY Zenon
<1>1. LifeCount /\ AliveAccounted /\ LeaversReal
  BY DEF Init, LifeCount, AliveAccounted, LeaversReal
<1>2. \A a \in Addr : conns[a] = NoConn
  BY Zenon DEF Init
<1>3. Published = {} /\ sweeper = "none"
  BY <1>2, Zenon DEF Init, Published
<1>4. SweeperInv
  BY <1>3, Zenon DEF SweeperInv
<1>5. ASSUME NEW c \in Caller PROVE FateOf(c)
  <2>1. pc[c] = "idle" /\ result[c] = "none"
    BY Zenon DEF Init
  <2>2. pc[c] \notin Before /\ pc[c] # "wbroken" /\ pc[c] # "wait" /\ result[c] # "closed"
    BY <2>1, Zenon DEF Before
  <2> QED BY <2>2, Zenon DEF FateOf
<1> QED BY <1>1, <1>4, <1>5, Zenon DEF Fate

-----------------------------------------------------------------------------
(* The theorems *)

\* A new client satisfies the inductive invariant.
LEMMA InitInv == Init => IInv
<1> SUFFICES ASSUME Init PROVE IInv
  BY Zenon
<1>1. TypeOK
  <2>1. rx \in [Caller -> Response]
    BY Zenon DEF Init, Response, Empty
  <2>2. pc \in [Caller -> Location] /\ result \in [Caller -> Outcome]
    BY Zenon DEF Init, Location, Outcome
  <2>3. gate \in [Addr -> Caller \cup {NoCaller}] /\ conns \in [Addr -> Nat]
    BY Zenon DEF Init, NoConn
  <2>4. running \in BOOLEAN
    BY Zenon DEF Init
  <2>5. wire \in SUBSET Frame /\ pending \in SUBSET Pending
    BY Zenon DEF Init
  <2>6. /\ nextConn \in Nat \ {0} /\ nextOpaque \in Nat /\ life \in Nat
        /\ opq \in [Caller -> Nat] /\ attempt \in [Caller -> {1, 2}]
        /\ held \in [Caller -> Nat]
    BY DEF Init, NoConn
  <2>7. QED
    BY <2>1, <2>2, <2>3, <2>4, <2>5, <2>6, Zenon DEF Init, TypeOK
<1>2. FreshOpaque /\ FreshConn /\ OpaqueUnique
  BY DEF Init, FreshOpaque, FreshConn, OpaqueUnique, NoConn
<1>3. GateInv /\ PrivateConn /\ CallInv /\ OneConnector
  BY Zenon DEF Init, GateInv, GateHeld, PrivateConn, CallInv, OneConnector
<1>4. RxInv /\ LifeInv /\ PendingReclaimed /\ SocketsAccounted /\ ShutdownSettles
  BY Zenon DEF Init, RxInv, LifeInv, PendingReclaimed, SocketsAccounted, ShutdownSettles
<1>5. QED
  BY <1>1, <1>2, <1>3, <1>4, Zenon DEF IInv

\* Every step preserves it, conjunct by conjunct.
LEMMA StepInv == IInv /\ [Next]_vars => IInv'
BY TypeStep, FreshOpaqueStep, FreshConnStep, OpaqueStep, GateStep, ConnectorStep, PrivateStep,
   SocketsStep, CallLemma, PendingStep, RxStep, LifeStep, SettleStep, Zenon DEF IInv

\* The inductive invariant holds in every reachable state.
THEOREM Invariance == Spec => []IInv
BY InitInv, StepInv, PTL DEF Spec

\* Type correctness; that attempt stays within {1, 2} is the promise of the
\* GO_AWAY path: one resend, so no call ever makes a third attempt.
THEOREM TypeCorrect == Spec => []TypeOK
<1>1. IInv => TypeOK
  BY Zenon DEF IInv
<1>2. QED
  BY Invariance, <1>1, PTL

\* State.pending holds no orphan: every entry belongs to the current attempt
\* of a call that will still cancel it or be completed by it.
THEOREM NoOrphanedEntry == Spec => []PendingReclaimed
<1>1. IInv => PendingReclaimed
  BY Zenon DEF IInv
<1>2. QED
  BY Invariance, <1>1, PTL

\* The connect gate works: no call connects, or is about to publish, while its
\* address has a live connection.
THEOREM NoSecondConnection == Spec => []OneConnector
<1>1. IInv => OneConnector
  BY Zenon DEF IInv
<1>2. QED
  BY Invariance, <1>1, PTL

\* No reader or writer task is leaked: its connection is in State.conns or
\* with the one call that is about to put it there.
THEOREM NoLeakedSocket == Spec => []SocketsAccounted
<1>1. IInv => SocketsAccounted
  BY Zenon DEF IInv
<1>2. QED
  BY Invariance, <1>1, PTL

\* After shutdown() no call waits for a response any more.
THEOREM ShutdownLeavesNoWaiter == Spec => []ShutdownSettles
<1>1. IInv => ShutdownSettles
  BY Zenon DEF IInv
<1>2. QED
  BY Invariance, <1>1, PTL

\* dispatch routes by opaque alone: if no opaque the peer draws for its own
\* requests can be one of ours (which start at 1), a call is completed only by
\* the response to its current attempt.
THEOREM ResponseRouting ==
    ASSUME BrokerOpaque \subseteq {0}
    PROVE  Spec => []OwnResponse
<1>1. Init => OwnResponse
  BY Zenon DEF Init, OwnResponse
<1>2. IInv /\ OwnResponse /\ [Next]_vars => OwnResponse'
  BY OwnStep, Zenon
<1>3. QED
  BY Invariance, <1>1, <1>2, PTL DEF Spec

\* A call fails with "connection closed" only because the connection its frame
\* was written on is dead (fail_pending_for claims by connection id), or at
\* shutdown; and before the client is started again no published connection
\* is without a sweeper or a call about to run ensure_sweeper.
THEOREM FateIsOwn == Spec => []OwnFateOnly
<1>1. IInv /\ Fate => OwnFateOnly
  <2> SUFFICES ASSUME IInv, Fate PROVE OwnFateOnly
    BY Zenon
  <2>1. ClosedOnlyWithOwnConnection
    BY ZenonT(60) DEF Fate, FateOf, Past, ClosedOnlyWithOwnConnection
  <2>2. life < 2 => SweeperCovers
    BY DEF Fate, LifeCount, SweeperInv, SweeperCovers, IInv, TypeOK
  <2>3. QED
    BY <2>1, <2>2, Zenon DEF OwnFateOnly
<1>2. QED
  BY Invariance, InitFate, FateStep, <1>1, PTL DEF Spec

\* The oneshot of an attempt is completed at most once: once a response is
\* there, only the resend after GO_AWAY takes it away, with a new attempt.
CompletedOnce ==
    \A c \in Caller : rx[c] # Empty /\ rx'[c] # rx[c] =>
        rx'[c] = Empty /\ attempt'[c] = attempt[c] + 1

\* dispatch never completes a call twice, whatever the peer answers or pushes.
THEOREM NeverCompletedTwice == Spec => [][CompletedOnce]_vars
<1>1. IInv /\ [Next]_vars => [CompletedOnce]_vars
  <2> SUFFICES ASSUME IInv, Next PROVE CompletedOnce
    BY Zenon
  <2> USE DEF callVars
  <2>1. ASSUME rx' = rx PROVE CompletedOnce
    BY <2>1, Zenon DEF CompletedOnce
  <2>2. ASSUME NEW o, NEW r, Dispatch(o, r) PROVE CompletedOnce
    BY <2>2, Zenon DEF Dispatch, CompletedOnce, IInv, RxInv
  <2>3. ASSUME NEW c \in Caller, Reconnect(c) PROVE CompletedOnce
    BY <2>3, Zenon DEF Reconnect, CompletedOnce, IInv, TypeOK
  <2>4. CASE Environment
    BY <2>1, <2>2, <2>4, Zenon DEF Environment, DispatchResponse, DispatchRequest, ReaderExits,
                            WriterExits, OnConnectionLost
  <2>5. CASE Lifecycle
    BY <2>1, <2>5, Zenon DEF Lifecycle, SweepIdle, SweeperEnds, CloseByAddress, ShutdownSwap,
                      ShutdownSnapshot, ShutdownClose, ShutdownClear, Start
  <2>6. ASSUME NEW c \in Caller, CallStep(c) \/ \E k \in CallKind : Invoke(c, k)
        PROVE  CompletedOnce
    BY <2>1, <2>3, <2>6, Zenon DEF Invoke, CallStep, RegisterPending, CheckRunning, Lookup, AcquireGate,
         Recheck, Connect, ConnectFails, ConnectOk, Publish, EnsureSweeper, Write, WriteOk,
         WriteFails, CloseAfterWriteFailure, AttachPendingConn, GotResponse, SenderDropped,
         WaitExpires, CancelExpired, CloseSocketOnTimeout, Cancel
  <2>7. QED
    BY <2>4, <2>5, <2>6, Zenon DEF Next
<1>2. QED
  BY Invariance, <1>1, PTL DEF Spec
=============================================================================
