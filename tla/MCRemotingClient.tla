-------------------------- MODULE MCRemotingClient --------------------------
(***************************************************************************)
(* Small instances of RemotingClient.  They share its variables, and part  *)
(* says which of them a behaviour belongs to: the module's own constants   *)
(* (one-way calls, requests pushed by the peer, shutdown and restart) or   *)
(* those of one of the instances below, which make synchronous calls.      *)
(***************************************************************************)
EXTENDS RemotingClient, TLC

CONSTANTS
    Parts  \* the instances that may run

VARIABLES
    part

(* The peer announces that it goes away; a timeout closes the connection.  *)
GoAway == INSTANCE RemotingClient WITH CallKind <- {"sync"}, BrokerOpaque <- {}, MaxLife <- 0,
    ReconnectGoAway <- TRUE, CloseOnTimeout <- TRUE
(* The peer's requests have opaques of their own.                          *)
Pushed == INSTANCE RemotingClient WITH CallKind <- {"sync"}, MaxLife <- 0,
    ReconnectGoAway <- FALSE, CloseOnTimeout <- FALSE
(* The client is shut down and started again with one connection to make.  *)
Restarted == INSTANCE RemotingClient WITH CallKind <- {"sync"}, BrokerOpaque <- {}, MaxLife <- 2,
    MaxConn <- 1, ReconnectGoAway <- FALSE, CloseOnTimeout <- FALSE

PartsInit == part \in Parts /\ Init
PartsNext ==
    /\ \/ part = "own" /\ Next
       \/ part = "goaway" /\ GoAway!Next
       \/ part = "pushed" /\ Pushed!Next
       \/ part = "restarted" /\ Restarted!Next
    /\ UNCHANGED part
PartsSpec == PartsInit /\ [][PartsNext]_<<vars, part>>

(* The runtime polls every ready task, a connect ends by its own timeout,  *)
(* a wait by its timer.  Nothing is assumed of the peer.                   *)
LiveSpec ==
    PartsSpec /\ \A c \in Caller : /\ WF_vars(part = "own" /\ CallStep(c))
                                  /\ WF_vars(part = "goaway" /\ GoAway!CallStep(c))

Symmetry == Permutations(Caller) \cup Permutations(Addr)
=============================================================================
