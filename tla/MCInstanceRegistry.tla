------------------------- MODULE MCInstanceRegistry -------------------------
(* Producers and a push consumer of one client id that start and leave at  *)
(* the same time.                                                          *)
EXTENDS InstanceRegistry, TLC

Senders == (1 :> "producer") @@ (2 :> "push") @@ (3 :> "producer")
=============================================================================
