----------------------------- MODULE MCPhyQueue -----------------------------
(* TLC instances of PhyQueue: the four slots of hidusb.c. *)
EXTENDS PhyQueue
=============================================================================
