---------------------------- MODULE MCStartNet ----------------------------
(***************************************************************************)
(* TLC instance of StartNet: two transmitters, of which only the first has *)
(* the receiver's firmware when they start.                                *)
(***************************************************************************)
EXTENDS StartNet

CONSTANTS rx, c1, c2, v1, v2

MCMixed == {[n \in Nodes |-> IF n = c2 THEN v2 ELSE v1]}
=============================================================================
