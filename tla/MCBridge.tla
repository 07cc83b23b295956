------------------------------ MODULE MCBridge ------------------------------
(* Bounds for checking Bridge with TLC. *)
EXTENDS Bridge

TwoUpOneDown == [up |-> 2, down |-> 1]
=============================================================================
