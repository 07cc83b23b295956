------------------------------ MODULE MCAccess ------------------------------
(* Values for checking Access with TLC. *)
EXTENDS Access

CONSTANT d1

OneDashboard == {d1}
=============================================================================
