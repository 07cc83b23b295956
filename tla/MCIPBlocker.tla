---------------------------- MODULE MCIPBlocker ----------------------------
(* Model values for checking IPBlocker with TLC. *)
EXTENDS IPBlocker

CONSTANTS t1, t2, ip1, ip2

TwoThreads == {t1, t2}
TwoIPs == {ip1, ip2}
=============================================================================
