------------------------------- MODULE MCKick -------------------------------
(* Model values for checking Kick with TLC: two clients with an address each,  *)
(* so that a wrong port hits a wrong client, and one instance.                *)
EXTENDS Kick, TLC

CONSTANTS c1, c2, i1, a1, a2, p1, p2, r1

TwoClients == {c1, c2}
OneInstance == {i1}
TwoAddresses == {a1, a2}
TwoPorts == {p1, p2}
OneRequest == {r1}
SameServer == [c \in TwoClients |-> i1]
OwnAddress == (c1 :> a1) @@ (c2 :> a2)
=============================================================================
