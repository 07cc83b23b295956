---------------------------- MODULE MCHostnames ----------------------------
(* Values for checking Hostnames with TLC. *)
EXTENDS Hostnames

CONSTANTS c1, c2, a1

TwoClients == {c1, c2}

\* One address, which goes from client to client.
OneAddress == {a1}

\* Every text of up to four characters, for labels of up to three.
AllTexts == UNION {[1..n -> {Upper, Hyphen, Blank, Other}] : n \in 1..4}

\* The label of the first is cut after a hyphen, that of the second is a friendly name.
TwoTexts == {<<Upper, Upper, Hyphen, Upper>>, <<Blank, Upper, Upper>>}

\* adjective-noun, and adjective-noun-xxxx
OneFriendly == {<<Lower, Lower>>}
OneFallback == {<<Lower, Lower, Lower>>}
=============================================================================
