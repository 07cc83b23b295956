----------------------------- MODULE BlockList -----------------------------
(***************************************************************************)
(* What the IP blocker promises (README.md:95 and 100-102), as one atomic  *)
(* list: an address is on it from the moment it is blocked, by an          *)
(* administrator or by its last allowed wrong password, until it is        *)
(* unblocked; nothing else changes the list, and an address on it is not   *)
(* served.  A restart forgets the counted wrong passwords and nothing else.*)
(***************************************************************************)
EXTENDS Naturals

CONSTANTS IPs, Threshold

VARIABLES list, strikes

Init ==
    /\ list = {}
    /\ strikes = [ip \in IPs |-> 0]

Block(ip) ==
    /\ list' = list \cup {ip}
    /\ strikes' = [strikes EXCEPT ![ip] = 0]

Unblock(ip) ==
    /\ list' = list \ {ip}
    /\ UNCHANGED strikes

WrongPassword(ip) ==
    /\ ip \notin list
    /\ \/ /\ strikes[ip] + 1 < Threshold
          /\ strikes' = [strikes EXCEPT ![ip] = @ + 1]
          /\ UNCHANGED list
       \/ /\ strikes[ip] + 1 >= Threshold
          /\ Block(ip)

RightPassword(ip) ==
    /\ ip \notin list
    /\ strikes' = [strikes EXCEPT ![ip] = 0]
    /\ UNCHANGED list

Restart ==
    /\ strikes' = [ip \in IPs |-> 0]
    /\ UNCHANGED list

Next ==
    \/ Restart
    \/ \E ip \in IPs :
        Block(ip) \/ Unblock(ip) \/ WrongPassword(ip) \/ RightPassword(ip)

Spec == Init /\ [][Next]_<<list, strikes>>
=============================================================================
