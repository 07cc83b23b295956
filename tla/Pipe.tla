-------------------------------- MODULE Pipe --------------------------------
(***************************************************************************)
(* What a bridge promises to the two programs at its ends: a stream of     *)
(* bytes in each direction, of which the receiver sees a growing prefix,   *)
(* nothing twice and nothing in another order.  A chunk is named by its    *)
(* position in the stream.                                                 *)
(***************************************************************************)
EXTENDS Integers, Sequences

VARIABLES
    sent,     \* number of chunks sent in each direction
    got       \* the chunks received in each direction

vars == <<sent, got>>

Directions == {"up", "down"}

Init ==
    /\ sent = [d \in Directions |-> 0]
    /\ got = [d \in Directions |-> <<>>]

Send(d) ==
    /\ sent' = [sent EXCEPT ![d] = @ + 1]
    /\ UNCHANGED got

Receive(d) ==
    /\ Len(got[d]) < sent[d]
    /\ got' = [got EXCEPT ![d] = Append(@, Len(@) + 1)]
    /\ UNCHANGED sent

Next == \E d \in Directions : Send(d) \/ Receive(d)

Spec == Init /\ [][Next]_vars
=============================================================================
