----------------------------- MODULE MCTunnels -----------------------------
(* Model values and small limits for checking Tunnels with TLC. *)
EXTENDS Tunnels, TLC

CONSTANTS h1, h2, i1, i2, p1, p2

TwoHandlers == {h1, h2}
OneInstance == {i1}
TwoInstances == {i1, i2}
TwoPorts == {p1, p2}

NoInputs == {}
ZeroOrTwo == {0, 2}

\* Ports are interchangeable, and so are handlers and instances; used in a run
\* that checks no liveness.
Interchangeable ==
    Permutations(Handlers) \cup Permutations(Instances) \cup Permutations(Ports)
=============================================================================
