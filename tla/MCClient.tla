------------------------------ MODULE MCClient ------------------------------
(* Command lines and bounds for checking Client with TLC. *)
EXTENDS Client, SequencesExt

CONSTANTS r1, r2

TwoRuns == {r1, r2}
SomePorts == {"11194", "11195", "8080"}
SomeFiles ==
    [a |-> [url |-> "a", port |-> "", config |-> ""],
     b |-> [url |-> "b", port |-> "11195", config |-> "own"]]
OwnFile == [own |-> "11195"]

Some ==
    {<<Word("connect"), Word("a")>>,
     <<Word("connect"), Flag("f"), Word("b")>>,
     <<Word("connect"), Word("a"), Given("f", "lost")>>,
     <<Word("proxy"), Word("b")>>,
     <<Word("proxy"), Word("a"), Flag("port"), Word("8080"), Given("http-port", "0")>>,
     <<Word("connect"), Word("b"), Flag("port"), Word("11195")>>}

\* A subcommand, a URL, a file and two flags, each in the ways it may be written.
Pieces ==
    {{<<Word("connect")>>}, {<<Word("a")>>},
     {<<Flag("f"), Word("b")>>, <<Given("f", "b")>>},
     {<<Flag("port"), Word("8080")>>, <<Given("port", "8080")>>},
     {<<Flag("config"), Word("own")>>, <<Given("http-port", "0")>>}}

\* Every order of any of these, and the same with a second port at the end.
Orders ==
    LET chosen == {P \in SUBSET UNION Pieces : \A S \in Pieces : Cardinality(P \cap S) <= 1}
    IN  {FlattenSeq(order) : order \in UNION {SetToSeqs(P) : P \in chosen}}
Twice == {args \o <<Flag("port"), Word("11195")>> : args \in Orders}
Typed == Some \cup Orders \cup Twice
=============================================================================
