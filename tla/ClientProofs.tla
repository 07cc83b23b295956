---------------------------- MODULE ClientProofs ----------------------------
(***************************************************************************)
(* Theorems about Client for any runs, ports, signals and bounds.          *)
(*                                                                         *)
(* First, about the command line: the loops of main, reorderArgs and the   *)
(* flag package make of any sensible command line what it means.  Each     *)
(* loop has a state after n arguments, and an invariant that says of it    *)
(* what the first n arguments mean; it is proved by induction on n.        *)
(* Then, about the runs: an inductive invariant for their stages.          *)
(*                                                                         *)
(* Len(args) is hidden in a name wherever a function with domain 0..n is   *)
(* at hand: no leaf has both.                                              *)
(***************************************************************************)
EXTENDS Client, SequenceTheorems, WellFoundedInduction, TLAPS

----------------------------------------------------------------------------
(* Loops.                                                                  *)

LEMMA Smallest ==
    ASSUME NEW T \in SUBSET Nat, T # {}
    PROVE  \E m \in T : \A k \in T : m <= k
<1>1. IsWellFoundedOn(OpToRel(<, Nat), Nat)
  BY NatLessThanWellFounded
<1>2. PICK m \in T : \A k \in T : ~(<<k, m>> \in OpToRel(<, Nat))
  BY <1>1, WFMin
<1>3. \A k \in T : ~(k < m)
  BY <1>2 DEF OpToRel
<1> QED
  BY <1>3

LEMMA Induction ==
    ASSUME NEW T, 0 \in T, \A n \in Nat : n \in T => n + 1 \in T
    PROVE  Nat \subseteq T
<1> SUFFICES ASSUME Nat \ T # {}
             PROVE  FALSE
  OBVIOUS
<1>1. PICK m \in Nat \ T : \A k \in Nat \ T : m <= k
  BY Smallest
<1>2. m - 1 \in Nat /\ ~(m <= m - 1)
  BY <1>1
<1>3. m - 1 \in T
  BY <1>1, <1>2
<1> QED
  BY <1>2, <1>3

\* The states of a loop of len rounds, of which the n-th does next[n].
States(len, T, start, next) ==
    {f \in [0..len -> T] : f[0] = start /\ \A n \in 1..len : f[n] = next[n][f[n - 1]]}

\* A loop whose every round stays in T has states.
LEMMA StatesExist ==
    ASSUME NEW len \in Nat, NEW T, NEW start \in T,
           NEW next \in [1..len -> [T -> T]]
    PROVE  States(len, T, start, next) # {}
<1> DEFINE Is(f, m) == f[0] = start /\ \A n \in 1..m : f[n] = next[n][f[n - 1]]
           R == {m \in Nat : m <= len => \E f \in [0..m -> T] : Is(f, m)}
<1>1. 0 \in R
  <2> DEFINE f == [n \in 0..0 |-> start]
  <2>1. f \in [0..0 -> T] /\ Is(f, 0)
    OBVIOUS
  <2> QED
    BY <2>1
<1>2. ASSUME NEW m \in Nat, m \in R
      PROVE  m + 1 \in R
  <2> SUFFICES ASSUME m + 1 <= len
               PROVE  \E g \in [0..(m + 1) -> T] : Is(g, m + 1)
    OBVIOUS
  <2>1. PICK f \in [0..m -> T] : Is(f, m)
    BY <1>2
  <2> DEFINE g == [n \in 0..(m + 1) |-> IF n <= m THEN f[n] ELSE next[m + 1][f[m]]]
  <2>2. g \in [0..(m + 1) -> T]
    <3>1. f[m] \in T /\ m + 1 \in 1..len
      OBVIOUS
    <3> QED
      BY <3>1
  <2>3. ASSUME NEW n \in 1..(m + 1)
        PROVE  g[n] = next[n][g[n - 1]]
    <3>1. n - 1 \in 0..(m + 1) /\ n - 1 <= m /\ g[n - 1] = f[n - 1]
      OBVIOUS
    <3>2. CASE n <= m
      BY <2>1, <3>1, <3>2
    <3>3. CASE n = m + 1
      BY <3>1, <3>3
    <3> QED
      BY <3>2, <3>3
  <2>4. g[0] = start
    BY <2>1
  <2>5. Is(g, m + 1)
    BY <2>3, <2>4
  <2> HIDE DEF Is, g
  <2> QED
    BY <2>2, <2>5
<1>3. len \in R
  BY <1>1, <1>2, Induction
<1> QED
  BY <1>3 DEF States

\* Two loops that begin alike and go on alike end alike.
Alike(len, f, g) ==
    f[0] = g[0] /\ \A n \in 1..len : f[n - 1] = g[n - 1] => f[n] = g[n]

LEMMA LoopsAgree ==
    ASSUME NEW len \in Nat, NEW f, NEW g, Alike(len, f, g)
    PROVE  f[len] = g[len]
<1> USE DEF Alike
<1> DEFINE R == {m \in Nat : m <= len => f[m] = g[m]}
<1>1. 0 \in R
  OBVIOUS
<1>2. ASSUME NEW m \in Nat, m \in R
      PROVE  m + 1 \in R
  BY <1>2
<1>3. len \in R
  BY <1>1, <1>2, Induction
<1> QED
  BY <1>3

Taken == [file : STRING \cup {Nothing}, rest : Seq(Argument), open : BOOLEAN]
NothingTaken == [file |-> Nothing, rest |-> <<>>, open |-> FALSE]

LEMMA TakeType ==
    ASSUME NEW acc \in Taken, NEW a \in Argument
    PROVE  Take(acc, a) \in Taken
<1>1. Append(acc.rest, a) \in Seq(Argument)
  BY AppendProperties DEF Taken
<1> QED
  BY <1>1 DEF Take, Taken, Argument

LEMMA TakeStates ==
    ASSUME NEW len \in Nat, NEW args, \A n \in 1..len : args[n] \in Argument
    PROVE  \E f \in [0..len -> Taken] :
             f[0] = NothingTaken /\ \A n \in 1..len : f[n] = Take(f[n - 1], args[n])
<1>1. NothingTaken \in Taken
  BY EmptySeq DEF NothingTaken, Taken
<1>2. PICK next \in [1..len -> [Taken -> Taken]] :
        next = [n \in 1..len |-> [acc \in Taken |-> Take(acc, args[n])]]
  BY TakeType
<1>3. PICK f \in [0..len -> Taken] :
        f[0] = NothingTaken /\ \A n \in 1..len : f[n] = next[n][f[n - 1]]
  <2>1. States(len, Taken, NothingTaken, next) # {}
    BY <1>1, StatesExist
  <2> QED
    BY <2>1 DEF States
<1>4. \A n \in 1..len : f[n - 1] \in Taken
  OBVIOUS
<1> QED
  BY <1>2, <1>3, <1>4

LEMMA TakeFileSteps ==
    ASSUME NEW args \in Seq(Argument)
    PROVE  \E f : /\ f[0] = NothingTaken
                  /\ \A n \in 0..Len(args) : f[n] \in Taken
                  /\ \A n \in 1..Len(args) : f[n] = Take(f[n - 1], args[n])
                  /\ TakeFile(args) = f[Len(args)]
<1> DEFINE len == Len(args)
           Is(f) == f = [n \in 0..len |-> IF n = 0 THEN NothingTaken ELSE Take(f[n - 1], args[n])]
           state == CHOOSE f : Is(f)
<1>1. len \in Nat /\ \A n \in 1..len : args[n] \in Argument
  BY LenProperties, ElementOfSeq
<1>2. TakeFile(args) = state[len]
  BY DEF TakeFile, Loop, NothingTaken
<1> HIDE DEF len
<1>3. PICK f \in [0..len -> Taken] :
        f[0] = NothingTaken /\ \A n \in 1..len : f[n] = Take(f[n - 1], args[n])
  BY <1>1, TakeStates
<1>4. Is(f)
  BY <1>1, <1>3
<1>5. Is(state)
  BY <1>4
<1> HIDE DEF state
<1>6. state[0] = NothingTaken /\ \A n \in 1..len : state[n] = Take(state[n - 1], args[n])
  BY <1>1, <1>5
<1>7. \A n \in 0..len : state[n] \in Taken
  <2>1. ASSUME NEW n \in 0..len
        PROVE  state[n] = f[n]
    <3>1. Alike(n, state, f)
      BY <1>1, <1>3, <1>6 DEF Alike
    <3> QED
      BY <1>1, <3>1, LoopsAgree
  <2> QED
    BY <2>1
<1> HIDE DEF Is
<1> USE DEF len
<1> QED
  BY <1>2, <1>6, <1>7

Split == [flags : Seq(Argument), words : Seq(Argument), open : BOOLEAN]
NothingSorted == [flags |-> <<>>, words |-> <<>>, open |-> FALSE]

LEMMA SortType ==
    ASSUME NEW acc \in Split, NEW a \in Argument
    PROVE  Sort(acc, a) \in Split
<1>1. Append(acc.flags, a) \in Seq(Argument) /\ Append(acc.words, a) \in Seq(Argument)
  BY AppendProperties DEF Split
<1> QED
  BY <1>1 DEF Sort, Split, IsFlag, IsOpen

LEMMA SortStates ==
    ASSUME NEW len \in Nat, NEW args, \A n \in 1..len : args[n] \in Argument
    PROVE  \E f \in [0..len -> Split] :
             f[0] = NothingSorted /\ \A n \in 1..len : f[n] = Sort(f[n - 1], args[n])
<1>1. NothingSorted \in Split
  BY EmptySeq DEF NothingSorted, Split
<1>2. PICK next \in [1..len -> [Split -> Split]] :
        next = [n \in 1..len |-> [acc \in Split |-> Sort(acc, args[n])]]
  BY SortType
<1>3. PICK f \in [0..len -> Split] :
        f[0] = NothingSorted /\ \A n \in 1..len : f[n] = next[n][f[n - 1]]
  <2>1. States(len, Split, NothingSorted, next) # {}
    BY <1>1, StatesExist
  <2> QED
    BY <2>1 DEF States
<1>4. \A n \in 1..len : f[n - 1] \in Split
  OBVIOUS
<1> QED
  BY <1>2, <1>3, <1>4

LEMMA SortedSteps ==
    ASSUME NEW args \in Seq(Argument)
    PROVE  \E f : /\ f[0] = NothingSorted
                  /\ \A n \in 0..Len(args) : f[n] \in Split
                  /\ \A n \in 1..Len(args) : f[n] = Sort(f[n - 1], args[n])
                  /\ Sorted(args) = f[Len(args)]
<1> DEFINE len == Len(args)
           Is(f) == f = [n \in 0..len |-> IF n = 0 THEN NothingSorted ELSE Sort(f[n - 1], args[n])]
           state == CHOOSE f : Is(f)
<1>1. len \in Nat /\ \A n \in 1..len : args[n] \in Argument
  BY LenProperties, ElementOfSeq
<1>2. Sorted(args) = state[len]
  BY DEF Sorted, Loop, NothingSorted
<1> HIDE DEF len
<1>3. PICK f \in [0..len -> Split] :
        f[0] = NothingSorted /\ \A n \in 1..len : f[n] = Sort(f[n - 1], args[n])
  BY <1>1, SortStates
<1>4. Is(f)
  BY <1>1, <1>3
<1>5. Is(state)
  BY <1>4
<1> HIDE DEF state
<1>6. state[0] = NothingSorted /\ \A n \in 1..len : state[n] = Sort(state[n - 1], args[n])
  BY <1>1, <1>5
<1>7. \A n \in 0..len : state[n] \in Split
  <2>1. ASSUME NEW n \in 0..len
        PROVE  state[n] = f[n]
    <3>1. Alike(n, state, f)
      BY <1>1, <1>3, <1>6 DEF Alike
    <3> QED
      BY <1>1, <3>1, LoopsAgree
  <2> QED
    BY <2>1
<1> HIDE DEF Is
<1> USE DEF len
<1> QED
  BY <1>2, <1>6, <1>7

LEMMA SortedAppend ==
    ASSUME NEW args \in Seq(Argument), NEW a \in Argument
    PROVE  Sorted(args) \in Split /\ Sorted(Append(args, a)) = Sort(Sorted(args), a)
<1> DEFINE longer == Append(args, a)
<1>1. /\ longer \in Seq(Argument) /\ Len(args) \in Nat /\ Len(longer) = Len(args) + 1
      /\ longer[Len(args) + 1] = a /\ \A n \in 1..Len(args) : longer[n] = args[n]
  BY AppendProperties, LenProperties
<1> HIDE DEF longer
<1>2. PICK f : /\ f[0] = NothingSorted
               /\ \A n \in 0..Len(args) : f[n] \in Split
               /\ \A n \in 1..Len(args) : f[n] = Sort(f[n - 1], args[n])
               /\ Sorted(args) = f[Len(args)]
  BY SortedSteps
<1>3. PICK g : /\ g[0] = NothingSorted
               /\ \A n \in 1..Len(longer) : g[n] = Sort(g[n - 1], longer[n])
               /\ Sorted(longer) = g[Len(longer)]
  BY <1>1, SortedSteps
<1>4. Alike(Len(args), f, g)
  BY <1>1, <1>2, <1>3 DEF Alike
<1>5. f[Len(args)] = g[Len(args)]
  BY <1>1, <1>4, LoopsAgree
<1>6. g[Len(args) + 1] = Sort(g[Len(args)], a)
  BY <1>1, <1>3
<1> QED
  BY <1>1, <1>2, <1>3, <1>5, <1>6 DEF longer

LEMMA SortedNothing == Sorted(<<>>) = NothingSorted
<1>1. <<>> \in Seq(Argument) /\ Len(<<>>) = 0
  BY EmptySeq
<1> QED
  BY <1>1, SortedSteps

Reading(flags) ==
    [given : [flags -> STRING \cup {Nothing}], words : Seq(Argument), open : flags \cup {Nothing},
     wrong : BOOLEAN]
NothingRead(flags) == [given |-> [f \in flags |-> Nothing], words |-> <<>>, open |-> Nothing, wrong |-> FALSE]

LEMMA ReadType ==
    ASSUME NEW flags, NEW acc \in Reading(flags), NEW a \in Argument
    PROVE  Read(acc, a) \in Reading(flags)
<1>1. Append(acc.words, a) \in Seq(Argument)
  BY AppendProperties DEF Reading
<1>2. a.value \in STRING /\ a.name \in STRING
  BY DEF Argument
<1>3. /\ acc.given \in [flags -> STRING \cup {Nothing}] /\ DOMAIN acc.given = flags
      /\ acc.open \in flags \cup {Nothing}
  BY DEF Reading
<1>4. CASE acc.open # Nothing
  <2>1. [acc.given EXCEPT ![acc.open] = a.value] \in [flags -> STRING \cup {Nothing}]
    BY <1>2, <1>3
  <2>2. Read(acc, a) = [acc EXCEPT !.given = [acc.given EXCEPT ![acc.open] = a.value], !.open = Nothing]
    BY <1>4 DEF Read, Reading
  <2> QED
    BY <2>1, <2>2 DEF Reading
<1>5. CASE acc.open = Nothing
  BY <1>1, <1>2, <1>3, <1>5 DEF Read, Reading, IsFlag, IsOpen
<1> QED
  BY <1>4, <1>5

Parses(flags, len, args) ==
    {f \in [0..len -> Reading(flags)] :
       f[0] = NothingRead(flags) /\ \A n \in 1..len : f[n] = Read(f[n - 1], args[n])}

LEMMA ReadStates ==
    ASSUME NEW flags, NEW len \in Nat, NEW args, \A n \in 1..len : args[n] \in Argument
    PROVE  Parses(flags, len, args) # {}
<1>1. NothingRead(flags) \in Reading(flags)
  BY EmptySeq DEF NothingRead, Reading
<1>2. PICK next \in [1..len -> [Reading(flags) -> Reading(flags)]] :
        next = [n \in 1..len |-> [acc \in Reading(flags) |-> Read(acc, args[n])]]
  BY ReadType
<1>3. PICK f \in [0..len -> Reading(flags)] :
        f[0] = NothingRead(flags) /\ \A n \in 1..len : f[n] = next[n][f[n - 1]]
  <2>1. States(len, Reading(flags), NothingRead(flags), next) # {}
    BY <1>1, StatesExist
  <2> QED
    BY <2>1 DEF States
<1>4. \A n \in 1..len : f[n - 1] \in Reading(flags)
  OBVIOUS
<1>5. \A n \in 1..len : f[n] = Read(f[n - 1], args[n])
  <2> HIDE DEF Reading
  <2> QED
    BY <1>2, <1>3, <1>4
<1> QED
  BY <1>3, <1>5 DEF Parses

LEMMA ParseSteps ==
    ASSUME NEW flags, NEW args \in Seq(Argument)
    PROVE  \E f : /\ f[0] = NothingRead(flags)
                  /\ \A n \in 0..Len(args) : f[n] \in Reading(flags)
                  /\ \A n \in 1..Len(args) : f[n] = Read(f[n - 1], args[n])
                  /\ Parse(args, flags) = f[Len(args)]
<1> DEFINE len == Len(args)
           Is(f) == f = [n \in 0..len |-> IF n = 0 THEN NothingRead(flags) ELSE Read(f[n - 1], args[n])]
           state == CHOOSE f : Is(f)
<1>1. len \in Nat /\ \A n \in 1..len : args[n] \in Argument
  BY LenProperties, ElementOfSeq
<1>2. Parse(args, flags) = state[len]
  BY DEF Parse, Loop, NothingRead
<1> HIDE DEF len
<1>3. PICK f \in [0..len -> Reading(flags)] :
        f[0] = NothingRead(flags) /\ \A n \in 1..len : f[n] = Read(f[n - 1], args[n])
  <2>1. Parses(flags, len, args) # {}
    BY <1>1, ReadStates
  <2> QED
    BY <2>1 DEF Parses
<1>4. Is(f)
  BY <1>1, <1>3
<1>5. Is(state)
  BY <1>4
<1> HIDE DEF state
<1>6. state[0] = NothingRead(flags) /\ \A n \in 1..len : state[n] = Read(state[n - 1], args[n])
  BY <1>1, <1>5
<1>7. \A n \in 0..len : state[n] \in Reading(flags)
  <2>1. ASSUME NEW n \in 0..len
        PROVE  state[n] = f[n]
    <3>1. Alike(n, state, f)
      BY <1>1, <1>3, <1>6 DEF Alike
    <3> QED
      BY <1>1, <3>1, LoopsAgree
  <2> QED
    BY <2>1
<1> HIDE DEF Is
<1> USE DEF len
<1> QED
  BY <1>2, <1>6, <1>7

LEMMA ParseAppend ==
    ASSUME NEW flags, NEW args \in Seq(Argument), NEW a \in Argument
    PROVE  Parse(args, flags) \in Reading(flags) /\ Parse(Append(args, a), flags) = Read(Parse(args, flags), a)
<1> DEFINE longer == Append(args, a)
<1>1. /\ longer \in Seq(Argument) /\ Len(args) \in Nat /\ Len(longer) = Len(args) + 1
      /\ longer[Len(args) + 1] = a /\ \A n \in 1..Len(args) : longer[n] = args[n]
  BY AppendProperties, LenProperties
<1> HIDE DEF longer
<1>2. PICK f : /\ f[0] = NothingRead(flags)
               /\ \A n \in 0..Len(args) : f[n] \in Reading(flags)
               /\ \A n \in 1..Len(args) : f[n] = Read(f[n - 1], args[n])
               /\ Parse(args, flags) = f[Len(args)]
  BY ParseSteps
<1>3. PICK g : /\ g[0] = NothingRead(flags)
               /\ \A n \in 1..Len(longer) : g[n] = Read(g[n - 1], longer[n])
               /\ Parse(longer, flags) = g[Len(longer)]
  BY <1>1, ParseSteps
<1>4. Alike(Len(args), f, g)
  BY <1>1, <1>2, <1>3 DEF Alike
<1>5. f[Len(args)] = g[Len(args)]
  BY <1>1, <1>4, LoopsAgree
<1>6. g[Len(args) + 1] = Read(g[Len(args)], a)
  BY <1>1, <1>3
<1> QED
  BY <1>1, <1>2, <1>3, <1>5, <1>6 DEF longer

LEMMA ParseNothing == \A flags : Parse(<<>>, flags) = NothingRead(flags)
<1>1. <<>> \in Seq(Argument) /\ Len(<<>>) = 0
  BY EmptySeq
<1> QED
  BY <1>1, ParseSteps

----------------------------------------------------------------------------
(* Command lines.                                                          *)

LEMMA AppendFirst ==
    ASSUME NEW S, NEW s \in Seq(S), NEW x \in S
    PROVE  /\ Append(s, x) \in Seq(S) /\ Append(s, x) # <<>>
           /\ s = <<>> => Append(s, x)[1] = x /\ Tail(Append(s, x)) = <<>>
           /\ s # <<>> => /\ Append(s, x)[1] = s[1]
                          /\ Tail(s) \in Seq(S) /\ Tail(Append(s, x)) = Append(Tail(s), x)
<1>1. Append(s, x) \in Seq(S) /\ Append(s, x) # <<>>
  BY AppendProperties
<1>2. CASE s = <<>>
  <2>1. Len(s) = 0
    BY <1>2, EmptySeq
  <2>2. Append(s, x)[Len(s) + 1] = x
    BY AppendProperties
  <2>3. Tail(Append(s, x)) = <<>>
    BY <1>2, HeadTailAppend
  <2> QED
    BY <1>1, <1>2, <2>1, <2>2, <2>3
<1>3. CASE s # <<>>
  <2>1. Len(s) \in Nat \ {0}
    BY <1>3, EmptySeq
  <2>2. Append(s, x)[1] = s[1]
    BY <2>1, AppendProperties
  <2>3. Tail(s) \in Seq(S) /\ Tail(Append(s, x)) = Append(Tail(s), x)
    BY <1>3, HeadTailAppend, HeadTailProperties
  <2> QED
    BY <1>1, <1>3, <2>2, <2>3
<1> QED
  BY <1>2, <1>3

LEMMA AppendToConcat ==
    ASSUME NEW S, NEW s \in Seq(S), NEW t \in Seq(S), NEW x \in S
    PROVE  s \o t \in Seq(S) /\ s \o Append(t, x) = Append(s \o t, x)
<1>1. <<x>> \in Seq(S) /\ Append(t, x) = t \o <<x>>
  BY AppendIsConcat
<1>2. s \o t \in Seq(S)
  BY ConcatProperties
<1>3. s \o (t \o <<x>>) = (s \o t) \o <<x>>
  BY <1>1, ConcatAssociative
<1>4. Append(s \o t, x) = (s \o t) \o <<x>>
  BY <1>2, AppendIsConcat
<1> QED
  BY <1>1, <1>2, <1>3, <1>4

WordArgs == {a \in Argument : ~IsFlag(a)}

\* Words after the flags leave what was read of these alone.
LEMMA ReadWords ==
    ASSUME NEW flags, NEW f \in Seq(Argument), NEW w \in Seq(WordArgs)
    PROVE  LET p == Parse(f, flags)
               q == Parse(f \o w, flags)
           IN  /\ p.wrong => q.wrong
               /\ p.open = Nothing => q = [p EXCEPT !.words = @ \o w]
<1> DEFINE p == Parse(f, flags)
           Good(v) == LET q == Parse(f \o v, flags)
                      IN  /\ p.wrong => q.wrong
                          /\ p.open = Nothing => q = [p EXCEPT !.words = @ \o v]
           R == {n \in Nat : \A v \in Seq(WordArgs) : Len(v) = n => Good(v)}
<1>1. p \in Reading(flags)
  <2>1. PICK g : \A n \in 0..Len(f) : g[n] \in Reading(flags) /\ p = g[Len(f)]
    BY ParseSteps
  <2>2. Len(f) \in Nat
    BY LenProperties
  <2> QED
    BY <2>1, <2>2
<1>2. WordArgs \subseteq Argument
  BY DEF WordArgs
<1>3. \A v \in Seq(WordArgs) : v \in Seq(Argument)
  BY <1>2, SeqMonotonic
<1>4. 0 \in R
  <2>1. ASSUME NEW v \in Seq(WordArgs), Len(v) = 0
        PROVE  Good(v)
    <3>1. v = <<>>
      BY <2>1, EmptySeq
    <3>2. f \o v = f /\ p.words \o v = p.words
      BY <1>1, <3>1, ConcatEmptySeq DEF Reading
    <3> QED
      BY <1>1, <3>2 DEF Reading
  <2> QED
    BY <2>1
<1>5. ASSUME NEW n \in Nat, n \in R
      PROVE  n + 1 \in R
  <2>1. ASSUME NEW v \in Seq(WordArgs), Len(v) = n + 1
        PROVE  Good(v)
    <3>1. v # <<>>
      BY <2>1, EmptySeq
    <3>2. PICK u \in Seq(WordArgs), a \in WordArgs : v = Append(u, a)
      BY <3>1, SequenceEmptyOrAppend
    <3>3. Len(u) = n
      BY <2>1, <3>2, AppendProperties, LenProperties
    <3>4. Good(u)
      BY <1>5, <3>3
    <3>5. f \o v = Append(f \o u, a) /\ f \o u \in Seq(Argument)
      BY <1>2, <1>3, <3>2, AppendToConcat
    <3>6. /\ Parse(f \o u, flags) \in Reading(flags)
          /\ Parse(f \o v, flags) = Read(Parse(f \o u, flags), a)
      BY <1>2, <3>5, ParseAppend
    <3>7. p.words \o v = Append(p.words \o u, a)
      <4>1. PICK read \in Seq(Argument) : read = p.words
        BY <1>1 DEF Reading
      <4>2. u \in Seq(Argument) /\ a \in Argument
        BY <1>2, <1>3
      <4>3. read \o Append(u, a) = Append(read \o u, a)
        BY <4>2, AppendToConcat
      <4> QED
        BY <3>2, <4>1, <4>3
    <3>8. ~IsFlag(a)
      BY DEF WordArgs
    <3> DEFINE q == Parse(f \o u, flags)
    <3>9. p.wrong => Read(q, a).wrong
      <4>1. p.wrong => q.wrong
        BY <3>4
      <4>2. q \in Reading(flags)
        BY <3>6
      <4> HIDE DEF q, p
      <4> QED
        BY <3>8, <4>1, <4>2 DEF Read, Reading
    <3>10. ASSUME p.open = Nothing
           PROVE  Read(q, a) = [p EXCEPT !.words = @ \o v]
      <4>1. q = [p EXCEPT !.words = @ \o u]
        BY <3>4, <3>10
      <4> HIDE DEF q, p
      <4>2. q.open = Nothing /\ q.words = p.words \o u
        BY <1>1, <3>10, <4>1 DEF Reading
      <4>3. Read(q, a) = [q EXCEPT !.words = Append(q.words, a)]
        BY <3>8, <4>2 DEF Read
      <4> QED
        BY <1>1, <3>7, <4>1, <4>2, <4>3 DEF Reading
    <3> HIDE DEF p, q
    <3> QED
      BY <3>6, <3>9, <3>10 DEF q
  <2> HIDE DEF Good
  <2> QED
    BY <2>1
<1>6. Len(w) \in R
  <2> HIDE DEF R
  <2>1. Nat \subseteq R
    BY <1>4, <1>5, Induction
  <2> QED
    BY <2>1, LenProperties
<1> HIDE DEF Good
<1>7. Good(w)
  BY <1>6
<1> QED
  BY <1>7 DEF Good

LEMMA NothingIsNoName == \A name \in {"f", "port", "config", "http-port"} : name # Nothing
BY DEF Nothing

\* Sensible, for the first len arguments.
Sense(args, len) ==
    \A k \in 1..len :
        /\ args[k] \in Argument
        /\ ~IsFlag(args[k]) => args[k].value # Nothing
        /\ IsOpen(args[k]) => k + 1 \in 1..len /\ ~IsFlag(args[k + 1])

\* The uses of a flag among the first n arguments that have their value there, and what
\* the last of them says.
Complete(args, n, name) == {k \in 1..n : args[k].name = name /\ (IsOpen(args[k]) => k < n)}
Says(args, n, name, v) ==
    \/ Complete(args, n, name) = {} /\ v = Nothing
    \/ \E k \in Complete(args, n, name) :
         v = Value(args, k) /\ \A l \in Complete(args, n, name) : l <= k

Pending(args, n, name) == n > 0 /\ args[n].name = name /\ IsOpen(args[n])

LEMMA SaysStep ==
    ASSUME NEW len \in Nat, NEW args, Sense(args, len), NEW n \in Nat, n + 1 <= len,
           NEW name, name # Nothing, NEW v, Says(args, n, name, v)
    PROVE  Says(args, n + 1, name,
                IF Pending(args, n, name) \/ (args[n + 1].name = name /\ ~IsOpen(args[n + 1]))
                  THEN args[n + 1].value ELSE v)
<1> DEFINE a == args[n + 1]
           old == Complete(args, n, name)
           new == Complete(args, n + 1, name)
<1>1. n + 1 \in 1..len /\ (n > 0 => n \in 1..len)
  OBVIOUS
<1>2. CASE Pending(args, n, name)
  <2>1. n \in new /\ Value(args, n) = a.value
    BY <1>1, <1>2 DEF Pending, Complete, Value
  <2>2. a.name = Nothing
    BY <1>1, <1>2 DEF Pending, Sense, IsFlag
  <2>3. \A l \in new : l <= n
    BY <2>2 DEF Complete
  <2> HIDE DEF new, a
  <2>4. Says(args, n + 1, name, a.value)
    BY <2>1, <2>3 DEF Says, new
  <2> QED
    BY <1>2, <2>4 DEF a
<1>3. CASE ~Pending(args, n, name) /\ a.name = name /\ ~IsOpen(a)
  <2>1. n + 1 \in new /\ Value(args, n + 1) = a.value
    BY <1>3 DEF Complete, Value
  <2>2. \A l \in new : l <= n + 1
    BY DEF Complete
  <2> HIDE DEF new, a
  <2>3. Says(args, n + 1, name, a.value)
    BY <2>1, <2>2 DEF Says, new
  <2> QED
    BY <1>3, <2>3 DEF a
<1>4. CASE ~Pending(args, n, name) /\ ~(a.name = name /\ ~IsOpen(a))
  <2>1. new = old
    <3>1. ASSUME NEW k \in new PROVE k \in old
      BY <1>4 DEF Complete, Pending
    <3>2. ASSUME NEW k \in old PROVE k \in new
      BY DEF Complete
    <3> QED
      BY <3>1, <3>2
  <2>2. Says(args, n + 1, name, v)
    BY <2>1 DEF Says
  <2> QED
    BY <1>4, <2>2
<1> QED
  BY <1>2, <1>3, <1>4

\* The arguments that main passes on, and the words among the first n arguments.
Kept(args, n) == {k \in 1..n : args[k].name # "f" /\ ~(k > 1 /\ Pending(args, k - 1, "f"))}
Loose(args, n) == {k \in 1..n : ~IsFlag(args[k]) /\ ~IsValue(args, k)}
IsFirst(k, S) == k \in S /\ \A l \in S : k <= l

\* What main knows after n arguments.
TakeInv(args, n, acc) ==
    /\ acc \in Taken
    /\ acc.open <=> Pending(args, n, "f")
    /\ Says(args, n, "f", acc.file)
    /\ acc.rest = <<>> <=> Kept(args, n) = {}
    /\ acc.rest # <<>> => \E k : IsFirst(k, Kept(args, n)) /\ acc.rest[1] = args[k]

LEMMA KeptStep ==
    ASSUME NEW args, NEW n \in Nat
    PROVE  /\ args[n + 1].name # "f" /\ ~Pending(args, n, "f") =>
                Kept(args, n + 1) = Kept(args, n) \cup {n + 1}
           /\ args[n + 1].name = "f" \/ Pending(args, n, "f") => Kept(args, n + 1) = Kept(args, n)
<1>1. \A k \in 1..(n + 1) : k \in 1..n \/ k = n + 1
  OBVIOUS
<1>2. ~(n + 1 > 1) => ~Pending(args, n, "f")
  BY DEF Pending
<1>3. (n + 1) - 1 = n
  OBVIOUS
<1> QED
  BY <1>1, <1>2, <1>3 DEF Kept

LEMMA TakeStep ==
    ASSUME NEW len \in Nat, NEW args, Sense(args, len), NEW n \in Nat, n + 1 <= len,
           NEW acc, TakeInv(args, n, acc)
    PROVE  TakeInv(args, n + 1, Take(acc, args[n + 1]))
<1> DEFINE a == args[n + 1]
           new == Take(acc, a)
<1>1. n + 1 \in 1..len /\ a \in Argument /\ (n > 0 => n \in 1..len)
  BY DEF Sense
<1>2. acc \in Taken /\ new \in Taken
  BY <1>1, TakeType DEF TakeInv
<1>3. Says(args, n + 1, "f", IF Pending(args, n, "f") \/ (a.name = "f" /\ ~IsOpen(a))
                               THEN a.value ELSE acc.file)
  BY NothingIsNoName, SaysStep DEF TakeInv
<1>4. Pending(args, n, "f") => ~IsFlag(a)
  BY <1>1 DEF Pending, Sense
<1>5. a = Flag("f") <=> a.name = "f" /\ IsOpen(a)
  BY <1>1, NothingIsNoName DEF Flag, IsOpen, IsFlag, Argument
<1>6. Pending(args, n + 1, "f") <=> a = Flag("f")
  BY <1>5 DEF Pending
<1>7. acc.open <=> Pending(args, n, "f")
  BY DEF TakeInv
<1> HIDE DEF a, new
<1>8. ASSUME Pending(args, n, "f")
      PROVE  TakeInv(args, n + 1, new)
  <2>1. new = [acc EXCEPT !.open = FALSE, !.file = a.value]
    BY <1>7, <1>8 DEF Take, new
  <2>2. new.open = FALSE /\ new.file = a.value /\ new.rest = acc.rest
    BY <1>2, <2>1 DEF Taken
  <2>3. ~Pending(args, n + 1, "f")
    BY <1>4, <1>5, <1>6, <1>8 DEF IsOpen
  <2>4. Kept(args, n + 1) = Kept(args, n)
    BY <1>8, KeptStep
  <2>5. Says(args, n + 1, "f", new.file)
    BY <1>3, <1>8, <2>2
  <2> QED
    BY <1>2, <1>8, <2>2, <2>3, <2>4, <2>5 DEF TakeInv
<1>9. ASSUME ~Pending(args, n, "f") /\ a.name = "f"
      PROVE  TakeInv(args, n + 1, new)
  <2>1. new = IF IsOpen(a) THEN [acc EXCEPT !.open = TRUE] ELSE [acc EXCEPT !.file = a.value]
    BY <1>5, <1>7, <1>9, NothingIsNoName DEF Take, new, IsOpen, IsFlag
  <2>2. /\ new.open <=> IsOpen(a)
        /\ new.file = (IF ~IsOpen(a) THEN a.value ELSE acc.file) /\ new.rest = acc.rest
    BY <1>2, <1>7, <1>9, <2>1 DEF Taken
  <2>3. Kept(args, n + 1) = Kept(args, n)
    BY <1>9, KeptStep DEF a
  <2>4. Says(args, n + 1, "f", new.file)
    BY <1>3, <1>9, <2>2
  <2>5. new.open <=> Pending(args, n + 1, "f")
    BY <1>5, <1>6, <1>9, <2>2
  <2> QED
    BY <1>2, <2>2, <2>3, <2>4, <2>5 DEF TakeInv
<1>10. ASSUME ~Pending(args, n, "f") /\ a.name # "f"
      PROVE  TakeInv(args, n + 1, new)
  <2>1. new = [acc EXCEPT !.rest = Append(acc.rest, a)]
    BY <1>5, <1>7, <1>10 DEF Take, new
  <2>2. new.open = acc.open /\ new.file = acc.file /\ new.rest = Append(acc.rest, a)
    BY <1>2, <2>1 DEF Taken
  <2>3. Kept(args, n + 1) = Kept(args, n) \cup {n + 1}
    BY <1>10, KeptStep DEF a
  <2>4. acc.rest \in Seq(Argument)
    BY <1>2 DEF Taken
  <2>5. new.rest # <<>>
    BY <1>1, <2>2, <2>4, AppendFirst
  <2>6. \E k : IsFirst(k, Kept(args, n + 1)) /\ new.rest[1] = args[k]
    <3>1. CASE acc.rest = <<>>
      <4>1. Kept(args, n + 1) = {n + 1}
        BY <2>3, <3>1 DEF TakeInv
      <4>2. new.rest[1] = a
        BY <1>1, <2>2, <2>4, <3>1, AppendFirst
      <4> QED
        BY <4>1, <4>2 DEF IsFirst, a
    <3>2. CASE acc.rest # <<>>
      <4>1. PICK k : IsFirst(k, Kept(args, n)) /\ acc.rest[1] = args[k]
        BY <3>2 DEF TakeInv
      <4>2. k \in 1..n /\ IsFirst(k, Kept(args, n + 1))
        BY <2>3, <4>1 DEF IsFirst, Kept
      <4>3. new.rest[1] = acc.rest[1]
        BY <1>1, <2>2, <2>4, <3>2, AppendFirst
      <4> QED
        BY <4>1, <4>2, <4>3
    <3> QED
      BY <3>1, <3>2
  <2>7. Kept(args, n + 1) # {}
    BY <2>3
  <2>8. Says(args, n + 1, "f", new.file)
    BY <1>3, <1>10, <2>2
  <2>9. new.open <=> Pending(args, n + 1, "f")
    BY <1>5, <1>6, <1>7, <1>10, <2>2
  <2> QED
    BY <1>2, <2>5, <2>6, <2>7, <2>8, <2>9 DEF TakeInv
<1> QED
  BY <1>8, <1>9, <1>10 DEF a, new

\* The words after the first, and flags that the subcommand does not have.
Others(args, n) == {k \in Loose(args, n) : \E l \in Loose(args, n) : l < k}
Unknown(args, n, flags) ==
    \E k \in 1..n : IsFlag(args[k]) /\ args[k].name # "f" /\ args[k].name \notin flags

LEMMA LooseStep ==
    ASSUME NEW args, NEW n \in Nat
    PROVE  LET loose == ~IsFlag(args[n + 1]) /\ ~(n > 0 /\ IsOpen(args[n]))
           IN  /\ loose => /\ Loose(args, n + 1) = Loose(args, n) \cup {n + 1}
                           /\ Loose(args, n) # {} => Others(args, n + 1) = Others(args, n) \cup {n + 1}
                           /\ Loose(args, n) = {} => Others(args, n + 1) = {}
               /\ ~loose => Loose(args, n + 1) = Loose(args, n) /\ Others(args, n + 1) = Others(args, n)
<1> DEFINE loose == ~IsFlag(args[n + 1]) /\ ~(n > 0 /\ IsOpen(args[n]))
<1>1. \A k \in 1..(n + 1) : k \in 1..n \/ k = n + 1
  OBVIOUS
<1>2. IsValue(args, n + 1) <=> n > 0 /\ IsOpen(args[n])
  <2>1. (n + 1) - 1 = n /\ (n + 1 > 1 <=> n > 0)
    OBVIOUS
  <2> QED
    BY <2>1 DEF IsValue
<1>3. \A k \in Loose(args, n) : k \in 1..n /\ k < n + 1
  BY DEF Loose
<1>4. ASSUME loose
      PROVE  Loose(args, n + 1) = Loose(args, n) \cup {n + 1}
  BY <1>1, <1>2, <1>4 DEF Loose
<1>5. ASSUME ~loose
      PROVE  Loose(args, n + 1) = Loose(args, n)
  BY <1>1, <1>2, <1>5 DEF Loose
<1>6. ASSUME loose, Loose(args, n) # {}
      PROVE  Others(args, n + 1) = Others(args, n) \cup {n + 1}
  <2>1. ASSUME NEW k \in Others(args, n + 1)
        PROVE  k \in Others(args, n) \cup {n + 1}
    BY <1>3, <1>4, <1>6, <2>1 DEF Others
  <2>2. ASSUME NEW k \in Others(args, n)
        PROVE  k \in Others(args, n + 1)
    BY <1>4, <1>6 DEF Others
  <2>3. n + 1 \in Others(args, n + 1)
    BY <1>3, <1>4, <1>6 DEF Others
  <2> QED
    BY <2>1, <2>2, <2>3
<1>7. ASSUME loose, Loose(args, n) = {}
      PROVE  Others(args, n + 1) = {}
  BY <1>4, <1>7 DEF Others
<1>8. ~loose => Others(args, n + 1) = Others(args, n)
  BY <1>5 DEF Others
<1> QED
  BY <1>4, <1>5, <1>6, <1>7, <1>8

LEMMA UnknownStep ==
    ASSUME NEW args, NEW n \in Nat, NEW flags
    PROVE  Unknown(args, n + 1, flags) <=>
             \/ Unknown(args, n, flags)
             \/ IsFlag(args[n + 1]) /\ args[n + 1].name # "f" /\ args[n + 1].name \notin flags
<1>1. \A k : k \in 1..(n + 1) <=> (k \in 1..n \/ k = n + 1)
  OBVIOUS
<1> QED
  BY <1>1 DEF Unknown

\* Every word that is nobody's value, and every flag but -f, is kept.
LEMMA KeptFacts ==
    ASSUME NEW len \in Nat, NEW args, Sense(args, len), NEW n \in 0..len
    PROVE  /\ Loose(args, n) \subseteq Kept(args, n)
           /\ \A k \in 1..n : IsFlag(args[k]) /\ args[k].name # "f" => k \in Kept(args, n)
           /\ \A k : IsFirst(k, Kept(args, n)) /\ ~IsFlag(args[k]) => k \in Loose(args, n)
<1>1. ASSUME NEW k \in Loose(args, n)
      PROVE  k \in Kept(args, n)
  BY NothingIsNoName DEF Loose, Kept, IsValue, IsFlag, Pending
<1>2. ASSUME NEW k \in 1..n, IsFlag(args[k]), args[k].name # "f"
      PROVE  k \in Kept(args, n)
  <2>1. ASSUME k > 1, Pending(args, k - 1, "f")
        PROVE  FALSE
    <3>1. k - 1 \in 1..len /\ (k - 1) + 1 = k
      BY <2>1
    <3> QED
      BY <1>2, <2>1, <3>1 DEF Pending, Sense
  <2> QED
    BY <1>2, <2>1 DEF Kept
<1>3. ASSUME NEW k, IsFirst(k, Kept(args, n)), ~IsFlag(args[k])
      PROVE  k \in Loose(args, n)
  <2>1. k \in 1..n /\ ~(k > 1 /\ Pending(args, k - 1, "f"))
    BY <1>3 DEF IsFirst, Kept
  <2>2. ASSUME k > 1, IsOpen(args[k - 1])
        PROVE  FALSE
    <3>1. k - 1 \in 1..n /\ k - 1 > 0
      BY <2>1, <2>2
    <3>2. args[k - 1].name # "f"
      BY <2>1, <2>2, <3>1 DEF Pending
    <3>3. k - 1 \in Kept(args, n)
      BY <1>2, <2>2, <3>1, <3>2 DEF IsOpen
    <3> QED
      BY <1>3, <2>1, <3>1, <3>3 DEF IsFirst
  <2> QED
    BY <1>3, <2>1, <2>2 DEF Loose, IsValue
<1> QED
  BY <1>1, <1>2, <1>3

\* What cmdConnect or cmdProxy know after n arguments: flags do not wait behind words.
Waits(args, n) == n > 0 /\ IsOpen(args[n]) /\ args[n].name # "f"
RestInv(args, n, flags, rest) ==
    LET s == Sorted(Tail(rest))
        p == Parse(s.flags, flags)
    IN  /\ s.open <=> Waits(args, n)
        /\ s.words \in Seq(WordArgs)
        /\ s.words = <<>> <=> Others(args, n) = {}
        /\ s.words # <<>> => \E k : IsFirst(k, Others(args, n)) /\ s.words[1] = args[k]
        /\ p.wrong <=> Unknown(args, n, flags)
        /\ ~p.wrong =>
             /\ p.words = <<>>
             /\ p.open = IF s.open THEN args[n].name ELSE Nothing
             /\ \A name \in flags : Says(args, n, name, p.given[name])

FlagNames == {"port", "config", "http-port"}

LEMMA FlagNamesFacts ==
    ASSUME NEW flags \in SUBSET FlagNames
    PROVE  "f" \notin flags /\ Nothing \notin flags
BY NothingIsNoName DEF FlagNames

\* -f and its value change nothing.
LEMMA SameRest ==
    ASSUME NEW len \in Nat, NEW args, Sense(args, len), NEW n \in Nat, n + 1 <= len,
           NEW flags \in SUBSET FlagNames, NEW rest, RestInv(args, n, flags, rest),
           Pending(args, n, "f") \/ args[n + 1].name = "f"
    PROVE  RestInv(args, n + 1, flags, rest)
<1> DEFINE a == args[n + 1]
           s == Sorted(Tail(rest))
           p == Parse(s.flags, flags)
<1>1. n + 1 \in 1..len /\ (n > 0 => n \in 1..len /\ n + 1 \in 1..len)
  OBVIOUS
<1>2. n > 0 /\ IsOpen(args[n]) => ~IsFlag(a)
  BY <1>1 DEF Sense
<1>3. ~Waits(args, n) /\ ~Waits(args, n + 1)
  BY <1>2, NothingIsNoName DEF Waits, Pending, IsFlag, IsOpen
<1>4. Loose(args, n + 1) = Loose(args, n) /\ Others(args, n + 1) = Others(args, n)
  <2>1. ~(~IsFlag(a) /\ ~(n > 0 /\ IsOpen(args[n])))
    BY NothingIsNoName DEF Pending, IsFlag
  <2> QED
    BY <2>1, LooseStep
<1>5. Unknown(args, n + 1, flags) <=> Unknown(args, n, flags)
  BY <1>2, UnknownStep DEF Pending
<1>6. ASSUME NEW name \in flags, NEW v, Says(args, n, name, v)
      PROVE  Says(args, n + 1, name, v)
  <2>1. name # "f" /\ name # Nothing
    BY FlagNamesFacts
  <2>2. ~(Pending(args, n, name) \/ (a.name = name /\ ~IsOpen(a)))
    BY <1>2, <2>1, NothingIsNoName DEF Pending, IsFlag
  <2>3. Says(args, n + 1, name, IF Pending(args, n, name) \/ (a.name = name /\ ~IsOpen(a))
                                  THEN a.value ELSE v)
    BY <1>6, <2>1, SaysStep
  <2> QED
    BY <2>2, <2>3
<1> HIDE DEF a
<1> QED
  BY <1>3, <1>4, <1>5, <1>6 DEF RestInv

\* The subcommand is the first word.
LEMMA FirstRest ==
    ASSUME NEW len \in Nat, NEW args, Sense(args, len), NEW n \in Nat, n + 1 <= len,
           NEW flags \in SUBSET FlagNames, Kept(args, n) = {}, ~IsFlag(args[n + 1]), ~Pending(args, n, "f"),
           NEW rest, Tail(rest) = <<>>
    PROVE  RestInv(args, n + 1, flags, rest)
<1> DEFINE s == Sorted(Tail(rest))
           p == Parse(s.flags, flags)
<1>1. /\ s.flags = <<>> /\ s.words = <<>> /\ s.open = FALSE
      /\ p.words = <<>> /\ p.open = Nothing /\ p.wrong = FALSE
      /\ \A name \in flags : p.given[name] = Nothing
  <2>1. s = NothingSorted
    BY SortedNothing
  <2>2. p = NothingRead(flags)
    BY <2>1, ParseNothing DEF NothingSorted
  <2> HIDE DEF s, p
  <2> QED
    BY <2>1, <2>2 DEF NothingSorted, NothingRead
<1>2. n \in 0..len
  OBVIOUS
<1>3. Loose(args, n) = {} /\ \A k \in 1..n : IsFlag(args[k]) => args[k].name = "f"
  BY <1>2, KeptFacts
<1>4. Others(args, n + 1) = {}
  BY <1>3, LooseStep DEF Others
<1>5. ~Unknown(args, n + 1, flags)
  <2>1. ~Unknown(args, n, flags)
    BY <1>3 DEF Unknown
  <2> QED
    BY <2>1, UnknownStep
<1>6. ~Waits(args, n + 1)
  BY DEF Waits, IsOpen
<1>7. \A name \in flags : Says(args, n + 1, name, Nothing)
  <2>1. ASSUME NEW name \in flags
        PROVE  Complete(args, n + 1, name) = {}
    <3>1. name # "f" /\ name # Nothing
      BY FlagNamesFacts
    <3>2. \A k \in 1..(n + 1) : args[k].name # name
      <4>1. \A k \in 1..(n + 1) : k \in 1..n \/ k = n + 1
        OBVIOUS
      <4> QED
        BY <1>3, <3>1, <4>1 DEF IsFlag
    <3> QED
      BY <3>2 DEF Complete
  <2> QED
    BY <2>1 DEF Says
<1>8. s.words \in Seq(WordArgs)
  BY <1>1, EmptySeq
<1> HIDE DEF s, p
<1> QED
  BY <1>1, <1>4, <1>5, <1>6, <1>7, <1>8 DEF RestInv, s, p

LEMMA SortedType ==
    ASSUME NEW args \in Seq(Argument)
    PROVE  Sorted(args) \in Split
<1>1. PICK f : /\ \A n \in 0..Len(args) : f[n] \in Split
               /\ Sorted(args) = f[Len(args)]
  BY SortedSteps
<1>2. Len(args) \in Nat
  BY LenProperties
<1> QED
  BY <1>1, <1>2

LEMMA ParseType ==
    ASSUME NEW flags, NEW args \in Seq(Argument)
    PROVE  Parse(args, flags) \in Reading(flags)
<1>1. PICK f : /\ \A n \in 0..Len(args) : f[n] \in Reading(flags)
               /\ Parse(args, flags) = f[Len(args)]
  BY ParseSteps
<1>2. Len(args) \in Nat
  BY LenProperties
<1> QED
  BY <1>1, <1>2

\* What the flag package makes of one more argument before the words.
LEMMA ReadStep ==
    ASSUME NEW flags, NEW p \in Reading(flags), NEW a \in Argument, Nothing \notin flags,
           p.open # Nothing => ~IsFlag(a), p.open = Nothing => IsFlag(a), p.words = <<>>
    PROVE  LET q == Read(p, a)
               key == IF p.open # Nothing THEN p.open ELSE a.name
               bad == IsFlag(a) /\ a.name \notin flags
           IN  /\ q.wrong <=> p.wrong \/ bad
               /\ ~bad => /\ q.words = <<>>
                          /\ q.open = IF IsOpen(a) THEN a.name ELSE Nothing
                          /\ \A name \in flags :
                               q.given[name] = IF name = key /\ ~IsOpen(a) THEN a.value
                                               ELSE p.given[name]
<1>1. p.given \in [flags -> STRING \cup {Nothing}] /\ p.open \in flags \cup {Nothing} /\ p.wrong \in BOOLEAN
  BY DEF Reading
<1> DEFINE Value1(given, k) == [given EXCEPT ![k] = a.value]
<1>2. ASSUME NEW k \in flags, NEW name \in flags
      PROVE  Value1(p.given, k)[name] = IF name = k THEN a.value ELSE p.given[name]
  BY <1>1
<1>3. CASE p.open # Nothing
  <2>1. Read(p, a) = [p EXCEPT !.given = Value1(p.given, p.open), !.open = Nothing]
    BY <1>3 DEF Read, Reading
  <2> HIDE DEF Value1
  <2>2. /\ Read(p, a).given = Value1(p.given, p.open) /\ Read(p, a).open = Nothing
        /\ Read(p, a).words = p.words /\ Read(p, a).wrong = p.wrong
    BY <2>1 DEF Reading
  <2> QED
    BY <1>1, <1>2, <1>3, <2>2 DEF IsOpen
<1>4. CASE p.open = Nothing /\ a.name \notin flags
  <2>1. Read(p, a) = [p EXCEPT !.wrong = TRUE]
    BY <1>1, <1>4 DEF Read
  <2>2. Read(p, a).wrong = TRUE
    BY <2>1 DEF Reading
  <2> QED
    BY <1>4, <2>2
<1>5. CASE p.open = Nothing /\ a.name \in flags /\ IsOpen(a)
  <2>1. Read(p, a) = [p EXCEPT !.open = a.name]
    BY <1>1, <1>5 DEF Read
  <2>2. /\ Read(p, a).given = p.given /\ Read(p, a).open = a.name
        /\ Read(p, a).words = p.words /\ Read(p, a).wrong = p.wrong
    BY <2>1 DEF Reading
  <2> QED
    BY <1>5, <2>2
<1>6. CASE p.open = Nothing /\ a.name \in flags /\ ~IsOpen(a)
  <2>1. Read(p, a) = [p EXCEPT !.given = Value1(p.given, a.name)]
    BY <1>1, <1>6 DEF Read
  <2> HIDE DEF Value1
  <2>2. /\ Read(p, a).given = Value1(p.given, a.name) /\ Read(p, a).open = Nothing
        /\ Read(p, a).words = p.words /\ Read(p, a).wrong = p.wrong
    BY <1>6, <2>1 DEF Reading
  <2> QED
    BY <1>1, <1>2, <1>6, <2>2
<1> QED
  BY <1>3, <1>4, <1>5, <1>6

LEMMA ReadKeepsWrong ==
    ASSUME NEW flags, NEW p \in Reading(flags), p.wrong, NEW a
    PROVE  Read(p, a).wrong
BY DEF Read, Reading

\* One more argument after the subcommand.
LEMMA MoreRest ==
    ASSUME NEW len \in Nat, NEW args, Sense(args, len), NEW n \in Nat, n + 1 <= len,
           NEW flags \in SUBSET FlagNames, NEW rest \in Seq(Argument), rest # <<>>,
           RestInv(args, n, flags, rest), Loose(args, n) # {},
           ~Pending(args, n, "f"), args[n + 1].name # "f"
    PROVE  RestInv(args, n + 1, flags, Append(rest, args[n + 1]))
<1> DEFINE a == args[n + 1]
           s == Sorted(Tail(rest))
           p == Parse(s.flags, flags)
           t == Sorted(Tail(Append(rest, a)))
           q == Parse(t.flags, flags)
<1>1. n + 1 \in 1..len /\ (n > 0 => n \in 1..len) /\ a \in Argument
  BY DEF Sense
<1>2. Tail(rest) \in Seq(Argument) /\ Tail(Append(rest, a)) = Append(Tail(rest), a)
  BY <1>1, AppendFirst
<1>3. s \in Split /\ t = Sort(s, a)
  BY <1>1, <1>2, SortedAppend
<1>4. p \in Reading(flags)
  BY <1>3, ParseType DEF Split
<1>5. /\ s.open <=> Waits(args, n)
      /\ s.words \in Seq(WordArgs)
      /\ s.words = <<>> <=> Others(args, n) = {}
      /\ s.words # <<>> => \E k : IsFirst(k, Others(args, n)) /\ s.words[1] = args[k]
      /\ p.wrong <=> Unknown(args, n, flags)
      /\ ~p.wrong =>
           /\ p.words = <<>>
           /\ p.open = IF s.open THEN args[n].name ELSE Nothing
           /\ \A name \in flags : Says(args, n, name, p.given[name])
  BY DEF RestInv
<1>6. Waits(args, n) <=> n > 0 /\ IsOpen(args[n])
  BY DEF Waits, Pending
<1>7. Waits(args, n) => ~IsFlag(a) /\ args[n].name # Nothing
  BY <1>1 DEF Waits, Sense, IsOpen, IsFlag
<1>8. Waits(args, n + 1) <=> IsOpen(a)
  BY <1>1 DEF Waits
<1>9. Nothing \notin flags /\ "f" \notin flags
  BY FlagNamesFacts
<1>10. Unknown(args, n + 1, flags) <=> Unknown(args, n, flags) \/ (IsFlag(a) /\ a.name \notin flags)
  BY UnknownStep
<1> HIDE DEF a, s, p, t, q
<1>11. ASSUME Waits(args, n) \/ IsFlag(a)
       PROVE  RestInv(args, n + 1, flags, Append(rest, a))
  <2>1. t = [s EXCEPT !.flags = Append(s.flags, a), !.open = IsOpen(a)]
    BY <1>3, <1>5, <1>11 DEF Sort
  <2>2. t.flags = Append(s.flags, a) /\ t.open = IsOpen(a) /\ t.words = s.words
    BY <1>3, <2>1 DEF Split
  <2>3. q = Read(p, a)
    <3>1. s.flags \in Seq(Argument)
      BY <1>3 DEF Split
    <3> QED
      BY <1>1, <2>2, <3>1, ParseAppend DEF p, q
  <2>4. Loose(args, n + 1) = Loose(args, n) /\ Others(args, n + 1) = Others(args, n)
    <3>1. ~(~IsFlag(args[n + 1]) /\ ~(n > 0 /\ IsOpen(args[n])))
      BY <1>6, <1>11 DEF a
    <3> QED
      BY <3>1, LooseStep
  <2>5. ASSUME p.wrong
        PROVE  q.wrong /\ Unknown(args, n + 1, flags)
    BY <1>4, <1>5, <1>10, <2>3, <2>5, ReadKeepsWrong
  <2>6. ASSUME ~p.wrong
        PROVE  /\ q.wrong <=> Unknown(args, n + 1, flags)
               /\ ~q.wrong => /\ q.words = <<>>
                              /\ q.open = IF t.open THEN a.name ELSE Nothing
                              /\ \A name \in flags : Says(args, n + 1, name, q.given[name])
    <3>1. /\ p.words = <<>> /\ p.open = IF Waits(args, n) THEN args[n].name ELSE Nothing
          /\ \A name \in flags : Says(args, n, name, p.given[name])
      BY <1>5, <2>6
    <3>2. (p.open # Nothing <=> Waits(args, n)) /\ (p.open # Nothing => ~IsFlag(a))
          /\ (p.open = Nothing => IsFlag(a))
      BY <1>7, <1>11, <3>1
    <3> DEFINE key == IF p.open # Nothing THEN p.open ELSE a.name
               bad == IsFlag(a) /\ a.name \notin flags
    <3>3. /\ q.wrong <=> p.wrong \/ bad
          /\ ~bad => /\ q.words = <<>>
                     /\ q.open = IF IsOpen(a) THEN a.name ELSE Nothing
                     /\ \A name \in flags :
                          q.given[name] = IF name = key /\ ~IsOpen(a) THEN a.value
                                          ELSE p.given[name]
      BY <1>1, <1>4, <1>9, <2>3, <3>1, <3>2, ReadStep
    <3>4. ASSUME ~bad, NEW name \in flags
          PROVE  Says(args, n + 1, name, q.given[name])
      <4>1. name # Nothing /\ name # "f"
        BY <1>9
      <4>2. Says(args, n + 1, name, IF Pending(args, n, name) \/ (a.name = name /\ ~IsOpen(a))
                                      THEN a.value ELSE p.given[name])
        BY <3>1, <4>1, SaysStep DEF a
      <4>3. Pending(args, n, name) \/ (a.name = name /\ ~IsOpen(a)) <=> name = key /\ ~IsOpen(a)
        BY <1>6, <1>7, <3>1, <3>2, <4>1 DEF Pending, IsFlag, IsOpen
      <4> QED
        BY <3>3, <3>4, <4>2, <4>3
    <3> QED
      BY <1>5, <1>10, <2>2, <2>6, <3>3, <3>4
  <2> QED
    BY <1>5, <1>8, <2>2, <2>4, <2>5, <2>6 DEF RestInv, t, q, a
<1>12. ASSUME ~Waits(args, n), ~IsFlag(a)
       PROVE  RestInv(args, n + 1, flags, Append(rest, a))
  <2>1. t = [s EXCEPT !.words = Append(s.words, a)]
    BY <1>3, <1>5, <1>12 DEF Sort
  <2>2. t.flags = s.flags /\ t.open = s.open /\ t.words = Append(s.words, a)
    BY <1>3, <2>1 DEF Split
  <2>3. q = p
    BY <2>2 DEF p, q
  <2>4. /\ Loose(args, n + 1) = Loose(args, n) \cup {n + 1}
        /\ Others(args, n + 1) = Others(args, n) \cup {n + 1}
    BY <1>6, <1>12, LooseStep DEF a
  <2>5. a \in WordArgs
    BY <1>1, <1>12 DEF WordArgs
  <2>6. t.words \in Seq(WordArgs) /\ t.words # <<>>
    <3>1. PICK words \in Seq(WordArgs) : words = s.words
      BY <1>5
    <3>2. Append(words, a) \in Seq(WordArgs) /\ Append(words, a) # <<>>
      BY <2>5, AppendFirst
    <3> QED
      BY <2>2, <3>1, <3>2
  <2>7. \E k : IsFirst(k, Others(args, n + 1)) /\ t.words[1] = args[k]
    <3>1. CASE s.words = <<>>
      <4>1. t.words[1] = a /\ Others(args, n + 1) = {n + 1}
        BY <1>5, <2>2, <2>4, <2>5, <3>1, AppendFirst
      <4> QED
        BY <4>1 DEF IsFirst, a
    <3>2. CASE s.words # <<>>
      <4>1. PICK k : IsFirst(k, Others(args, n)) /\ s.words[1] = args[k]
        BY <1>5, <3>2
      <4>2. t.words[1] = s.words[1]
        BY <1>5, <2>2, <2>5, <3>2, AppendFirst
      <4>3. IsFirst(k, Others(args, n + 1))
        BY <2>4, <4>1 DEF IsFirst, Others, Loose
      <4> QED
        BY <4>1, <4>2, <4>3
    <3> QED
      BY <3>1, <3>2
  <2>8. Others(args, n + 1) # {}
    BY <2>4
  <2>9. Unknown(args, n + 1, flags) <=> Unknown(args, n, flags)
    BY <1>10, <1>12
  <2>10. ASSUME NEW name \in flags, NEW v, Says(args, n, name, v)
         PROVE  Says(args, n + 1, name, v)
    <3>1. name # Nothing
      BY <1>9
    <3>2. ~(Pending(args, n, name) \/ (a.name = name /\ ~IsOpen(a)))
      BY <1>6, <1>12, <3>1 DEF Pending, IsFlag
    <3>3. Says(args, n + 1, name, IF Pending(args, n, name) \/ (a.name = name /\ ~IsOpen(a))
                                    THEN a.value ELSE v)
      BY <2>10, <3>1, SaysStep DEF a
    <3> QED
      BY <3>2, <3>3
  <2>11. ~IsOpen(a)
    BY <1>12 DEF IsOpen
  <2>12. /\ t.open <=> Waits(args, n + 1)
         /\ ~q.wrong => q.words = <<>> /\ q.open = IF t.open THEN args[n + 1].name ELSE Nothing
         /\ \A name \in flags : ~q.wrong => Says(args, n + 1, name, q.given[name])
    BY <1>5, <1>8, <1>12, <2>2, <2>3, <2>10, <2>11
  <2> QED
    BY <1>5, <2>3, <2>6, <2>7, <2>8, <2>9, <2>12 DEF RestInv, t, q, a
<1> QED
  BY <1>11, <1>12 DEF a

LineInv(args, n, acc) ==
    /\ TakeInv(args, n, acc)
    /\ acc.rest # <<>> /\ ~IsFlag(acc.rest[1]) =>
         \A flags \in SUBSET FlagNames : RestInv(args, n, flags, acc.rest)

LEMMA LineStep ==
    ASSUME NEW len \in Nat, NEW args, Sense(args, len), NEW n \in Nat, n + 1 <= len,
           NEW acc, LineInv(args, n, acc)
    PROVE  LineInv(args, n + 1, Take(acc, args[n + 1]))
<1> DEFINE a == args[n + 1]
           new == Take(acc, a)
<1>1. TakeInv(args, n, acc) /\ TakeInv(args, n + 1, new)
  BY TakeStep DEF LineInv
<1>2. acc.rest \in Seq(Argument) /\ (acc.open <=> Pending(args, n, "f"))
  BY <1>1 DEF TakeInv, Taken
<1>3. n + 1 \in 1..len /\ n \in 0..len /\ a \in Argument
  BY DEF Sense
<1> HIDE DEF a, new
<1>4. ASSUME new.rest # <<>>, ~IsFlag(new.rest[1]), NEW flags \in SUBSET FlagNames
      PROVE  RestInv(args, n + 1, flags, new.rest)
  <2>1. CASE Pending(args, n, "f") \/ a.name = "f"
    <3>1. new.rest = acc.rest
      <4>1. acc \in Taken /\ n \in Nat
        BY <1>1 DEF TakeInv
      <4>2. Pending(args, n, "f") => new = [acc EXCEPT !.open = FALSE, !.file = a.value]
        BY <1>2 DEF Take, new
      <4>3. ~Pending(args, n, "f") /\ IsOpen(a) => new = [acc EXCEPT !.open = TRUE]
        <5>1. ~Pending(args, n, "f") /\ IsOpen(a) => a = Flag("f") /\ ~acc.open
          BY <1>2, <1>3, <2>1, NothingIsNoName DEF Flag, IsOpen, IsFlag, Argument
        <5>2. a = Flag("f") /\ ~acc.open => new = [acc EXCEPT !.open = TRUE]
          BY DEF Take, new, Flag
        <5> QED
          BY <5>1, <5>2
      <4>4. ~Pending(args, n, "f") /\ ~IsOpen(a) => new = [acc EXCEPT !.file = a.value]
        BY <1>2, <2>1, NothingIsNoName DEF Take, new, Flag, IsOpen, IsFlag
      <4> QED
        BY <4>1, <4>2, <4>3, <4>4 DEF Taken
    <3>2. RestInv(args, n, flags, acc.rest)
      BY <1>4, <3>1 DEF LineInv
    <3> QED
      BY <2>1, <3>1, <3>2, SameRest DEF a
  <2>2. CASE ~Pending(args, n, "f") /\ a.name # "f"
    <3>1. new.rest = Append(acc.rest, a)
      <4>1. new = [acc EXCEPT !.rest = Append(acc.rest, a)]
        BY <1>2, <2>2 DEF Take, new, Flag
      <4> QED
        BY <1>1, <4>1 DEF TakeInv, Taken
    <3>2. CASE acc.rest = <<>>
      <4>1. Kept(args, n) = {}
        BY <1>1, <3>2 DEF TakeInv
      <4>2. Tail(new.rest) = <<>> /\ new.rest[1] = a
        BY <1>2, <1>3, <3>1, <3>2, AppendFirst
      <4> QED
        BY <1>4, <2>2, <4>1, <4>2, FirstRest DEF a
    <3>3. CASE acc.rest # <<>>
      <4>1. new.rest[1] = acc.rest[1]
        BY <1>2, <1>3, <3>1, <3>3, AppendFirst
      <4>2. RestInv(args, n, flags, acc.rest)
        BY <1>4, <3>3, <4>1 DEF LineInv
      <4>3. PICK k : IsFirst(k, Kept(args, n)) /\ acc.rest[1] = args[k]
        BY <1>1, <3>3 DEF TakeInv
      <4>4. k \in Loose(args, n)
        BY <1>3, <1>4, <4>1, <4>3, KeptFacts
      <4> QED
        BY <1>2, <2>2, <3>1, <3>3, <4>2, <4>4, MoreRest DEF a
    <3> QED
      BY <3>2, <3>3
  <2> QED
    BY <2>1, <2>2
<1> QED
  BY <1>1, <1>4 DEF LineInv, a, new

\* What is known after the last argument.
LEMMA TakeFileInv ==
    ASSUME NEW args \in Seq(Argument), Sense(args, Len(args))
    PROVE  LineInv(args, Len(args), TakeFile(args))
<1> DEFINE len == Len(args)
<1>1. len \in Nat
  BY LenProperties
<1>2. PICK f : /\ f[0] = NothingTaken
               /\ \A n \in 1..len : f[n] = Take(f[n - 1], args[n])
               /\ TakeFile(args) = f[len]
  BY TakeFileSteps
<1> HIDE DEF len
<1> DEFINE R == {n \in Nat : n <= len => LineInv(args, n, f[n])}
<1>3. 0 \in R
  <2>1. NothingTaken \in Taken /\ NothingTaken.open = FALSE /\ NothingTaken.rest = <<>>
        /\ NothingTaken.file = Nothing
    BY EmptySeq DEF NothingTaken, Taken
  <2>2. Kept(args, 0) = {} /\ Complete(args, 0, "f") = {} /\ ~Pending(args, 0, "f")
    BY DEF Kept, Complete, Pending
  <2>3. LineInv(args, 0, f[0])
    BY <1>2, <2>1, <2>2 DEF LineInv, TakeInv, Says
  <2> QED
    BY <2>3
<1>4. ASSUME NEW n \in Nat, n \in R
      PROVE  n + 1 \in R
  <2> SUFFICES ASSUME n + 1 <= len
               PROVE  LineInv(args, n + 1, f[n + 1])
    OBVIOUS
  <2>1. LineInv(args, n, f[n])
    BY <1>1, <1>4
  <2>2. n + 1 \in 1..len /\ (n + 1) - 1 = n
    BY <1>1
  <2>3. f[n + 1] = Take(f[n], args[n + 1])
    BY <1>2, <2>2
  <2>4. Sense(args, len)
    BY DEF len
  <2> QED
    BY <1>1, <2>1, <2>3, <2>4, LineStep
<1> HIDE DEF R
<1>5. len \in R
  <2>1. Nat \subseteq R
    BY <1>3, <1>4, Induction
  <2> QED
    BY <1>1, <2>1
<1> USE DEF R
<1>6. LineInv(args, len, f[len])
  BY <1>1, <1>5
<1> QED
  BY <1>2, <1>6 DEF len

\* After the last argument every flag has its value.
LEMMA SaysIsValueOf ==
    ASSUME NEW args \in Seq(Argument), Sense(args, Len(args)), NEW name, NEW v,
           Says(args, Len(args), name, v)
    PROVE  ValueOf(args, name) = v
<1> DEFINE len == Len(args)
           uses == {k \in DOMAIN args : args[k].name = name}
<1>1. len \in Nat /\ DOMAIN args = 1..len
  BY LenProperties
<1>2. Sense(args, len) /\ Says(args, len, name, v)
  OBVIOUS
<1> HIDE DEF len
<1>3. uses = Complete(args, len, name)
  <2>1. ASSUME NEW k \in 1..len, IsOpen(args[k])
        PROVE  k < len
    BY <1>1, <1>2, <2>1 DEF Sense
  <2> QED
    BY <1>1, <2>1 DEF Complete
<1> HIDE DEF uses
<1>4. CASE uses = {}
  <2>1. v = Nothing
    BY <1>2, <1>3, <1>4 DEF Says
  <2> QED
    BY <1>4, <2>1 DEF ValueOf, uses
<1>5. CASE uses # {}
  <2>1. PICK k \in uses : v = Value(args, k) /\ \A l \in uses : l <= k
    BY <1>2, <1>3, <1>5 DEF Says
  <2> DEFINE c == CHOOSE j \in uses : \A l \in uses : l <= j
  <2>2. c \in uses /\ \A l \in uses : l <= c
    BY <2>1
  <2>3. c = k
    <3>1. c <= k /\ k <= c
      BY <2>1, <2>2
    <3>2. uses \subseteq Int
      BY <1>1 DEF uses
    <3> HIDE DEF c
    <3> QED
      BY <2>1, <2>2, <3>1, <3>2
  <2>4. ValueOf(args, name) = Value(args, c)
    BY <1>5 DEF ValueOf, uses
  <2> HIDE DEF c
  <2> QED
    BY <2>1, <2>3, <2>4
<1> QED
  BY <1>4, <1>5

LEMMA FirstIsFirst ==
    ASSUME NEW S \in SUBSET Int, NEW k, IsFirst(k, S)
    PROVE  FirstIn(S) = k
<1> DEFINE c == CHOOSE j \in S : \A l \in S : j <= l
<1>1. c \in S /\ \A l \in S : c <= l
  BY DEF IsFirst
<1>2. FirstIn(S) = c
  BY DEF FirstIn
<1> HIDE DEF c
<1>3. c <= k /\ k <= c /\ c \in Int /\ k \in Int
  BY <1>1 DEF IsFirst
<1> QED
  BY <1>2, <1>3

LEMMA SubcommandFlags == \A cmd \in DOMAIN Flags : Flags[cmd] \in SUBSET FlagNames
BY DEF Flags, FlagNames

\* What the flag package reads after the subcommand, when a subcommand is there.
LEMMA FlagsAreRead ==
    ASSUME NEW args \in Seq(Argument), Sense(args, Len(args)), NEW flags \in SUBSET FlagNames,
           NEW rest \in Seq(Argument), rest # <<>>, RestInv(args, Len(args), flags, rest)
    PROVE  LET read == Parse(Reorder(Tail(rest)), flags)
           IN  /\ Unknown(args, Len(args), flags) => read.wrong
               /\ ~Unknown(args, Len(args), flags) =>
                    /\ read.wrong = FALSE /\ read.open = Nothing
                    /\ read.given = [name \in flags |-> ValueOf(args, name)]
                    /\ read.words = <<>> <=> Others(args, Len(args)) = {}
                    /\ read.words # <<>> =>
                         \E k : IsFirst(k, Others(args, Len(args))) /\ read.words[1] = args[k]
<1> DEFINE len == Len(args)
           s == Sorted(Tail(rest))
           p == Parse(s.flags, flags)
           read == Parse(Reorder(Tail(rest)), flags)
<1>1. len \in Nat /\ Sense(args, len)
  BY LenProperties
<1>2. ~Waits(args, len)
  <2> HIDE DEF len
  <2>1. len > 0 => len \in 1..len /\ len + 1 \notin 1..len
    BY <1>1
  <2> QED
    BY <1>1, <2>1 DEF Waits, Sense
<1>3. /\ s.open <=> Waits(args, len)
      /\ s.words \in Seq(WordArgs)
      /\ s.words = <<>> <=> Others(args, len) = {}
      /\ s.words # <<>> => \E k : IsFirst(k, Others(args, len)) /\ s.words[1] = args[k]
      /\ p.wrong <=> Unknown(args, len, flags)
      /\ ~p.wrong =>
           /\ p.words = <<>>
           /\ p.open = IF s.open THEN args[len].name ELSE Nothing
           /\ \A name \in flags : Says(args, len, name, p.given[name])
  BY DEF RestInv
<1>4. s \in Split
  BY SortedType, HeadTailProperties
<1>5. s.flags \in Seq(Argument)
  BY <1>4 DEF Split
<1>6. p \in Reading(flags)
  BY <1>5, ParseType
<1>7. /\ p.wrong => read.wrong
      /\ p.open = Nothing => read = [p EXCEPT !.words = @ \o s.words]
  <2>1. PICK f \in Seq(Argument) : f = s.flags
    BY <1>5
  <2>2. PICK w \in Seq(WordArgs) : w = s.words
    BY <1>3
  <2>3. read = Parse(f \o w, flags) /\ p = Parse(f, flags)
    BY <2>1, <2>2 DEF Reorder
  <2>4. LET a == Parse(f, flags)
            b == Parse(f \o w, flags)
        IN  /\ a.wrong => b.wrong
            /\ a.open = Nothing => b = [a EXCEPT !.words = @ \o w]
    BY ReadWords
  <2> HIDE DEF s, p, read
  <2> QED
    BY <2>2, <2>3, <2>4
<1> HIDE DEF s, p, read
<1>8. CASE Unknown(args, len, flags)
  BY <1>3, <1>7, <1>8 DEF read
<1>9. CASE ~Unknown(args, len, flags)
  <2>1. ~p.wrong /\ p.words = <<>> /\ p.open = Nothing /\ \A name \in flags : Says(args, len, name, p.given[name])
    BY <1>2, <1>3, <1>9
  <2>2. read = [p EXCEPT !.words = p.words \o s.words]
    BY <1>7, <2>1
  <2>3. p.words \o s.words = s.words
    BY <1>3, <2>1, ConcatEmptySeq
  <2>4. read.wrong = FALSE /\ read.open = Nothing /\ read.given = p.given /\ read.words = s.words
    BY <1>6, <2>1, <2>2, <2>3 DEF Reading
  <2>5. \A name \in flags : p.given[name] = ValueOf(args, name)
    BY <2>1, SaysIsValueOf
  <2>6. p.given \in [flags -> STRING \cup {Nothing}]
    BY <1>6 DEF Reading
  <2>7. p.given = [name \in flags |-> ValueOf(args, name)]
    BY <2>5, <2>6
  <2> QED
    BY <1>3, <1>9, <2>4, <2>7 DEF read
<1> QED
  BY <1>8, <1>9 DEF len

\* The passes over the arguments (-f in main, main.go:590-607; reorderArgs, 541-559; the
\* flag package) make of a sensible command line of any length what it means.
THEOREM InterpretsAsMeant ==
    ASSUME NEW args, Sensible(args)
    PROVE  Interpret(args) = Meant(args)
<1> DEFINE len == Len(args)
<1>1. args \in Seq(Argument) /\ len \in Nat /\ DOMAIN args = 1..len
  BY LenProperties DEF Sensible
<1>2. Sense(args, len)
  <2>1. \A k \in 1..len : args[k] \in Argument
    BY <1>1, ElementOfSeq
  <2> HIDE DEF len
  <2> QED
    BY <1>1, <2>1 DEF Sensible, Sense
<1> DEFINE taken == TakeFile(args)
           file == taken.file
           rest == taken.rest
           words == Words(args)
<1>3. TakeInv(args, len, taken)
  BY <1>1, <1>2, TakeFileInv DEF LineInv
<1>4. rest # <<>> /\ ~IsFlag(rest[1]) =>
        \A flags \in SUBSET FlagNames : RestInv(args, len, flags, rest)
  BY <1>1, <1>2, TakeFileInv DEF LineInv
<1>5. ValueOf(args, "f") = file
  <2>1. Says(args, len, "f", file)
    BY <1>3 DEF TakeInv
  <2> QED
    BY <1>1, <1>2, <2>1, SaysIsValueOf
<1>6. words = Loose(args, len)
  <2> HIDE DEF len
  <2> QED
    BY <1>1 DEF Words, Loose
<1>7. rest \in Seq(Argument)
  BY <1>3 DEF TakeInv, Taken
<1> DEFINE values == IF file = Nothing THEN NoFile ELSE Files[file]
<1> HIDE DEF taken, len
<1>8. /\ words \subseteq Kept(args, len)
      /\ \A k \in 1..len : IsFlag(args[k]) /\ args[k].name # "f" => k \in Kept(args, len)
      /\ \A k : IsFirst(k, Kept(args, len)) /\ ~IsFlag(args[k]) => k \in words
  <2>1. len \in 0..len
    BY <1>1
  <2> QED
    BY <1>1, <1>2, <1>6, <2>1, KeptFacts
<1>9. words \in SUBSET Int
  BY <1>1 DEF Words
<1> HIDE DEF words
<1>10. CASE file # Nothing /\ file \notin DOMAIN Files
  <2>1. Interpret(args) = Usage
    BY <1>10 DEF Interpret, taken
  <2>2. Meant(args) = Usage
    BY <1>5, <1>10 DEF Meant
  <2> QED
    BY <2>1, <2>2
<1>11. CASE rest = <<>>
  <2>1. Interpret(args) = Usage
    BY <1>11 DEF Interpret, taken
  <2>2. words = {}
    BY <1>3, <1>8, <1>11 DEF TakeInv
  <2>3. Meant(args) = Usage
    BY <2>2 DEF Meant, words
  <2> QED
    BY <2>1, <2>3
<1>12. CASE rest # <<>> /\ IsFlag(rest[1])
  <2>1. Interpret(args) = Usage
    BY <1>12 DEF Interpret, taken
  <2>2. PICK k : IsFirst(k, Kept(args, len)) /\ rest[1] = args[k]
    BY <1>3, <1>12 DEF TakeInv
  <2>3. ASSUME words # {}
        PROVE  k \in 1..FirstIn(words) /\ IsFlag(args[k]) /\ args[k].name # "f"
    <3>1. FirstIn(words) \in words
      <4>1. PICK w \in words : IsFirst(w, words)
        <5>1. words \in SUBSET Nat
          BY <1>1 DEF words, Words
        <5> QED
          BY <2>3, <5>1, Smallest DEF IsFirst
      <4> QED
        BY <1>9, <4>1, FirstIsFirst
    <3>2. k <= FirstIn(words) /\ k \in 1..len /\ args[k].name # "f"
      BY <1>8, <2>2, <3>1 DEF IsFirst, Kept
    <3> QED
      BY <1>9, <1>12, <2>2, <3>1, <3>2
  <2>4. Meant(args) = Usage
    BY <2>3 DEF Meant, words
  <2> QED
    BY <2>1, <2>4
<1>13. CASE /\ file = Nothing \/ file \in DOMAIN Files
            /\ rest # <<>> /\ ~IsFlag(rest[1])
  <2>1. PICK first : IsFirst(first, Kept(args, len)) /\ rest[1] = args[first]
    BY <1>3, <1>13 DEF TakeInv
  <2>2. first \in words /\ IsFirst(first, words)
    BY <1>8, <1>13, <2>1 DEF IsFirst
  <2>3. FirstIn(words) = first
    BY <1>9, <2>2, FirstIsFirst
  <2>4. \A k \in 1..first : ~IsFlag(args[k]) \/ args[k].name = "f"
    <3>1. ASSUME NEW k \in 1..first, IsFlag(args[k]), args[k].name # "f"
          PROVE  FALSE
      <4>1. first \in 1..len
        BY <2>1 DEF IsFirst, Kept
      <4>2. k \in 1..len /\ k <= first
        BY <1>1, <4>1
      <4>3. first <= k
        BY <1>8, <2>1, <3>1, <4>2 DEF IsFirst
      <4>4. k = first
        BY <4>1, <4>2, <4>3
      <4> QED
        BY <1>13, <2>1, <3>1, <4>4
    <3> QED
      BY <3>1
  <2> DEFINE cmd == args[first].value
  <2>5. CASE cmd \notin DOMAIN Flags
    <3>1. Interpret(args) = Usage
      BY <1>13, <2>1, <2>5 DEF Interpret, taken
    <3>2. Meant(args) = Usage
      BY <2>3, <2>5 DEF Meant, words
    <3> QED
      BY <3>1, <3>2
  <2>6. CASE cmd \in DOMAIN Flags
    <3> DEFINE flags == Flags[cmd]
               read == Parse(Reorder(Tail(rest)), flags)
               url == IF words \ {first} = {} THEN Nothing
                      ELSE args[FirstIn(words \ {first})].value
               settings == Chosen(cmd, url, [name \in flags |-> ValueOf(args, name)], values)
    <3>1. flags \in SUBSET FlagNames
      BY <2>6, SubcommandFlags
    <3>2. /\ Unknown(args, len, flags) => read.wrong
          /\ ~Unknown(args, len, flags) =>
               /\ read.wrong = FALSE /\ read.open = Nothing
               /\ read.given = [name \in flags |-> ValueOf(args, name)]
               /\ read.words = <<>> <=> Others(args, len) = {}
               /\ read.words # <<>> =>
                    \E k : IsFirst(k, Others(args, len)) /\ read.words[1] = args[k]
      <4>1. RestInv(args, len, flags, rest)
        BY <1>4, <1>13, <3>1
      <4> HIDE DEF flags
      <4> QED
        BY <1>1, <1>2, <1>7, <1>13, <3>1, <4>1, FlagsAreRead DEF len
    <3>3. Others(args, len) = words \ {first}
      BY <1>6, <1>9, <2>2 DEF Others, IsFirst
    <3>4. Unknown(args, len, flags) <=>
            ~\A k \in DOMAIN args : ~IsFlag(args[k]) \/ args[k].name = "f" \/ args[k].name \in flags
      BY <1>1 DEF Unknown
    <3>5. Meant(args) = IF ~Unknown(args, len, flags) /\ settings.url # Nothing
                          THEN settings ELSE Usage
      <4> HIDE DEF settings
      <4>1. words # {} /\ (ValueOf(args, "f") = Nothing \/ ValueOf(args, "f") \in DOMAIN Files)
        BY <1>5, <1>13, <2>2
      <4> QED
        BY <1>5, <2>3, <2>4, <2>6, <3>4, <4>1 DEF Meant, words, settings
    <3>6. CASE Unknown(args, len, flags)
      <4>1. Interpret(args) = Usage
        BY <1>13, <2>1, <2>6, <3>2, <3>6 DEF Interpret, taken
      <4> QED
        BY <3>5, <3>6, <4>1
    <3>7. CASE ~Unknown(args, len, flags)
      <4>1. url = IF read.words = <<>> THEN Nothing ELSE read.words[1].value
        <5>1. words \ {first} \in SUBSET Int
          BY <1>9
        <5> QED
          BY <3>2, <3>3, <3>7, <5>1, FirstIsFirst
      <4>2. settings.url = FirstOf(url, values.url, Nothing)
        BY DEF Chosen
      <4> HIDE DEF url, values
      <4>3. settings = Chosen(cmd, url, read.given, values)
        BY <3>2, <3>7
      <4> HIDE DEF settings
      <4>4. Interpret(args) = IF FirstOf(url, values.url, Nothing) = Nothing THEN Usage
                              ELSE Chosen(cmd, url, read.given, values)
        BY <1>13, <2>1, <2>6, <3>2, <3>7, <4>1 DEF Interpret, taken, values
      <4> QED
        BY <3>5, <3>7, <4>2, <4>3, <4>4
    <3> QED
      BY <3>6, <3>7
  <2> QED
    BY <2>5, <2>6
<1> QED
  BY <1>10, <1>11, <1>12, <1>13

LEMMA FirstInIsThere ==
    ASSUME NEW S \in SUBSET Nat, S # {}
    PROVE  FirstIn(S) \in S
<1>1. PICK m \in S : IsFirst(m, S)
  BY Smallest DEF IsFirst
<1>2. FirstIn(S) = m
  BY <1>1, FirstIsFirst
<1> QED
  BY <1>1, <1>2

\* What a flag says is the value of one of its uses.
LEMMA ValueOfIsSaid ==
    ASSUME NEW args, Sensible(args), NEW name,
           NEW T, \A k \in DOMAIN args : args[k].name = name => Value(args, k) \in T
    PROVE  ValueOf(args, name) \in {Nothing} \cup T
<1> DEFINE len == Len(args)
           uses == {k \in DOMAIN args : args[k].name = name}
<1>1. len \in Nat /\ DOMAIN args = 1..len
  BY LenProperties DEF Sensible
<1> HIDE DEF len
<1>2. CASE uses = {}
  BY <1>2 DEF ValueOf
<1>3. CASE uses # {}
  <2> DEFINE fromEnd == {j \in Nat : \E k \in uses : j = len - k}
  <2>1. fromEnd # {}
    <3>1. PICK k \in uses : TRUE
      BY <1>3
    <3>2. len - k \in Nat
      BY <1>1
    <3> QED
      BY <3>1, <3>2
  <2>2. PICK j \in fromEnd : \A i \in fromEnd : j <= i
    BY <2>1, Smallest
  <2>3. PICK k \in uses : j = len - k
    OBVIOUS
  <2>4. ASSUME NEW l \in uses PROVE l <= k
    <3>1. len - l \in fromEnd /\ l \in Nat /\ k \in Nat
      BY <1>1
    <3> QED
      BY <1>1, <2>2, <2>3, <3>1
  <2> DEFINE last == CHOOSE m \in uses : \A l \in uses : l <= m
  <2>5. last \in uses
    BY <2>3, <2>4
  <2>6. ValueOf(args, name) = Value(args, last)
    BY <1>3 DEF ValueOf
  <2> QED
    BY <2>5, <2>6
<1> QED
  BY <1>2, <1>3

LEMMA ChosenTypes ==
    ASSUME NEW cmd \in DOMAIN Flags, NEW url \in {Nothing} \cup STRING,
           NEW given, \A name \in {"port", "config", "http-port"} \cap Flags[cmd] :
              given[name] \in {Nothing} \cup
                (CASE name = "port" -> Ports
                   [] name = "config" -> DOMAIN OvpnPort
                   [] name = "http-port" -> Ports \cup {"0"}),
           NEW file,
           file.url \in {Nothing} \cup STRING, file.port \in {Nothing} \cup Ports,
           file.config \in {Nothing} \cup DOMAIN OvpnPort,
           FirstOf(url, file.url, Nothing) # Nothing
    PROVE  Chosen(cmd, url, given, file) \in Settings
<1>1. cmd \in {"connect", "proxy"} /\ "port" \in Flags[cmd]
      /\ (cmd = "connect" => "config" \in Flags[cmd]) /\ (cmd = "proxy" => "http-port" \in Flags[cmd])
  BY DEF Flags
<1>2. /\ given["port"] \in {Nothing} \cup Ports
      /\ cmd = "connect" => given["config"] \in {Nothing} \cup DOMAIN OvpnPort
      /\ cmd = "proxy" => given["http-port"] \in {Nothing} \cup Ports \cup {"0"}
  BY <1>1
<1>3. FirstOf(url, file.url, Nothing) \in STRING
  BY DEF FirstOf
<1>4. FirstOf(given["port"], file.port, "11194") \in Ports
  BY <1>2, DefaultsArePorts DEF FirstOf
<1>5. (IF cmd = "connect" THEN FirstOf(given["config"], file.config, Nothing) ELSE Nothing)
        \in {Nothing} \cup DOMAIN OvpnPort
  BY <1>2 DEF FirstOf
<1>6. (IF cmd = "proxy" THEN FirstOf(given["http-port"], Nothing, "8080") ELSE "0") \in Ports \cup {"0"}
  BY <1>1, <1>2, DefaultsArePorts DEF FirstOf
<1> QED
  BY <1>1, <1>3, <1>4, <1>5, <1>6 DEF Chosen, Settings

\* What a command line means is settings.
LEMMA Understood ==
    ASSUME NEW args \in CommandLines
    PROVE  Interpret(args) \in Settings
<1> DEFINE file == ValueOf(args, "f")
           values == IF file = Nothing THEN NoFile ELSE Files[file]
           words == Words(args)
           first == FirstIn(words)
           cmd == args[first].value
           rest == words \ {first}
           url == IF rest = {} THEN Nothing ELSE args[FirstIn(rest)].value
           given == [name \in Flags[cmd] |-> ValueOf(args, name)]
           settings == Chosen(cmd, url, given, values)
<1>1. Sensible(args) /\ args \in Seq(Argument)
  BY CommandLinesAreTyped DEF Sensible
<1>2. DOMAIN args = 1..Len(args) /\ Len(args) \in Nat /\ \A k \in DOMAIN args : args[k] \in Argument
  BY <1>1, LenProperties, ElementOfSeq
<1>3. words \in SUBSET Nat /\ words \subseteq DOMAIN args
  BY <1>2 DEF Words
<1>4. /\ ValueOf(args, "port") \in {Nothing} \cup Ports
      /\ ValueOf(args, "config") \in {Nothing} \cup DOMAIN OvpnPort
      /\ ValueOf(args, "http-port") \in {Nothing} \cup (Ports \cup {"0"})
  <2>1. \A k \in DOMAIN args :
          /\ args[k].name = "port" => Value(args, k) \in Ports
          /\ args[k].name = "http-port" => Value(args, k) \in Ports \cup {"0"}
          /\ args[k].name = "config" => Value(args, k) \in DOMAIN OvpnPort
    BY CommandLinesAreTyped
  <2> QED
    BY <1>1, <2>1, ValueOfIsSaid
<1>5. url \in {Nothing} \cup STRING
  <2>1. rest # {} => FirstIn(rest) \in DOMAIN args
    BY <1>3, FirstInIsThere
  <2> QED
    BY <1>2, <2>1 DEF Argument
<1>6. file = Nothing \/ file \in DOMAIN Files =>
        /\ values.url \in {Nothing} \cup STRING /\ values.port \in {Nothing} \cup Ports
        /\ values.config \in {Nothing} \cup DOMAIN OvpnPort
  BY FilesAreTyped DEF NoFile
<1>7. Usage \in Settings
  BY DEF Usage, Settings
<1>8. \/ Meant(args) = Usage
      \/ /\ file = Nothing \/ file \in DOMAIN Files
         /\ cmd \in DOMAIN Flags /\ settings.url # Nothing
         /\ Meant(args) = settings
  BY DEF Meant
<1>9. settings.url = FirstOf(url, values.url, Nothing)
  BY DEF Chosen
<1> HIDE DEF file, values, words, url
<1>10. ASSUME cmd \in DOMAIN Flags, file = Nothing \/ file \in DOMAIN Files, settings.url # Nothing
       PROVE  settings \in Settings
  <2>1. \A name \in {"port", "config", "http-port"} \cap Flags[cmd] :
          given[name] \in {Nothing} \cup
            (CASE name = "port" -> Ports
               [] name = "config" -> DOMAIN OvpnPort
               [] name = "http-port" -> Ports \cup {"0"})
    BY <1>4
  <2> HIDE DEF given, cmd
  <2> QED
    BY <1>5, <1>6, <1>9, <1>10, <2>1, ChosenTypes
<1>11. Meant(args) \in Settings
  BY <1>7, <1>8, <1>10
<1> QED
  BY <1>1, <1>11, InterpretsAsMeant

----------------------------------------------------------------------------
(* The runs.                                                               *)

Connects(r) == set[r].cmd = "connect"
AfterListening == {"download", "copy", "openvpn", "notify"} \cup Handling

\* What holds of each run at each stage: who listens, which file there is and which
\* OpenVPN.
StageInv(r) ==
    /\ pc[r] \in Starting \cup Handling => set[r].cmd # "usage"
    /\ pc[r] = "listen http" => ~Connects(r) /\ set[r].http # "0"
    /\ pc[r] \in {"download", "copy", "openvpn", "remove"} => Connects(r)
    /\ pc[r] = "idle" => ready[r] = ""
    /\ temp[r] # "none" => Connects(r) /\ pc[r] \in {"copy", "openvpn", "notify", "gone"} \cup Handling
    /\ vpn[r] # "none" => Connects(r) /\ pc[r] \in {"notify", "gone"} \cup Handling
    /\ pc[r] = "remove" => vpn[r] = "dead"
    /\ peer[r] # Nobody => vpn[r] \in {"up", "term"}
    /\ Connects(r) /\ (pc[r] \in AfterListening \/ (pc[r] = "listen" /\ ready[r] = "nil")) =>
         bound[set[r].port] = r
    /\ pc[r] = "gone" /\ temp[r] # "none" => why[r] \in {"killed", "no openvpn"}
    /\ pc[r] = "gone" /\ vpn[r] \in {"dial", "up", "term"} => why[r] = "killed"
    /\ Alive(r) /\ Connects(r) /\ Remote(r) = set[r].port => peer[r] \in {r, Nobody}

ClientInv == TypeOK /\ \A r \in Runs : StageInv(r)

LEMMA PortTypes ==
    ASSUME NEW s \in Settings, s.cmd # "usage"
    PROVE  s.port \in Ports /\ s.http \in Ports \cup {"0"} /\ s.config \in {Nothing} \cup DOMAIN OvpnPort /\ s.cmd \in {"connect", "proxy"}
<1>1. s \notin {[cmd |-> "usage"]}
  OBVIOUS
<1> QED
  BY <1>1 DEF Settings

LEMMA ClientInit == Init => ClientInv
<1> SUFFICES ASSUME Init PROVE ClientInv
  OBVIOUS
<1>1. TypeOK
  <2>1. signals \in 0..MaxSignals
    <3>1. signals = 0
      BY DEF Init
    <3> QED
      BY <3>1, SignalBound
  <2>2. set \in [Runs -> Settings]
    BY DEF Init, Settings, Usage
  <2> QED
    BY <2>1, <2>2 DEF Init, TypeOK
<1>2. \A r \in Runs : StageInv(r)
  BY DEF Init, StageInv, Starting, Handling, AfterListening, Alive, Connects, Usage
<1> QED
  BY <1>1, <1>2 DEF ClientInv

\* The run ends; its OpenVPN may have been told to.
LEMMA ExitStep ==
    ASSUME ClientInv, NEW r \in Runs, Alive(r), NEW reason \in {"fatal", "no openvpn", "killed", "done"},
           NEW state \in {vpn, Told(r)}, Exit(r, reason, state), UNCHANGED <<set, sig>>,
           signals' \in 0..MaxSignals,
           temp' \in [Runs -> {"none", "part", "full"}],
           \A o \in Runs \ {r} : temp'[o] = temp[o],
           temp'[r] # "none" => Connects(r) /\ reason \in {"killed", "no openvpn"},
           reason # "killed" => vpn[r] \in {"none", "dead"}
    PROVE  ClientInv'
<1>1. /\ state \in [Runs -> {"none", "dial", "up", "term", "dead"}]
      /\ \A o \in Runs \ {r} : state[o] = vpn[o]
      /\ state[r] = vpn[r] \/ (vpn[r] \in {"dial", "up"} /\ state[r] = "term")
  BY DEF ClientInv, TypeOK, Told
<1>2. /\ vpn' \in [Runs -> {"none", "dial", "up", "term", "dead"}]
      /\ peer' \in [Runs -> Runs \cup {Nobody}]
      /\ bound' \in [Ports -> Runs \cup {Nobody}]
      /\ ready' \in [Runs -> {"", "nil", "error"}]
      /\ why' \in [Runs -> {"", "usage", "fatal", "no openvpn", "killed", "done"}]
      /\ pc' \in [Runs -> {"idle", "gone"} \cup Starting \cup Handling]
  BY <1>1 DEF Exit, Goto, ClientInv, TypeOK
<1>3. TypeOK'
  BY <1>2 DEF ClientInv, TypeOK
<1>4. /\ pc'[r] = "gone" /\ why'[r] = reason /\ set'[r] = set[r]
      /\ vpn'[r] = vpn[r] \/ (vpn[r] \in {"dial", "up"} /\ vpn'[r] \in {"dial", "term"})
      /\ peer'[r] # Nobody => peer[r] # Nobody /\ vpn'[r] \in {"up", "term"}
  BY <1>1 DEF Exit, Goto, ClientInv, TypeOK, StageInv
<1>5. StageInv(r)'
  <2>1. StageInv(r)
    BY DEF ClientInv
  <2> QED
    BY <1>4, <2>1 DEF StageInv, Starting, Handling, AfterListening, Alive, Connects
<1>6. ASSUME NEW o \in Runs, o # r PROVE StageInv(o)'
  <2>1. StageInv(o)
    BY DEF ClientInv
  <2>2. /\ pc'[o] = pc[o] /\ why'[o] = why[o] /\ set'[o] = set[o] /\ ready'[o] = ready[o] /\ temp'[o] = temp[o]
        /\ vpn'[o] = vpn[o] \/ (vpn[o] = "up" /\ vpn'[o] = "dial")
        /\ peer'[o] = peer[o] \/ peer'[o] = Nobody
        /\ peer'[o] # Nobody => vpn'[o] = vpn[o]
    <3>1. /\ pc'[o] = pc[o] /\ why'[o] = why[o] /\ set'[o] = set[o] /\ ready'[o] = ready[o]
          /\ temp'[o] = temp[o]
      BY <1>6 DEF Exit, Goto, ClientInv, TypeOK
    <3>2. /\ vpn'[o] = IF peer[o] = r /\ vpn[o] = "up" THEN "dial" ELSE vpn[o]
          /\ peer'[o] = IF peer[o] = r THEN Nobody ELSE peer[o]
      BY <1>1, <1>6 DEF Exit
    <3> QED
      BY <3>1, <3>2
  <2>3. \A n \in Ports : bound[n] = o => bound'[n] = o
    BY <1>6 DEF Exit
  <2>4. set[o].cmd # "usage" => set[o].port \in Ports
    BY PortTypes DEF ClientInv, TypeOK
  <2>5. Remote(o)' = Remote(o)
    BY <2>2 DEF Remote
  <2> QED
    BY <2>1, <2>2, <2>3, <2>4, <2>5 DEF StageInv, Alive, Connects
<1> QED
  BY <1>3, <1>5, <1>6 DEF ClientInv
\* A step of one run, after which it goes on: the others keep what they have.
LEMMA RunStep ==
    ASSUME ClientInv, TypeOK', NEW r \in Runs, StageInv(r)',
           \A o \in Runs \ {r} :
              /\ pc'[o] = pc[o] /\ why'[o] = why[o] /\ set'[o] = set[o] /\ ready'[o] = ready[o]
              /\ temp'[o] = temp[o] /\ vpn'[o] = vpn[o] /\ peer'[o] = peer[o]
              /\ \A n \in Ports : bound[n] = o => bound'[n] = o
    PROVE  ClientInv'
<1>1. ASSUME NEW o \in Runs, o # r PROVE StageInv(o)'
  <2>1. StageInv(o)
    BY DEF ClientInv
  <2>2. set[o].cmd # "usage" => set[o].port \in Ports
    BY PortTypes DEF ClientInv, TypeOK
  <2>3. Remote(o)' = Remote(o)
    BY <1>1 DEF Remote
  <2>4. /\ pc'[o] = pc[o] /\ why'[o] = why[o] /\ set'[o] = set[o] /\ ready'[o] = ready[o]
        /\ temp'[o] = temp[o] /\ vpn'[o] = vpn[o] /\ peer'[o] = peer[o]
    BY <1>1
  <2>5. set[o].cmd # "usage" /\ bound[set[o].port] = o => bound'[set[o].port] = o
    BY <1>1, <2>2
  <2> QED
    BY <2>1, <2>3, <2>4, <2>5 DEF StageInv, Alive, Connects
<1> QED
  BY <1>1 DEF ClientInv

LEMMA StartStep ==
    ASSUME ClientInv, NEW r \in Runs, NEW args \in CommandLines, Start(r, args)
    PROVE  ClientInv'
<1>1. Interpret(args) \in Settings /\ pc[r] = "idle" /\ StageInv(r)
  BY Understood DEF Start, ClientInv
<1>2. TypeOK'
  BY <1>1 DEF ClientInv, TypeOK, Start, Goto, Starting, fileVars, vpnVars
<1>3. /\ set'[r] = Interpret(args)
      /\ UNCHANGED <<ready, bound, temp, vpn, peer>>
      /\ (Interpret(args) = Usage /\ pc'[r] = "gone") \/ (Interpret(args) # Usage /\ pc'[r] = "listen")
  BY DEF ClientInv, TypeOK, Start, Goto, vpnVars
<1>4. Interpret(args) # Usage => Interpret(args).cmd # "usage"
  BY <1>1 DEF Settings, Usage
<1>5. ready[r] = "" /\ temp[r] = "none" /\ vpn[r] = "none" /\ peer[r] = Nobody
  BY <1>1 DEF StageInv, Handling, ClientInv, TypeOK
<1>6. StageInv(r)'
  BY <1>3, <1>4, <1>5 DEF StageInv, Connects, Alive, AfterListening, Starting, Handling
<1>7. \A o \in Runs \ {r} : pc'[o] = pc[o] /\ why'[o] = why[o] /\ set'[o] = set[o]
  BY DEF Start, Goto, ClientInv, TypeOK
<1> QED
  BY <1>2, <1>3, <1>6, <1>7, RunStep

LEMMA ListenStep ==
    ASSUME ClientInv, NEW r \in Runs, Listen(r)
    PROVE  ClientInv'
<1>1. PICK port \in Ports : Bind(r, port) /\ (pc[r] = "listen" => port = set[r].port)
  <2>1. StageInv(r) /\ set[r] \in Settings
    BY DEF ClientInv, TypeOK
  <2>2. pc[r] \in Starting
    BY DEF Listen, Starting
  <2>3. set[r].port \in Ports /\ set[r].http \in Ports \cup {"0"}
    BY <2>1, <2>2, PortTypes DEF StageInv
  <2>4. pc[r] = "listen http" => set[r].http # "0"
    BY <2>1 DEF StageInv
  <2> QED
    BY <2>3, <2>4 DEF Listen
<1>2. bound' \in [Ports -> Runs \cup {Nobody}] /\ ready' \in [Runs -> {"", "nil", "error"}]
  BY <1>1 DEF ClientInv, TypeOK, Bind
<1>3. TypeOK'
  BY <1>1, <1>2 DEF ClientInv, TypeOK, Bind, fileVars, vpnVars
<1>4. /\ pc[r] \in {"listen", "listen http"} /\ ready[r] = ""
      /\ UNCHANGED <<pc, set, temp, why, vpn, peer>>
      /\ ready'[r] = "nil" => bound'[port] = r
      /\ \A o \in Runs \ {r} : ready'[o] = ready[o] /\ \A n \in Ports : bound[n] = o => bound'[n] = o
  BY <1>1, NobodyIsNoRun DEF ClientInv, TypeOK, Listen, Bind, fileVars, vpnVars
<1>5. StageInv(r)'
  <2>1. StageInv(r)
    BY DEF ClientInv
  <2>2. Remote(r)' = Remote(r)
    BY <1>4 DEF Remote
  <2> QED
    BY <1>1, <1>4, <2>1, <2>2 DEF StageInv, Connects, Alive, AfterListening, Starting, Handling
<1> QED
  BY <1>3, <1>4, <1>5, RunStep

\* The main goroutine goes on to its next stage, without an end.
LEMMA GoOnStep ==
    ASSUME ClientInv, NEW r \in Runs, NEW label \in Starting \cup Handling,
           pc' = [pc EXCEPT ![r] = label], StageInv(r)',
           ready' \in [Runs -> {"", "nil", "error"}], \A o \in Runs \ {r} : ready'[o] = ready[o],
           temp' \in [Runs -> {"none", "part", "full"}], \A o \in Runs \ {r} : temp'[o] = temp[o],
           vpn' \in [Runs -> {"none", "dial", "up", "term", "dead"}], \A o \in Runs \ {r} : vpn'[o] = vpn[o],
           UNCHANGED <<set, bound, why, sig, peer, signals>>
    PROVE  ClientInv'
<1>1. TypeOK'
  BY DEF ClientInv, TypeOK
<1> QED
  BY <1>1, RunStep DEF ClientInv, TypeOK

LEMMA ProceedStep ==
    ASSUME ClientInv, NEW r \in Runs, Proceed(r)
    PROVE  ClientInv'
<1>0. StageInv(r)
  BY DEF ClientInv
<1>1. CASE Listens(r) /\ Goto(r, AfterListen(r))
  <2>1. /\ ready[r] = "nil" /\ pc[r] \in {"listen", "listen http"}
        /\ ready' = [ready EXCEPT ![r] = ""] /\ UNCHANGED <<set, bound, temp, why, sig, vpn, peer, signals>>
    BY <1>1 DEF Proceed, Listens, Fatal, Exit, Goto, fileVars, vpnVars
  <2>2. /\ AfterListen(r) \in {"listen http", "notify", "download", "openvpn"}
        /\ AfterListen(r) = "listen http" => ~Connects(r) /\ set[r].http # "0"
        /\ AfterListen(r) \in {"download", "openvpn"} => Connects(r)
    <3>1. set[r].cmd \in {"connect", "proxy"}
      BY <1>0, <2>1, PortTypes DEF StageInv, Starting, ClientInv, TypeOK
    <3> QED
      BY <3>1 DEF AfterListen, Connects
  <2>3. pc'[r] = AfterListen(r) /\ ready'[r] = ""
    BY <1>1, <2>1 DEF Goto, ClientInv, TypeOK
  <2>4. StageInv(r)'
    <3>1. Remote(r)' = Remote(r)
      BY <2>1 DEF Remote
    <3> QED
      BY <1>0, <2>1, <2>2, <2>3, <3>1 DEF StageInv, Connects, Alive, AfterListening, Starting, Handling
  <2>5. AfterListen(r) \in Starting
    BY <2>2 DEF Starting
  <2> QED
    BY <1>1, <2>1, <2>3, <2>4, <2>5, GoOnStep DEF Goto, ClientInv, TypeOK
<1>2. CASE ~Listens(r) /\ Fatal(r, "fatal") /\ UNCHANGED temp
  <2>1. Alive(r) /\ temp[r] = "none" /\ vpn[r] = "none"
    BY <1>0 DEF Proceed, StageInv, Alive, Handling, ClientInv, TypeOK
  <2> QED
    BY <1>2, <2>1, ExitStep DEF Fatal, ClientInv, TypeOK
<1> QED
  BY <1>1, <1>2 DEF Proceed
LEMMA DownloadStep ==
    ASSUME ClientInv, NEW r \in Runs, Download(r) \/ Copy(r)
    PROVE  ClientInv'
<1>0. StageInv(r) /\ Connects(r) /\ Alive(r) /\ vpn[r] = "none"
  BY DEF ClientInv, StageInv, Download, Copy, Alive, Handling
<1>1. CASE Fatal(r, "fatal") /\ UNCHANGED temp /\ pc[r] = "download"
  <2>1. temp[r] = "none"
    BY <1>0, <1>1 DEF StageInv, Handling
  <2> QED
    BY <1>0, <1>1, <2>1, ExitStep DEF Fatal, ClientInv, TypeOK
<1>2. CASE Fatal(r, "fatal") /\ temp' = Discard(r)
  <2>1. temp' \in [Runs -> {"none", "part", "full"}] /\ temp'[r] = "none"
        /\ \A o \in Runs \ {r} : temp'[o] = temp[o]
    BY <1>2 DEF Discard, ClientInv, TypeOK
  <2> QED
    BY <1>0, <1>2, <2>1, ExitStep DEF Fatal, ClientInv, TypeOK
<1>3. ASSUME NEW part \in {"part", "full"}, NEW label \in {"copy", "openvpn"},
             temp' = [temp EXCEPT ![r] = part], Goto(r, label),
             UNCHANGED <<set, ready, bound, why, sig, vpnVars, signals>>
      PROVE  ClientInv'
  <2>1. /\ temp' \in [Runs -> {"none", "part", "full"}] /\ temp'[r] = part
        /\ \A o \in Runs \ {r} : temp'[o] = temp[o]
        /\ pc' = [pc EXCEPT ![r] = label] /\ pc'[r] = label /\ UNCHANGED <<vpn, peer>>
    BY <1>3 DEF Goto, vpnVars, ClientInv, TypeOK
  <2>2. Remote(r)' = Remote(r)
    BY <1>3 DEF Remote
  <2>3. pc[r] \in AfterListening
    BY DEF Download, Copy, AfterListening
  <2>4. StageInv(r)'
    BY <1>0, <1>3, <2>1, <2>2, <2>3 DEF StageInv, Connects, Alive, AfterListening, Starting, Handling
  <2> QED
    BY <1>3, <2>1, <2>4, GoOnStep DEF Starting, ClientInv, TypeOK
<1> QED
  BY <1>1, <1>2, <1>3 DEF Download, Copy

LEMMA OpenVPNStep ==
    ASSUME ClientInv, NEW r \in Runs, StartOpenVPN(r)
    PROVE  ClientInv'
<1>0. StageInv(r) /\ Connects(r) /\ Alive(r) /\ vpn[r] = "none" /\ pc[r] = "openvpn"
  BY DEF ClientInv, StageInv, StartOpenVPN, Alive, Handling
<1>1. CASE Fatal(r, "no openvpn") /\ UNCHANGED temp
  BY <1>0, <1>1, ExitStep DEF Fatal, ClientInv, TypeOK
<1>2. CASE /\ vpn' = [vpn EXCEPT ![r] = "dial"] /\ Goto(r, "notify")
           /\ UNCHANGED <<set, ready, bound, fileVars, sig, peer, signals>>
  <2>1. /\ vpn' \in [Runs -> {"none", "dial", "up", "term", "dead"}] /\ vpn'[r] = "dial"
        /\ \A o \in Runs \ {r} : vpn'[o] = vpn[o]
        /\ pc' = [pc EXCEPT ![r] = "notify"] /\ pc'[r] = "notify" /\ UNCHANGED <<temp, why>>
    BY <1>2 DEF Goto, fileVars, ClientInv, TypeOK
  <2>2. Remote(r)' = Remote(r) /\ peer[r] = Nobody
    BY <1>0, <1>2 DEF Remote, StageInv, ClientInv, TypeOK
  <2>3. StageInv(r)'
    BY <1>0, <1>2, <2>1, <2>2 DEF StageInv, Connects, Alive, AfterListening, Starting, Handling
  <2> QED
    BY <1>2, <2>1, <2>3, GoOnStep DEF Starting, ClientInv, TypeOK
<1> QED
  BY <1>1, <1>2 DEF StartOpenVPN

LEMMA NotifyStep ==
    ASSUME ClientInv, NEW r \in Runs, Notify(r) \/ Wait(r)
    PROVE  ClientInv'
<1> DEFINE label == IF pc[r] = "notify" THEN "wait" ELSE "remove"
<1>0. StageInv(r)
  BY DEF ClientInv
<1>1. /\ pc' = [pc EXCEPT ![r] = label] /\ pc'[r] = label
      /\ pc[r] \in {"notify", "wait"} /\ (pc[r] = "wait" => Connects(r) /\ vpn[r] = "dead")
      /\ UNCHANGED <<set, ready, bound, temp, why, sig, vpn, peer, signals>>
  BY DEF Notify, Wait, WaitReturns, Goto, Connects, fileVars, vpnVars, ClientInv, TypeOK
<1>2. Remote(r)' = Remote(r)
  BY <1>1 DEF Remote
<1>3. \/ pc[r] = "notify" /\ pc'[r] = "wait"
      \/ pc[r] = "wait" /\ pc'[r] = "remove" /\ Connects(r) /\ vpn[r] = "dead"
  BY <1>1
<1>4. UNCHANGED <<set, ready, bound, temp, why, vpn, peer>>
  BY <1>1
<1> HIDE DEF label
<1>5. StageInv(r)'
  BY <1>0, <1>2, <1>3, <1>4 DEF StageInv, Connects, Alive, AfterListening, Starting, Handling
<1>6. label \in Starting \cup Handling
  BY <1>1, <1>3 DEF Handling
<1> QED
  BY <1>1, <1>5, <1>6, GoOnStep DEF Handling, ClientInv, TypeOK

LEMMA LastStep ==
    ASSUME ClientInv, NEW r \in Runs, RemoveFile(r) \/ StopProxy(r)
    PROVE  ClientInv'
<1>0. StageInv(r)
  BY DEF ClientInv
<1>1. Fatal(r, "done") /\ Alive(r)
  BY DEF RemoveFile, StopProxy, Alive
<1>2. vpn[r] \in {"none", "dead"}
  BY <1>0 DEF RemoveFile, StopProxy, StageInv, Connects, ClientInv, TypeOK
<1>3. /\ temp' \in [Runs -> {"none", "part", "full"}] /\ temp'[r] = "none"
      /\ \A o \in Runs \ {r} : temp'[o] = temp[o]
  <2>1. CASE RemoveFile(r)
    BY <2>1 DEF RemoveFile, ClientInv, TypeOK
  <2>2. CASE StopProxy(r)
    <3>1. temp[r] = "none"
      BY <1>0, <2>2 DEF StopProxy, StageInv, Connects, ClientInv, TypeOK
    <3> QED
      BY <2>2, <3>1 DEF StopProxy, ClientInv, TypeOK
  <2> QED
    BY <2>1, <2>2
<1> QED
  BY <1>1, <1>2, <1>3, ExitStep DEF Fatal, ClientInv, TypeOK
\* OpenVPN changes, and nothing else does.
LEMMA VpnStep ==
    ASSUME ClientInv, NEW r \in Runs, NEW state \in {"dial", "up", "term", "dead"},
           NEW other \in Runs \cup {Nobody},
           vpn' = [vpn EXCEPT ![r] = state], peer' = [peer EXCEPT ![r] = other],
           other # Nobody => state \in {"up", "term"},
           vpn[r] \notin {"none", "dead"},
           pc[r] = "gone" /\ state # "dead" => why[r] = "killed",
           Alive(r) /\ Connects(r) /\ Remote(r) = set[r].port => other \in {r, Nobody},
           sig' \in [Runs -> {"none", "queued", "taken"}], signals' \in 0..MaxSignals,
           UNCHANGED <<pc, set, ready, bound, fileVars>>
    PROVE  ClientInv'
<1>1. TypeOK'
  BY DEF ClientInv, TypeOK, fileVars
<1>2. /\ vpn'[r] = state /\ peer'[r] = other /\ UNCHANGED <<pc, set, ready, bound, temp, why>>
      /\ \A o \in Runs \ {r} : vpn'[o] = vpn[o] /\ peer'[o] = peer[o]
  BY DEF ClientInv, TypeOK, fileVars
<1>3. StageInv(r) /\ pc[r] # "remove"
  BY DEF ClientInv, StageInv
<1>4. StageInv(r)'
  <2>1. Remote(r)' = Remote(r)
    BY <1>2 DEF Remote
  <2> QED
    BY <1>2, <1>3, <2>1 DEF StageInv, Connects, Alive
<1> QED
  BY <1>1, <1>2, <1>4, RunStep

LEMMA TunnelStep ==
    ASSUME ClientInv, NEW r \in Runs, OpenVPN(r)
    PROVE  ClientInv'
<1>0. StageInv(r) /\ TypeOK
  BY DEF ClientInv
<1>1. CASE Dial(r)
  <2>1. /\ bound[Remote(r)] # Nobody /\ vpn[r] = "dial"
        /\ vpn' = [vpn EXCEPT ![r] = "up"] /\ peer' = [peer EXCEPT ![r] = bound[Remote(r)]]
    BY <1>1 DEF Dial, IsBridge
  <2>2. ASSUME Alive(r), Connects(r), Remote(r) = set[r].port PROVE bound[Remote(r)] = r
    <3>1. pc[r] \in AfterListening
      BY <1>0, <2>1, <2>2 DEF StageInv, Alive, AfterListening, Handling
    <3> QED
      BY <1>0, <2>2, <3>1 DEF StageInv
  <2>3. pc[r] = "gone" => why[r] = "killed"
    BY <1>0, <2>1 DEF StageInv
  <2>4. bound[Remote(r)] \in Runs
    <3>1. set[r].config \in {Nothing} \cup DOMAIN OvpnPort
      BY <1>0, <2>1, PortTypes DEF StageInv, Connects, TypeOK
    <3>2. Remote(r) \in Ports
      BY <3>1, RemotesArePorts, DefaultsArePorts DEF Remote
    <3> QED
      BY <1>0, <2>1, <3>2 DEF TypeOK
  <2> QED
    BY <1>0, <1>1, <2>1, <2>2, <2>3, <2>4, VpnStep DEF Dial, TypeOK
<1>2. CASE Drop(r)
  <2>1. pc[r] = "gone" => why[r] = "killed"
    BY <1>0, <1>2 DEF StageInv, Drop
  <2> QED
    BY <1>0, <1>2, <2>1, VpnStep DEF Drop, TypeOK
<1>3. CASE Obeys(r) \/ GivesUp(r)
  <2>1. /\ Ends(r) /\ vpn[r] \notin {"none", "dead"}
        /\ vpn' = [vpn EXCEPT ![r] = "dead"] /\ peer' = [peer EXCEPT ![r] = Nobody]
        /\ UNCHANGED <<pc, set, ready, bound, fileVars>>
    BY <1>3 DEF Obeys, GivesUp, Ends
  <2>2. sig' \in [Runs -> {"none", "queued", "taken"}] /\ signals' \in 0..MaxSignals
    BY <1>0, <2>1 DEF Ends, TypeOK
  <2> QED
    BY <2>1, <2>2, VpnStep
<1> QED
  BY <1>1, <1>2, <1>3 DEF OpenVPN

\* SIGTERM reaches the OpenVPN of a run that goes on.
LEMMA ToldStep ==
    ASSUME ClientInv, NEW r \in Runs, Alive(r), vpn' \in {vpn, Told(r)},
           sig' \in [Runs -> {"none", "queued", "taken"}], signals' \in 0..MaxSignals,
           UNCHANGED <<pc, set, ready, bound, fileVars, peer>>
    PROVE  ClientInv'
<1>0. StageInv(r) /\ TypeOK
  BY DEF ClientInv
<1>1. CASE vpn[r] \in {"dial", "up"} /\ vpn' = Told(r)
  <2>1. vpn' = [vpn EXCEPT ![r] = "term"] /\ peer' = [peer EXCEPT ![r] = peer[r]]
    <3>1. vpn' = [vpn EXCEPT ![r] = "term"]
      BY <1>0, <1>1 DEF Told, TypeOK
    <3>2. peer' = [peer EXCEPT ![r] = peer[r]]
      BY <1>0 DEF TypeOK
    <3> QED
      BY <3>1, <3>2
  <2>2. pc[r] # "gone" /\ peer[r] \in Runs \cup {Nobody}
    BY <1>0 DEF Alive, TypeOK
  <2>3. Alive(r) /\ Connects(r) /\ Remote(r) = set[r].port => peer[r] \in {r, Nobody}
    BY <1>0 DEF StageInv
  <2> QED
    BY <1>1, <2>1, <2>2, <2>3, VpnStep
<1>2. CASE ~(vpn[r] \in {"dial", "up"} /\ vpn' = Told(r))
  <2>1. vpn' = vpn
    <3>1. vpn[r] \notin {"dial", "up"} => Told(r) = vpn
      <4>1. vpn[r] \notin {"dial", "up"} => Told(r) = [vpn EXCEPT ![r] = vpn[r]]
        BY DEF Told
      <4>2. vpn = [vpn EXCEPT ![r] = vpn[r]]
        BY <1>0 DEF TypeOK
      <4> QED
        BY <4>1, <4>2
    <3> QED
      BY <1>2, <3>1
  <2>2. TypeOK'
    BY <1>0, <2>1 DEF TypeOK, fileVars
  <2>3. Remote(r)' = Remote(r)
    BY DEF Remote
  <2>4. StageInv(r)'
    BY <1>0, <2>1, <2>3 DEF StageInv, Connects, Alive, fileVars
  <2> QED
    BY <2>1, <2>2, <2>4, RunStep DEF fileVars
<1> QED
  BY <1>1, <1>2
LEMMA SignalStep ==
    ASSUME ClientInv, NEW r \in Runs, Signals(r) \/ TakeSignal(r)
    PROVE  ClientInv'
<1>0. TypeOK /\ StageInv(r)
  BY DEF ClientInv
<1>1. CASE TakeSignal(r)
  <2>1. Alive(r) /\ sig' \in [Runs -> {"none", "queued", "taken"}]
    BY <1>0, <1>1 DEF TakeSignal, Alive, TypeOK
  <2> QED
    BY <1>0, <1>1, <2>1, ToldStep DEF TakeSignal, Forward, TypeOK
<1>2. CASE Signals(r)
  <2>1. signals' \in 0..MaxSignals
    <3>1. signals \in 0..MaxSignals /\ signals < MaxSignals /\ signals' = signals + 1
      BY <1>0, <1>2 DEF Signals, Kill, Interrupt, TypeOK
    <3> QED
      BY <3>1, SignalBound
  <2>2. temp[r] # "none" => Connects(r)
    BY <1>0 DEF StageInv
  <2>3. ASSUME NEW state \in {vpn, Told(r)}, Exit(r, "killed", state), UNCHANGED <<set, temp, sig>>, Alive(r)
        PROVE  ClientInv'
    BY <1>0, <2>1, <2>2, <2>3, ExitStep DEF TypeOK
  <2>4. CASE Kill(r)
    BY <2>3, <2>4 DEF Kill
  <2>5. ASSUME NEW ctrlC \in BOOLEAN, Interrupt(r, ctrlC) PROVE ClientInv'
    <3> DEFINE state == IF ctrlC THEN Told(r) ELSE vpn
    <3>1. state \in {vpn, Told(r)} /\ Alive(r)
      BY <2>5 DEF Interrupt
    <3>2. CASE Exit(r, "killed", state) /\ UNCHANGED <<set, temp, sig>>
      BY <2>3, <3>1, <3>2
    <3>3. CASE /\ sig' = [sig EXCEPT ![r] = IF @ = "none" THEN "queued" ELSE @]
               /\ vpn' = state
               /\ UNCHANGED <<pc, set, ready, bound, fileVars, peer>>
      <4>1. sig' \in [Runs -> {"none", "queued", "taken"}]
        BY <1>0, <3>3 DEF TypeOK
      <4> QED
        BY <2>1, <3>1, <3>3, <4>1, ToldStep
    <3> QED
      BY <2>5, <3>2, <3>3 DEF Interrupt
  <2> QED
    BY <1>2, <2>4, <2>5 DEF Signals
<1> QED
  BY <1>1, <1>2

LEMMA ClientStep == ClientInv /\ [Next]_vars => ClientInv'
<1> SUFFICES ASSUME ClientInv, [Next]_vars PROVE ClientInv'
  OBVIOUS
<1>1. ASSUME NEW r \in Runs, Main(r) PROVE ClientInv'
  BY <1>1, ListenStep, ProceedStep, DownloadStep, OpenVPNStep, NotifyStep, SignalStep, LastStep
     DEF Main
<1>2. CASE UNCHANGED vars
  <2>1. UNCHANGED <<pc, set, ready, bound, temp, why, sig, vpn, peer, signals>>
    BY <1>2 DEF vars, fileVars, vpnVars
  <2>2. TypeOK'
    BY <2>1 DEF ClientInv, TypeOK
  <2>3. ASSUME NEW r \in Runs PROVE StageInv(r)'
    <3>1. StageInv(r) /\ Remote(r)' = Remote(r)
      BY <2>1 DEF ClientInv, Remote
    <3> QED
      BY <2>1, <3>1 DEF StageInv, Connects, Alive
  <2> QED
    BY <2>2, <2>3 DEF ClientInv
<1> QED
  BY <1>1, <1>2, StartStep, SignalStep, TunnelStep, TriedAreCommandLines DEF Next

----------------------------------------------------------------------------
(* What a run that has ended leaves to others.                             *)

Ended(r) == pc[r] = "gone" /\ \A n \in Ports : bound[n] # r

PortsAreOfTheLiving ==
    \A r \in Runs : pc[r] \in {"idle", "gone"} => \A n \in Ports : bound[n] # r

\* A step of one run: only its listeners come and go, it gets them while it goes on, and
\* it does not come back.
Mortal(r) ==
    /\ \A o \in Runs \ {r} : pc'[o] = pc[o] /\ \A n \in Ports : bound'[n] = o => bound[n] = o
    /\ pc[r] = "gone" => UNCHANGED <<pc, bound>>
    /\ \/ pc'[r] \notin {"idle", "gone"}
       \/ \A n \in Ports : bound'[n] # r
       \/ pc[r] \in {"idle", "gone"} /\ UNCHANGED bound

LEMMA RunsAreMortal ==
    ASSUME TypeOK, NEW r \in Runs,
           \/ \E args \in Tried : Start(r, args)
           \/ Main(r) \/ Signals(r) \/ OpenVPN(r)
    PROVE  Mortal(r)
<1> USE NobodyIsNoRun DEF TypeOK, Mortal, Goto, fileVars, vpnVars
<1>1. ASSUME NEW args \in Tried, Start(r, args) PROVE Mortal(r)
  BY <1>1 DEF Start
<1>2. ASSUME NEW reason, NEW state, Exit(r, reason, state), pc[r] # "gone" PROVE Mortal(r)
  BY <1>2 DEF Exit
<1>3. CASE Listen(r)
  BY <1>3 DEF Listen, Bind
<1>4. ASSUME NEW label, label \notin {"idle", "gone"}, pc' = [pc EXCEPT ![r] = label],
             pc[r] # "gone", UNCHANGED bound
      PROVE  Mortal(r)
  BY <1>4
<1>5. CASE Proceed(r)
  <2>1. AfterListen(r) \notin {"idle", "gone"}
    BY DEF AfterListen
  <2> QED
    BY <1>2, <1>4, <1>5, <2>1 DEF Proceed, Fatal
<1>6. CASE Download(r) \/ Copy(r) \/ StartOpenVPN(r) \/ RemoveFile(r) \/ StopProxy(r)
  BY <1>2, <1>4, <1>6 DEF Download, Copy, StartOpenVPN, RemoveFile, StopProxy, Fatal
<1>7. CASE Notify(r) \/ Wait(r)
  BY <1>4, <1>7 DEF Notify, Wait
<1>8. CASE TakeSignal(r) \/ OpenVPN(r)
  BY <1>8 DEF TakeSignal, OpenVPN, Dial, Drop, Obeys, GivesUp, Ends
<1>9. CASE Signals(r)
  <2>1. CASE Kill(r)
    BY <1>2, <2>1 DEF Kill, Alive
  <2>2. ASSUME NEW ctrlC \in BOOLEAN, Interrupt(r, ctrlC) PROVE Mortal(r)
    <3>1. CASE \E state : Exit(r, "killed", state)
      BY <1>2, <2>2, <3>1 DEF Interrupt, Alive
    <3>2. CASE UNCHANGED <<pc, bound>>
      BY <3>2
    <3> QED
      BY <2>2, <3>1, <3>2 DEF Interrupt
  <2> QED
    BY <1>9, <2>1, <2>2 DEF Signals
<1> QED
  BY <1>1, <1>3, <1>5, <1>6, <1>7, <1>8, <1>9 DEF Main

LEMMA EndedStep ==
    ASSUME TypeOK, [Next]_vars
    PROVE  /\ PortsAreOfTheLiving => PortsAreOfTheLiving'
           /\ \A r \in Runs : Ended(r) => Ended(r)'
<1> USE DEF PortsAreOfTheLiving, Ended
<1>1. ASSUME NEW r \in Runs, Mortal(r)
      PROVE  /\ PortsAreOfTheLiving => PortsAreOfTheLiving'
             /\ \A o \in Runs : Ended(o) => Ended(o)'
  BY <1>1 DEF Mortal
<1>2. CASE UNCHANGED vars
  BY <1>2 DEF vars
<1> QED
  BY <1>1, <1>2, RunsAreMortal DEF Next

----------------------------------------------------------------------------
(* The theorems.                                                           *)

LEMMA ClientAlways == Spec => []ClientInv
BY ClientInit, ClientStep, PTL DEF Spec

(* The OpenVPN of a connect goes through the listener of its own run,      *)
(* whatever other runs do on the machine.                                  *)
THEOREM OwnTunnelAlways == Spec => []OwnTunnel
<1>1. ClientInv => OwnTunnel
  BY DEF ClientInv, StageInv, OwnTunnel, Connects
<1> QED
  BY <1>1, ClientAlways, PTL

(* A downloaded configuration stays on disk only after a kill, or when     *)
(* OpenVPN does not start.                                                 *)
THEOREM NoKeyLeftAlways == Spec => []NoKeyLeft
<1>1. ClientInv => NoKeyLeft
  BY DEF ClientInv, StageInv, NoKeyLeft
<1> QED
  BY <1>1, ClientAlways, PTL

(* An OpenVPN outlives its client only after a kill.                       *)
THEOREM NoOrphanAlways == Spec => []NoOrphan
<1>1. ClientInv => NoOrphan
  BY DEF ClientInv, StageInv, NoOrphan
<1> QED
  BY <1>1, ClientAlways, PTL

(* Type correctness.                                                       *)
THEOREM TypeCorrect == Spec => []TypeOK
<1>1. ClientInv => TypeOK
  BY DEF ClientInv
<1> QED
  BY <1>1, ClientAlways, PTL

(* A client that has ended, in whichever way, holds no port and never does *)
(* again, so that the next one can listen there: Finishes says that it     *)
(* comes to that.                                                          *)
THEOREM EndedStays ==
    Spec => /\ [](\A r \in Runs : pc[r] = "gone" => Ended(r))
            /\ [][\A r \in Runs : Ended(r) => Ended(r)']_vars
<1>1. Init => PortsAreOfTheLiving
  <2>1. Init => bound = [n \in Ports |-> Nobody]
    BY DEF Init
  <2> QED
    BY <2>1, NobodyIsNoRun DEF PortsAreOfTheLiving
<1>2. TypeOK /\ [Next]_vars =>
        /\ PortsAreOfTheLiving => PortsAreOfTheLiving'
        /\ [\A r \in Runs : Ended(r) => Ended(r)']_vars
  BY EndedStep
<1>3. PortsAreOfTheLiving => \A r \in Runs : pc[r] = "gone" => Ended(r)
  BY DEF PortsAreOfTheLiving, Ended
<1> QED
  BY <1>1, <1>2, <1>3, TypeCorrect, PTL DEF Spec

(* Wherever its arguments stand, a command line means what it says: a flag *)
(* before or after the URL, its value beside it or behind it, the last of  *)
(* two, and rather than the file's (main.go:541-559, 590-607).             *)
THEOREM OrderIsFreeAlways == Spec => []OrderIsFree
<1>1. OrderIsFree
  BY InterpretsAsMeant, CommandLinesAreTyped DEF OrderIsFree
<1> QED
  BY <1>1, PTL
=============================================================================
