-------------------------- MODULE HostnamesProofs --------------------------
(***************************************************************************)
(* Theorems about Hostnames for any clients, addresses and texts.          *)
(*                                                                         *)
(* No step about a sequence's length is given a function whose domain does *)
(* not begin at 1: the SMT backend takes every value to have a length.     *)
(***************************************************************************)
EXTENDS Hostnames, SequenceTheorems, WellFoundedInduction, TLAPS

----------------------------------------------------------------------------
(* Types.                                                                  *)

\* What the operation under way is made of.
LEMMA OperationType ==
    ASSUME TypeOK, op # NoOp
    PROVE  /\ op.kind \in {"poll", "set"}
           /\ op.list \in Lists
           /\ op.kind = "set" => op.cn \in Clients
           /\ op.kind = "poll" => op.fresh \in BOOLEAN
           /\ \A step \in {"truncate", "write", "save"} :
                [op EXCEPT !.step = step] \in Operation
           /\ op.kind = "poll" => [op EXCEPT !.step = "answer"] \in Operation
BY DEF TypeOK, Operation

LEMMA ReportedType ==
    ASSUME TypeOK, NEW part \in SUBSET Connected
    PROVE  part \in SUBSET Clients /\ Reported(part) \in Lists
<1>1. part \in SUBSET Clients /\ \A c \in part : address[c] \in Addresses \cup {NoAddress}
  BY DEF TypeOK, Connected
<1>2. Reported(part) \in [part -> Addresses \cup {NoAddress}]
  BY <1>1 DEF Reported
<1> QED
  BY <1>1, <1>2 DEF Lists

LEMMA EntriesType ==
    ASSUME TypeOK, NEW list \in Lists
    PROVE  Entries(list) \subseteq Addresses \X {Sanitize(name) : name \in Names}
<1>1. PICK part \in SUBSET Clients : list \in [part -> Addresses \cup {NoAddress}]
  BY DEF Lists
<1>2. ASSUME NEW c \in DOMAIN list, hostnames[c] # NoName, list[c] # NoAddress
      PROVE  list[c] \in Addresses /\ hostnames[c] \in Names
  BY <1>1, <1>2 DEF TypeOK, Table
<1> QED
  BY <1>2 DEF Entries, Safe

LEMMA PromisedType ==
    ASSUME TypeOK, op # NoOp, NEW ok \in BOOLEAN
    PROVE  Promised(ok) \in Table
<1>1. ASSUME NEW c \in Clients
      PROVE  told[c] \in Names \cup {NoName} /\ hostnames[c] \in Names \cup {NoName}
  BY DEF TypeOK, Table
<1>2. told \in Table
  BY DEF TypeOK
<1> QED
  BY <1>1, <1>2, OperationType DEF Promised, Table

LEMMA TypeInit == Init => TypeOK
BY DEF Init, TypeOK, Table, Operation

LEMMA TypeStep == TypeOK /\ [Next]_vars => TypeOK'
<1> SUFFICES ASSUME TypeOK, [Next]_vars
             PROVE  TypeOK'
  OBVIOUS
<1>1. ASSUME NEW part \in SUBSET Connected, GetInstanceClients(part)
      PROVE  TypeOK'
  <2>1. PICK name \in [Newcomers(part) -> FreeNames] :
          hostnames' = [c \in Clients |-> IF c \in Newcomers(part) THEN name[c] ELSE hostnames[c]]
    BY <1>1 DEF GetInstanceClients
  <2>2. FreeNames \subseteq Names
    BY DEF FreeNames, Names
  <2>3. hostnames' \in Table
    BY <2>1, <2>2 DEF TypeOK, Table
  <2>4. op' \in Operation
    BY <1>1, ReportedType DEF GetInstanceClients, PollStep, Operation
  <2> QED
    BY <1>1, <2>3, <2>4 DEF GetInstanceClients, TypeOK
<1>2. ASSUME NEW part \in SUBSET Connected, NEW c \in Clients, NEW raw \in RawNames,
             SetHostname(c, raw, part)
      PROVE  TypeOK'
  <2>1. Sanitize(raw) \in Names
    BY DEF Names
  <2>2. hostnames' \in Table /\ custom' \subseteq Clients
    BY <1>2, <2>1 DEF SetHostname, TypeOK, Table
  <2>3. op' \in Operation
    BY <1>2, ReportedType DEF SetHostname, Operation
  <2> QED
    BY <1>2, <2>2, <2>3 DEF SetHostname, TypeOK
<1>3. ASSUME TruncateHosts
      PROVE  TypeOK'
  BY <1>3, OperationType DEF TruncateHosts, Step, TypeOK
<1>4. ASSUME WriteHosts
      PROVE  TypeOK'
  <2>1. op' \in Operation
    BY <1>4, OperationType DEF WriteHosts, Step, Saves
  <2>2. hosts' \subseteq Addresses \X {Sanitize(name) : name \in Names}
    BY <1>4, OperationType, EntriesType DEF WriteHosts
  <2> QED
    BY <1>4, <2>1, <2>2 DEF WriteHosts, TypeOK
<1>5. ASSUME SaveInstances \/ Answer
      PROVE  TypeOK'
  <2>1. CASE SaveInstances
    BY <2>1, PromisedType DEF SaveInstances, TypeOK, Operation
  <2>2. CASE Answer
    BY <2>2 DEF Answer, TypeOK, Operation
  <2> QED
    BY <1>5, <2>1, <2>2
<1>6. ASSUME NEW c \in Clients, ClientChanges(c)
      PROVE  TypeOK'
  BY <1>6 DEF ClientChanges, TypeOK
<1>7. ASSUME Crash \/ Restart
      PROVE  TypeOK'
  BY <1>7 DEF Crash, Restart, TypeOK, Table, Operation
<1>8. ASSUME UNCHANGED vars
      PROVE  TypeOK'
  BY <1>8 DEF vars, TypeOK
<1> QED
  BY <1>1, <1>2, <1>3, <1>4, <1>5, <1>6, <1>7, <1>8, TriedAreRawNames DEF Next, Proceed

\* Every variable keeps its type; in particular, the hosts file only has addresses of
\* the subnet and names that went through sanitizeHostname.
THEOREM TypeCorrect == Spec => []TypeOK
BY TypeInit, TypeStep, PTL DEF Spec

----------------------------------------------------------------------------
(* Names that have been told.                                              *)

\* A promised name is in the file, and in the table unless the operation under way is
\* about to set another one.
Settled ==
    /\ \A c \in Clients : told[c] # NoName => saved[c] = told[c]
    /\ up => \A c \in Clients :
         told[c] # NoName => hostnames[c] = told[c] \/ (op.kind = "set" /\ op.cn = c)
    /\ ~up => op = NoOp

LEMMA SettledStep == TypeOK /\ Settled /\ [Next]_vars => Settled'
<1> SUFFICES ASSUME TypeOK, Settled, [Next]_vars
             PROVE  Settled'
  OBVIOUS
<1>1. ASSUME NEW part \in SUBSET Connected, GetInstanceClients(part)
      PROVE  Settled'
  <2>1. \A c \in Clients : told[c] # NoName => hostnames[c] = told[c]
    BY <1>1 DEF GetInstanceClients, Settled, Idle, NoOp
  <2>2. \A c \in Clients : told[c] # NoName => hostnames'[c] = hostnames[c]
    BY <1>1, <2>1 DEF GetInstanceClients, Newcomers
  <2>3. up' /\ UNCHANGED <<told, saved>>
    BY <1>1 DEF GetInstanceClients, Idle
  <2> QED
    BY <2>1, <2>2, <2>3 DEF Settled
<1>2. ASSUME NEW part \in SUBSET Connected, NEW c \in Clients, NEW raw \in RawNames,
             SetHostname(c, raw, part)
      PROVE  Settled'
  <2>1. \A d \in Clients : told[d] # NoName => hostnames[d] = told[d]
    BY <1>2 DEF SetHostname, Settled, Idle, NoOp
  <2>2. \A d \in Clients : d # c => hostnames'[d] = hostnames[d]
    BY <1>2 DEF SetHostname, TypeOK, Table
  <2>3. up' /\ UNCHANGED <<told, saved>> /\ op'.kind = "set" /\ op'.cn = c
    BY <1>2 DEF SetHostname, Idle
  <2> QED
    BY <2>1, <2>2, <2>3 DEF Settled
<1>3. ASSUME TruncateHosts \/ WriteHosts
      PROVE  Settled'
  <2>1. op # NoOp /\ op'.kind = op.kind /\ (op.kind = "set" => op'.cn = op.cn)
    BY <1>3 DEF TruncateHosts, WriteHosts, Step, TypeOK, Operation
  <2>2. UNCHANGED <<up, hostnames, saved, told>>
    BY <1>3 DEF TruncateHosts, WriteHosts
  <2> QED
    BY <2>1, <2>2 DEF Settled
<1>4. ASSUME SaveInstances
      PROVE  Settled'
  <2>1. PICK ok \in BOOLEAN :
          saved' = (IF ok THEN hostnames ELSE saved) /\ told' = Promised(ok)
    BY <1>4 DEF SaveInstances
  <2>2. op # NoOp /\ up /\ up' /\ hostnames' = hostnames
    BY <1>4 DEF SaveInstances, Settled
  <2>3. ASSUME NEW c \in Clients, told'[c] # NoName
        PROVE  saved'[c] = told'[c] /\ hostnames[c] = told'[c]
    <3>1. CASE op.kind = "set"
      <4>1. told' = [told EXCEPT ![op.cn] = IF ok THEN hostnames[op.cn] ELSE NoName]
        BY <2>1, <3>1 DEF Promised, ReportsDone
      <4>2. told \in [Clients -> Names \cup {NoName}] /\ op.cn \in Clients
        BY <2>2, <3>1, OperationType DEF TypeOK, Table
      <4>3. CASE c = op.cn
        BY <2>1, <2>3, <4>1, <4>2, <4>3
      <4>4. CASE c # op.cn
        <5>1. told'[c] = told[c]
          BY <4>1, <4>2, <4>4
        <5>2. saved[c] = told[c] /\ hostnames[c] = told[c]
          BY <2>2, <2>3, <4>4, <5>1 DEF Settled
        <5> QED
          BY <2>1, <5>1, <5>2
      <4> QED
        BY <4>3, <4>4
    <3>2. CASE op.kind # "set"
      <4>1. told'[c] = IF ok /\ c \in DOMAIN op.list THEN hostnames[c] ELSE told[c]
        BY <2>1, <3>2 DEF Promised
      <4>2. told[c] # NoName => saved[c] = told[c] /\ hostnames[c] = told[c]
        BY <2>2, <3>2 DEF Settled
      <4> QED
        BY <2>1, <2>3, <4>1, <4>2
    <3> QED
      BY <3>1, <3>2
  <2> QED
    BY <2>2, <2>3 DEF Settled
<1>5. ASSUME Answer
      PROVE  Settled'
  <2>1. op.kind = "poll" /\ up
    BY <1>5, OperationType DEF Answer, Settled, TypeOK, Operation
  <2> QED
    BY <1>5, <2>1 DEF Answer, Settled
<1>6. ASSUME Crash \/ Restart
      PROVE  Settled'
  BY <1>6 DEF Crash, Restart, Settled
<1>7. ASSUME UNCHANGED vars \/ \E c \in Clients : ClientChanges(c)
      PROVE  Settled'
  BY <1>7 DEF ClientChanges, vars, Settled
<1> QED
  BY <1>1, <1>2, <1>3, <1>4, <1>5, <1>6, <1>7, TriedAreRawNames DEF Next, Proceed

\* A name that was promised to a client is its name from then on, wherever the process
\* ends and whatever fails to be saved, until a user sets another one.
THEOREM NamesKeptAlways == Spec => []NamesKept
<1>1. Init => TypeOK /\ Settled
  <2>1. Init => Settled
    BY DEF Init, Settled
  <2> QED
    BY <2>1, TypeInit
<1>2. TypeOK /\ Settled /\ [Next]_vars => (TypeOK /\ Settled)'
  BY TypeStep, SettledStep
<1>3. TypeOK /\ Settled => NamesKept
  BY DEF Settled, NamesKept, Idle, NoOp
<1> QED
  BY <1>1, <1>2, <1>3, PTL DEF Spec

----------------------------------------------------------------------------
(* Names that nobody has set.                                              *)

Distinct(table) ==
    \A c, d \in Clients :
        table[c] # NoName /\ table[c] = table[d] =>
            c = d \/ c \in custom \/ d \in custom \/ table[c] \in Fallbacks

LEMMA DistinctStep ==
    /\ TypeOK /\ Distinct(hostnames) /\ Distinct(saved) /\ [Next]_vars
    => Distinct(hostnames)' /\ Distinct(saved)'
<1> SUFFICES ASSUME TypeOK, Distinct(hostnames), Distinct(saved), [Next]_vars
             PROVE  Distinct(hostnames)' /\ Distinct(saved)'
  OBVIOUS
<1>1. ASSUME NEW part \in SUBSET Connected, GetInstanceClients(part)
      PROVE  Distinct(hostnames)' /\ Distinct(saved)'
  <2>1. PICK name \in [Newcomers(part) -> FreeNames] :
          /\ \A c, d \in Newcomers(part) : name[c] = name[d] => c = d \/ name[c] \in Fallbacks
          /\ hostnames' = [c \in Clients |->
                             IF c \in Newcomers(part) THEN name[c] ELSE hostnames[c]]
    BY <1>1 DEF GetInstanceClients
  <2>2. \A c \in Newcomers(part), d \in Clients :
          name[c] = hostnames[d] => name[c] \in Fallbacks
    BY <2>1 DEF FreeNames, Used
  <2> QED
    BY <1>1, <2>1, <2>2 DEF GetInstanceClients, Distinct
<1>2. ASSUME NEW part \in SUBSET Connected, NEW c \in Clients, NEW raw \in RawNames,
             SetHostname(c, raw, part)
      PROVE  Distinct(hostnames)' /\ Distinct(saved)'
  <2>1. \A d \in Clients : d # c => hostnames'[d] = hostnames[d]
    BY <1>2 DEF SetHostname, TypeOK, Table
  <2> QED
    BY <1>2, <2>1 DEF SetHostname, Distinct
<1>3. ASSUME Proceed
      PROVE  Distinct(hostnames)' /\ Distinct(saved)'
  BY <1>3 DEF Proceed, TruncateHosts, WriteHosts, SaveInstances, Answer, Distinct
<1>4. ASSUME Crash \/ Restart \/ UNCHANGED vars \/ \E c \in Clients : ClientChanges(c)
      PROVE  Distinct(hostnames)' /\ Distinct(saved)'
  BY <1>4 DEF Crash, Restart, ClientChanges, vars, Distinct
<1> QED
  BY <1>1, <1>2, <1>3, <1>4, TriedAreRawNames DEF Next

\* No two clients have the same name unless a user named one of them, or it
\* is a fallback.
THEOREM AutoNamesDistinctAlways == Spec => []AutoNamesDistinct
<1> DEFINE Inv == TypeOK /\ Distinct(hostnames) /\ Distinct(saved)
<1>1. Init => Inv
  <2>1. Init => Distinct(hostnames) /\ Distinct(saved)
    BY DEF Init, Distinct
  <2> QED
    BY <2>1, TypeInit
<1>2. Inv /\ [Next]_vars => Inv'
  BY TypeStep, DistinctStep
<1>3. Inv => AutoNamesDistinct
  BY DEF Distinct, AutoNamesDistinct
<1> QED
  BY <1>1, <1>2, <1>3, PTL DEF Spec

----------------------------------------------------------------------------
(* Induction on the natural numbers, as a fact about sets.                 *)

LEMMA Smallest ==
    ASSUME NEW T \in SUBSET Nat, T # {}
    PROVE  \E m \in T : \A k \in T : m <= k
<1>1. IsWellFoundedOn(OpToRel(<, Nat), Nat)
  BY NatLessThanWellFounded
<1>2. PICK m \in T : \A k \in T : ~(<<k, m>> \in OpToRel(<, Nat))
  BY <1>1, WFMin
<1>3. \A k \in T : ~(k < m)
  BY <1>2 DEF OpToRel
<1> QED
  BY <1>3

LEMMA Induction ==
    ASSUME NEW T, 0 \in T, \A n \in Nat : n \in T => n + 1 \in T
    PROVE  Nat \subseteq T
<1> SUFFICES ASSUME Nat \ T # {}
             PROVE  FALSE
  OBVIOUS
<1>1. PICK m \in Nat \ T : \A k \in Nat \ T : m <= k
  BY Smallest
<1>2. m - 1 \in Nat /\ ~(m <= m - 1)
  BY <1>1
<1>3. m - 1 \in T
  BY <1>1, <1>2
<1> QED
  BY <1>2, <1>3

LEMMA Largest ==
    ASSUME NEW len \in Nat, NEW T \in SUBSET (1..len), T # {}
    PROVE  \E m \in T : \A k \in T : m >= k
<1> DEFINE R == {n \in Nat : \A k \in T : n >= k}
<1>1. R # {} /\ R \in SUBSET Nat
  <2>1. len \in R
    OBVIOUS
  <2> QED
    BY <2>1
<1>2. PICK m \in R : \A n \in R : m <= n
  BY <1>1, Smallest
<1>3. CASE m \in T
  BY <1>2, <1>3
<1>4. CASE m \notin T
  <2>1. m - 1 \in R
    <3>1. m \in Nat /\ \A k \in T : k \in Nat /\ k >= 1 /\ m >= k /\ m # k
      BY <1>2, <1>4
    <3>2. PICK k \in T : TRUE
      OBVIOUS
    <3>3. m - 1 \in Nat
      BY <3>1, <3>2
    <3>4. \A j \in T : m - 1 >= j
      BY <3>1, <3>3
    <3> QED
      BY <3>3, <3>4
  <2> QED
    BY <1>2, <2>1
<1> QED
  BY <1>3, <1>4

----------------------------------------------------------------------------
(* strings.Map.                                                            *)

\* The function that Mapped defines exists.  Nothing here depends on what Extended is.
LEMMA StepsExist ==
    ASSUME NEW text, NEW len \in Nat
    PROVE  \E result :
             result = [n \in 0..len |-> IF n = 0 THEN <<>> ELSE Extended(result[n - 1], text[n])]
<1> DEFINE Is(f, m) == f = [n \in 0..m |-> IF n = 0 THEN <<>> ELSE Extended(f[n - 1], text[n])]
           T == {m \in Nat : \E f : Is(f, m)}
<1>1. 0 \in T
  <2> DEFINE f == [n \in 0..0 |-> <<>>]
  <2>1. Is(f, 0)
    OBVIOUS
  <2> QED
    BY <2>1
<1>2. ASSUME NEW m \in Nat, m \in T
      PROVE  m + 1 \in T
  <2>1. PICK f : Is(f, m)
    BY <1>2
  <2> DEFINE g == [n \in 0..(m + 1) |->
                     IF n <= m THEN f[n] ELSE Extended(f[m], text[m + 1])]
  <2>2. ASSUME NEW n \in 0..(m + 1)
        PROVE  g[n] = IF n = 0 THEN <<>> ELSE Extended(g[n - 1], text[n])
    <3>1. n # 0 => n - 1 \in 0..(m + 1) /\ n - 1 <= m /\ g[n - 1] = f[n - 1]
      OBVIOUS
    <3>2. CASE n <= m
      <4>1. f[n] = IF n = 0 THEN <<>> ELSE Extended(f[n - 1], text[n])
        BY <2>1, <3>2
      <4> QED
        BY <3>1, <3>2, <4>1
    <3>3. CASE n = m + 1
      BY <3>1, <3>3
    <3> QED
      BY <3>2, <3>3
  <2>3. Is(g, m + 1)
    BY <2>2
  <2>4. \E h : Is(h, m + 1)
    <3> HIDE DEF Is, g
    <3> QED
      BY <2>3
  <2> QED
    BY <2>4
<1>3. len \in T
  BY <1>1, <1>2, Induction
<1> QED
  BY <1>3

LEMMA MappedBySteps ==
    ASSUME NEW S, NEW text \in Seq(S)
    PROVE  \E result :
             /\ result[0] = <<>>
             /\ \A n \in 1..Len(text) : result[n] = Extended(result[n - 1], text[n])
             /\ Mapped(text) = result[Len(text)]
<1> DEFINE len == Len(text)
           Is(f) == f = [n \in 0..len |-> IF n = 0 THEN <<>> ELSE Extended(f[n - 1], text[n])]
           result == CHOOSE f : Is(f)
<1>1. len \in Nat
  BY LenProperties
<1>2. Mapped(text) = result[len]
  BY DEF Mapped
<1> HIDE DEF len
<1>3. Is(result)
  <2>1. \E f : Is(f)
    BY <1>1, StepsExist
  <2> QED
    BY <2>1
<1> HIDE DEF result
<1>4. result[0] = <<>> /\ \A n \in 1..len : result[n] = Extended(result[n - 1], text[n])
  BY <1>1, <1>3
<1> HIDE DEF Is
<1> USE DEF len
<1> QED
  BY <1>2, <1>4

\* The characters of a label.
Clean == {Lower, Hyphen} \cup {Host[1]}

LEMMA Characters ==
    /\ \A char \in {Lower, Upper, Hyphen, Blank, Other} :
         Kept(char) => Lowered(char) \in Clean
    /\ \A char \in Clean : Kept(char) /\ Lowered(char) = char
    /\ Host[1] # Hyphen
BY DEF Clean, Kept, Lowered, Lower, Upper, Hyphen, Blank, Other, Host

\* Only characters of labels are left of a text.
LEMMA MappedIsClean ==
    ASSUME NEW text \in Texts
    PROVE  Mapped(text) \in Seq(Clean)
<1>1. PICK result :
        /\ result[0] = <<>>
        /\ \A n \in 1..Len(text) : result[n] = Extended(result[n - 1], text[n])
        /\ Mapped(text) = result[Len(text)]
  BY MappedBySteps DEF Texts
<1>2. ASSUME NEW before \in Seq(Clean), NEW n \in 1..Len(text)
      PROVE  Extended(before, text[n]) \in Seq(Clean)
  <2>1. text[n] \in {Lower, Upper, Hyphen, Blank, Other}
    BY ElementOfSeq DEF Texts
  <2> QED
    BY <2>1, Characters, AppendProperties DEF Extended
<1> DEFINE T == {n \in Nat : n <= Len(text) => result[n] \in Seq(Clean)}
<1>3. Len(text) \in Nat
  BY LenProperties DEF Texts
<1>4. 0 \in T
  BY <1>1, EmptySeq
<1>5. ASSUME NEW n \in Nat, n \in T
      PROVE  n + 1 \in T
  <2> SUFFICES ASSUME n + 1 <= Len(text)
               PROVE  result[n + 1] \in Seq(Clean)
    OBVIOUS
  <2>1. result[n] \in Seq(Clean) /\ n + 1 \in 1..Len(text)
    BY <1>3, <1>5
  <2>2. result[n + 1] = Extended(result[n], text[n + 1])
    <3>1. n + 1 \in 1..Len(text) /\ (n + 1) - 1 = n
      BY <2>1
    <3> HIDE DEF T
    <3> QED
      BY <1>1, <3>1
  <2> QED
    BY <1>2, <2>1, <2>2
<1> HIDE DEF T
<1>6. Len(text) \in T
  BY <1>3, <1>4, <1>5, Induction
<1> QED
  BY <1>1, <1>3, <1>6 DEF T

LEMMA LongerCut ==
    ASSUME NEW S, NEW s \in Seq(S), NEW n \in Nat, n + 1 <= Len(s)
    PROVE  Append(SubSeq(s, 1, n), s[n + 1]) = SubSeq(s, 1, n + 1)
<1>1. \A i \in 1..(n + 1) : s[i] \in S
  BY ElementOfSeq, LenProperties
<1>2. /\ SubSeq(s, 1, n) \in Seq(S)
      /\ Len(SubSeq(s, 1, n)) = n
      /\ \A i \in 1..n : SubSeq(s, 1, n)[i] = s[i]
  <2>1. \A i \in 1..n : s[i] \in S
    BY <1>1
  <2> QED
    BY <2>1, SubSeqProperties
<1>3. /\ SubSeq(s, 1, n + 1) \in Seq(S)
      /\ Len(SubSeq(s, 1, n + 1)) = n + 1
      /\ \A i \in 1..(n + 1) : SubSeq(s, 1, n + 1)[i] = s[i]
  BY <1>1, SubSeqProperties
<1> DEFINE front == SubSeq(s, 1, n)
           whole == SubSeq(s, 1, n + 1)
<1> HIDE DEF front, whole
<1>4. /\ front \in Seq(S) /\ Len(front) = n /\ \A i \in 1..n : front[i] = s[i]
      /\ whole \in Seq(S) /\ Len(whole) = n + 1 /\ \A i \in 1..(n + 1) : whole[i] = s[i]
  BY <1>2, <1>3 DEF front, whole
<1>5. s[n + 1] \in S
  BY <1>1
<1>6. /\ Append(front, s[n + 1]) \in Seq(S)
      /\ Len(Append(front, s[n + 1])) = n + 1
      /\ \A i \in 1..n : Append(front, s[n + 1])[i] = front[i]
      /\ Append(front, s[n + 1])[n + 1] = s[n + 1]
  BY <1>4, <1>5, AppendProperties
<1>7. Append(front, s[n + 1]) = whole
  BY <1>4, <1>6, SeqEqual
<1> QED
  BY <1>7 DEF front, whole

\* A text of such characters stays what it is.
LEMMA MappedKeeps ==
    ASSUME NEW text \in Seq(Clean)
    PROVE  Mapped(text) = text
<1>1. PICK result :
        /\ result[0] = <<>>
        /\ \A n \in 1..Len(text) : result[n] = Extended(result[n - 1], text[n])
        /\ Mapped(text) = result[Len(text)]
  BY MappedBySteps
<1> DEFINE T == {n \in Nat : n <= Len(text) => result[n] = SubSeq(text, 1, n)}
<1>2. Len(text) \in Nat
  BY LenProperties
<1>3. 0 \in T
  <2>1. SubSeq(text, 1, 0) = <<>>
    BY SubSeqEmpty
  <2> QED
    BY <1>1, <2>1
<1>4. ASSUME NEW n \in Nat, n \in T
      PROVE  n + 1 \in T
  <2> SUFFICES ASSUME n + 1 <= Len(text)
               PROVE  result[n + 1] = SubSeq(text, 1, n + 1)
    OBVIOUS
  <2>1. result[n] = SubSeq(text, 1, n) /\ n + 1 \in 1..Len(text)
    BY <1>2, <1>4
  <2>2. result[n + 1] = Extended(result[n], text[n + 1])
    <3>1. n + 1 \in 1..Len(text) /\ (n + 1) - 1 = n
      BY <2>1
    <3> HIDE DEF T
    <3> QED
      BY <1>1, <3>1
  <2>3. text[n + 1] \in Clean
    BY <2>1, ElementOfSeq
  <2>4. result[n + 1] = Append(SubSeq(text, 1, n), text[n + 1])
    BY <2>1, <2>2, <2>3, Characters DEF Extended
  <2>5. Append(SubSeq(text, 1, n), text[n + 1]) = SubSeq(text, 1, n + 1)
    BY <1>2, <2>1, LongerCut
  <2> QED
    BY <2>4, <2>5
<1> HIDE DEF T
<1>5. Len(text) \in T
  BY <1>2, <1>3, <1>4, Induction
<1> QED
  BY <1>1, <1>2, <1>5, SubSeqFull DEF T

----------------------------------------------------------------------------
(* strings.Trim, the cut, and both passes.                                 *)

\* What is left by strings.Trim begins and ends with something else than a hyphen.
LEMMA TrimmedEnds ==
    ASSUME NEW text \in Seq(Clean)
    PROVE  \/ Trimmed(text) = <<>> /\ \A k \in 1..Len(text) : text[k] = Hyphen
           \/ \E i, j \in 1..Len(text) :
                /\ i <= j
                /\ text[i] # Hyphen /\ text[j] # Hyphen
                /\ \A k \in 1..Len(text) : text[k] # Hyphen => i <= k /\ k <= j
                /\ Trimmed(text) = SubSeq(text, i, j)
<1> DEFINE solid == {k \in DOMAIN text : text[k] # Hyphen}
           i == CHOOSE k \in solid : \A l \in solid : k <= l
           j == CHOOSE k \in solid : \A l \in solid : k >= l
<1>1. Len(text) \in Nat /\ DOMAIN text = 1..Len(text)
  BY LenProperties
<1>2. solid \in SUBSET (1..Len(text)) /\ solid \in SUBSET Nat
  BY <1>1
<1>3. Trimmed(text) = IF solid = {} THEN <<>> ELSE SubSeq(text, i, j)
  BY DEF Trimmed
<1>4. CASE solid = {}
  BY <1>1, <1>3, <1>4
<1>5. CASE solid # {}
  <2> HIDE DEF solid
  <2>1. \E k \in solid : \A l \in solid : k <= l
    BY <1>2, <1>5, Smallest
  <2>2. \E k \in solid : \A l \in solid : k >= l
    BY <1>1, <1>2, <1>5, Largest
  <2>3. i \in solid /\ \A l \in solid : i <= l
    BY <2>1
  <2>4. j \in solid /\ \A l \in solid : j >= l
    BY <2>2
  <2> HIDE DEF i, j
  <2>5. i \in 1..Len(text) /\ j \in 1..Len(text) /\ i <= j
    BY <1>2, <2>3, <2>4
  <2>6. text[i] # Hyphen /\ text[j] # Hyphen
    BY <2>3, <2>4 DEF solid
  <2>7. Trimmed(text) = SubSeq(text, i, j)
    BY <1>3, <1>5
  <2>8. \A k \in 1..Len(text) : text[k] # Hyphen => i <= k /\ k <= j
    <3>1. \A k \in 1..Len(text) : text[k] # Hyphen => k \in solid
      BY <1>1 DEF solid
    <3>2. solid \subseteq Int /\ i \in Int /\ j \in Int
      BY <1>2, <2>3, <2>4
    <3> QED
      BY <2>3, <2>4, <3>1, <3>2
  <2> QED
    BY <2>5, <2>6, <2>7, <2>8
<1> QED
  BY <1>4, <1>5

\* A part of a text.
LEMMA Part ==
    ASSUME NEW text \in Seq(Clean), NEW i \in 1..Len(text), NEW j \in 1..Len(text), i <= j
    PROVE  /\ SubSeq(text, i, j) \in Seq(Clean)
           /\ Len(SubSeq(text, i, j)) = j - i + 1
           /\ Len(SubSeq(text, i, j)) \in 1..Len(text)
           /\ SubSeq(text, i, j)[1] = text[i]
           /\ SubSeq(text, i, j)[Len(SubSeq(text, i, j))] = text[j]
<1>1. Len(text) \in Nat /\ i \in Int /\ j \in Int
  BY LenProperties
<1>2. \A k \in i..j : text[k] \in Clean
  BY <1>1, ElementOfSeq
<1> DEFINE part == SubSeq(text, i, j)
<1>3. /\ part \in Seq(Clean)
      /\ Len(part) = IF i <= j THEN j - i + 1 ELSE 0
      /\ \A k \in 1..(j - i + 1) : part[k] = text[i + k - 1]
  BY <1>1, <1>2, SubSeqProperties
<1> HIDE DEF part
<1>4. Len(part) = j - i + 1 /\ j - i + 1 \in 1..Len(text)
  BY <1>1, <1>3
<1>5. 1 \in 1..(j - i + 1) /\ i + 1 - 1 = i /\ i + (j - i + 1) - 1 = j
  BY <1>1
<1>6. part[1] = text[i] /\ part[j - i + 1] = text[j]
  BY <1>3, <1>4, <1>5
<1>7. part \in Seq(Clean) /\ Len(part) = j - i + 1 /\ Len(part) \in 1..Len(text)
      /\ part[1] = text[i] /\ part[Len(part)] = text[j]
  BY <1>3, <1>4, <1>6
<1> QED
  BY <1>7 DEF part

\* What one pass makes of any text: a label, but for a hyphen at its end.
Begun(text) ==
    /\ text \in Seq(Clean)
    /\ Len(text) \in 1..MaxLabel
    /\ text[1] # Hyphen

LEMMA HostIsLabel == Begun(Host) /\ IsLabel(Host)
<1>1. Len(Host) = 1 /\ DOMAIN Host = {1}
  BY DEF Host
<1>2. Host \in Seq(Clean)
  BY DEF Host, Clean
<1>3. Host[1] # Hyphen
  BY Characters
<1> QED
  BY <1>1, <1>2, <1>3, MaxLabelPositive DEF Begun, IsLabel

\* Nothing is left of hyphens alone.
LEMMA AllHyphens ==
    ASSUME NEW kept \in Seq(Clean), \A k \in 1..Len(kept) : kept[k] = Hyphen
    PROVE  Cut(Trimmed(kept)) = <<>>
<1>1. Trimmed(kept) = <<>>
  BY TrimmedEnds
<1>2. Len(<<>>) = 0
  BY EmptySeq
<1> QED
  BY <1>1, <1>2, SubSeqEmpty, MaxLabelPositive DEF Cut

\* Otherwise, what is left begins with the first letter or digit i and ends with the
\* last one j, or earlier where it is cut.
End(i, j) == IF j - i + 1 > MaxLabel THEN i + MaxLabel - 1 ELSE j

LEMMA OnePass ==
    ASSUME NEW kept \in Seq(Clean), \E k \in 1..Len(kept) : kept[k] # Hyphen
    PROVE  \E i, j \in 1..Len(kept) :
             /\ i <= j
             /\ kept[i] # Hyphen /\ kept[j] # Hyphen
             /\ \A k \in 1..Len(kept) : kept[k] # Hyphen => i <= k /\ k <= j
             /\ End(i, j) \in i..j
             /\ Cut(Trimmed(kept)) = SubSeq(kept, i, End(i, j))
<1>1. PICK i, j \in 1..Len(kept) :
        /\ i <= j
        /\ kept[i] # Hyphen /\ kept[j] # Hyphen
        /\ \A k \in 1..Len(kept) : kept[k] # Hyphen => i <= k /\ k <= j
        /\ Trimmed(kept) = SubSeq(kept, i, j)
  BY TrimmedEnds
<1>2. Len(kept) \in Nat /\ i \in Int /\ j \in Int
  BY LenProperties
<1>3. End(i, j) \in i..j
  BY <1>1, <1>2, MaxLabelPositive DEF End
<1> DEFINE part == SubSeq(kept, i, j)
           n == IF Len(part) > MaxLabel THEN MaxLabel ELSE Len(part)
<1>4. part \in Seq(Clean) /\ Len(part) = j - i + 1
  BY <1>1, Part
<1>5. Cut(part) = SubSeq(part, 1, n)
  BY DEF Cut
<1>6. n \in 1..(j - i + 1) /\ 1 \in 1..(j - i + 1) /\ i + 1 - 1 = i /\ i + n - 1 = End(i, j)
  <2> HIDE DEF part
  <2> QED
    BY <1>1, <1>2, <1>4, MaxLabelPositive DEF End
<1> HIDE DEF n
<1>7. SubSeq(part, 1, n) = SubSeq(kept, i + 1 - 1, i + n - 1)
  BY <1>6, SubSeqOfSubSeq
<1>8. Cut(Trimmed(kept)) = SubSeq(kept, i, End(i, j))
  BY <1>1, <1>5, <1>6, <1>7
<1> QED
  BY <1>1, <1>3, <1>8

LEMMA CutBegins ==
    ASSUME NEW kept \in Seq(Clean), NEW i \in 1..Len(kept), NEW j \in 1..Len(kept),
           i <= j, kept[i] # Hyphen, End(i, j) \in i..j
    PROVE  Begun(SubSeq(kept, i, End(i, j)))
<1>1. Len(kept) \in Nat /\ i \in Int /\ j \in Int
  BY LenProperties
<1>2. End(i, j) \in 1..Len(kept) /\ i <= End(i, j) /\ End(i, j) - i + 1 \in 1..MaxLabel
  BY <1>1, MaxLabelPositive DEF End
<1>3. /\ SubSeq(kept, i, End(i, j)) \in Seq(Clean)
      /\ Len(SubSeq(kept, i, End(i, j))) = End(i, j) - i + 1
      /\ SubSeq(kept, i, End(i, j))[1] = kept[i]
  BY <1>2, Part
<1> QED
  BY <1>2, <1>3 DEF Begun

LEMMA FirstPass ==
    ASSUME NEW text \in Texts
    PROVE  Begun(Sanitize(text))
<1> DEFINE kept == Mapped(text)
           cut == Cut(Trimmed(kept))
<1>1. kept \in Seq(Clean)
  BY MappedIsClean
<1>2. Sanitize(text) = IF cut = <<>> THEN Host ELSE cut
  BY DEF Sanitize
<1> HIDE DEF kept
<1>3. CASE \A k \in 1..Len(kept) : kept[k] = Hyphen
  <2>1. cut = <<>>
    BY <1>1, <1>3, AllHyphens
  <2> QED
    BY <1>2, <2>1, HostIsLabel
<1>4. CASE ~\A k \in 1..Len(kept) : kept[k] = Hyphen
  <2>1. PICK i, j \in 1..Len(kept) :
          i <= j /\ kept[i] # Hyphen /\ End(i, j) \in i..j /\ cut = SubSeq(kept, i, End(i, j))
    BY <1>1, <1>4, OnePass
  <2>2. Begun(cut)
    BY <1>1, <2>1, CutBegins
  <2> HIDE DEF cut
  <2> QED
    BY <1>2, <2>2, HostIsLabel
<1> QED
  BY <1>3, <1>4

\* The second pass takes away the hyphens that the cut has left at the end.
LEMMA SecondPass ==
    ASSUME NEW text, Begun(text)
    PROVE  \E n \in 1..Len(text) :
             /\ text[n] # Hyphen
             /\ \A k \in 1..Len(text) : text[k] # Hyphen => k <= n
             /\ Sanitize(text) = SubSeq(text, 1, n)
<1>1. text \in Seq(Clean) /\ Len(text) \in 1..MaxLabel /\ Len(text) \in Nat /\ text[1] # Hyphen
  BY LenProperties DEF Begun
<1>2. 1 \in 1..Len(text)
  BY <1>1
<1>3. Mapped(text) = text
  BY <1>1, MappedKeeps
<1>4. PICK i, j \in 1..Len(text) :
        /\ i <= j
        /\ text[i] # Hyphen /\ text[j] # Hyphen
        /\ \A k \in 1..Len(text) : text[k] # Hyphen => i <= k /\ k <= j
        /\ Cut(Trimmed(text)) = SubSeq(text, i, End(i, j))
  BY <1>1, <1>2, OnePass
<1>5. i = 1 /\ End(i, j) = j
  <2>1. i = 1
    BY <1>1, <1>2, <1>4
  <2>2. ~(j - i + 1 > MaxLabel)
    BY <1>1, <2>1, MaxLabelPositive
  <2> QED
    BY <2>1, <2>2 DEF End
<1>6. Len(SubSeq(text, 1, j)) \in 1..Len(text)
  BY <1>1, <1>4, <1>5, Part
<1>7. SubSeq(text, 1, j) # <<>>
  BY <1>6, EmptySeq
<1>8. Sanitize(text) = SubSeq(text, 1, j)
  BY <1>3, <1>4, <1>5, <1>7 DEF Sanitize
<1> QED
  BY <1>4, <1>8

LEMMA SecondPassLabels ==
    ASSUME NEW text, Begun(text)
    PROVE  IsLabel(Sanitize(text))
<1>1. text \in Seq(Clean) /\ Len(text) \in 1..MaxLabel /\ Len(text) \in Nat /\ text[1] # Hyphen
  BY LenProperties DEF Begun
<1>2. PICK n \in 1..Len(text) : text[n] # Hyphen /\ Sanitize(text) = SubSeq(text, 1, n)
  BY SecondPass
<1>3. 1 \in 1..Len(text) /\ 1 <= n
  BY <1>1
<1> DEFINE label == SubSeq(text, 1, n)
<1>4. /\ label \in Seq(Clean)
      /\ Len(label) \in 1..Len(text)
      /\ label[1] = text[1]
      /\ label[Len(label)] = text[n]
  BY <1>1, <1>3, Part
<1> HIDE DEF label
<1>5. Len(label) \in 1..MaxLabel
  BY <1>1, <1>4, MaxLabelPositive
<1>6. \A k \in DOMAIN label : label[k] \in Clean
  BY <1>4, LenProperties, ElementOfSeq
<1>7. IsLabel(label)
  BY <1>1, <1>2, <1>4, <1>5, <1>6 DEF IsLabel, Clean
<1> QED
  BY <1>2, <1>7 DEF label

\* Both passes together make of any text the longest label that begins with its first
\* letter or digit, or "host" if it has none (manager.go:551-576, 605); TextsBecomeLabels
\* checks this for all texts of up to four characters.
THEOREM LongestLabelKept ==
    ASSUME NEW text \in Texts
    PROVE  LongestLabel(text)
<1> DEFINE kept == Mapped(text)
           safe == Sanitize(Sanitize(text))
           starts == {k \in DOMAIN kept : \A l \in 1..(k - 1) : kept[l] = Hyphen}
           labels == {SubSeq(kept, k, l) : k \in starts, l \in DOMAIN kept}
           candidates == {label \in labels : IsLabel(label)}
<1> SUFFICES IF candidates = {} THEN safe = Host
             ELSE safe \in candidates /\ \A label \in candidates : Len(label) <= Len(safe)
  BY DEF LongestLabel
<1>1. kept \in Seq(Clean)
  BY MappedIsClean
<1>2. Sanitize(text) = IF Cut(Trimmed(kept)) = <<>> THEN Host ELSE Cut(Trimmed(kept))
  BY DEF Sanitize
<1> HIDE DEF kept
<1>3. Len(kept) \in Nat /\ DOMAIN kept = 1..Len(kept)
  BY <1>1, LenProperties
<1>4. /\ \A label \in candidates :
           IsLabel(label) /\ \E k \in starts, l \in DOMAIN kept : label = SubSeq(kept, k, l)
      /\ \A k \in starts, l \in DOMAIN kept :
           IsLabel(SubSeq(kept, k, l)) => SubSeq(kept, k, l) \in candidates
  <2> HIDE DEF starts
  <2>1. \A label \in labels : \E k \in starts, l \in DOMAIN kept : label = SubSeq(kept, k, l)
    OBVIOUS
  <2>2. ASSUME NEW k \in starts, NEW l \in DOMAIN kept
        PROVE  SubSeq(kept, k, l) \in labels
    <3>1. k \in Int /\ l \in Int
      BY <1>3 DEF starts
    <3> QED
      BY <3>1
  <2> HIDE DEF labels
  <2> QED
    BY <2>1, <2>2
<1> HIDE DEF candidates, safe
<1>5. ASSUME NEW k \in starts, NEW l \in DOMAIN kept, IsLabel(SubSeq(kept, k, l))
      PROVE  /\ k \in 1..Len(kept) /\ l \in 1..Len(kept) /\ k <= l
             /\ kept[k] # Hyphen /\ kept[l] # Hyphen
             /\ Len(SubSeq(kept, k, l)) = l - k + 1 /\ l - k + 1 <= MaxLabel
  <2>1. k \in 1..Len(kept) /\ l \in 1..Len(kept)
    BY <1>3
  <2>2. k <= l
    <3>1. CASE l < k
      <4>1. SubSeq(kept, k, l) = <<>>
        BY <2>1, <3>1, SubSeqEmpty
      <4>2. Len(SubSeq(kept, k, l)) = 0
        BY <4>1, EmptySeq
      <4> QED
        BY <1>5, <4>2 DEF IsLabel
    <3> QED
      BY <2>1, <3>1
  <2> DEFINE label == SubSeq(kept, k, l)
  <2>3. Len(label) = l - k + 1 /\ label[1] = kept[k] /\ label[Len(label)] = kept[l]
    BY <1>1, <2>1, <2>2, Part
  <2>4. Len(label) \in 1..MaxLabel /\ label[1] # Hyphen /\ label[Len(label)] # Hyphen
    BY <1>5 DEF IsLabel
  <2> HIDE DEF label
  <2>5. Len(label) <= MaxLabel
    BY <2>4, MaxLabelPositive
  <2> QED
    BY <2>1, <2>2, <2>3, <2>4, <2>5 DEF label
<1>6. CASE \A k \in 1..Len(kept) : kept[k] = Hyphen
  <2>1. candidates = {}
    <3> SUFFICES ASSUME NEW label \in candidates
                 PROVE  FALSE
      OBVIOUS
    <3>1. PICK k \in starts, l \in DOMAIN kept : label = SubSeq(kept, k, l) /\ IsLabel(label)
      BY <1>4
    <3> HIDE DEF starts
    <3>2. k \in 1..Len(kept) /\ kept[k] # Hyphen
      BY <1>5, <3>1
    <3> QED
      BY <1>6, <3>2
  <2>2. Sanitize(text) = Host
    BY <1>1, <1>2, <1>6, AllHyphens
  <2>3. safe = Host
    <3>1. PICK n \in 1..Len(Host) : Sanitize(Host) = SubSeq(Host, 1, n)
      BY HostIsLabel, SecondPass
    <3>2. Len(Host) = 1 /\ Host \in Seq(Clean)
      BY HostIsLabel DEF Begun, Host
    <3>3. n = Len(Host)
      BY <3>1, <3>2
    <3>4. SubSeq(Host, 1, Len(Host)) = Host
      BY <3>2, SubSeqFull
    <3> QED
      BY <2>2, <3>1, <3>3, <3>4 DEF safe
  <2> QED
    BY <2>1, <2>3
<1>7. CASE ~\A k \in 1..Len(kept) : kept[k] = Hyphen
  <2>1. PICK i, j \in 1..Len(kept) :
          /\ i <= j
          /\ kept[i] # Hyphen /\ kept[j] # Hyphen
          /\ \A k \in 1..Len(kept) : kept[k] # Hyphen => i <= k /\ k <= j
          /\ End(i, j) \in i..j
          /\ Cut(Trimmed(kept)) = SubSeq(kept, i, End(i, j))
    BY <1>1, <1>7, OnePass
  <2> DEFINE n == End(i, j)
             cut == SubSeq(kept, i, n)
  <2>2. n \in 1..Len(kept) /\ i <= n /\ i \in Int
    BY <1>3, <2>1
  <2>3. Begun(cut)
    BY <1>1, <2>1, CutBegins
  <2>4. Sanitize(text) = cut
    BY <1>2, <2>1, <2>3, EmptySeq DEF Begun
  <2>5. Len(cut) = n - i + 1 /\ \A k \in 1..(n - i + 1) : cut[k] = kept[i + k - 1]
    <3>1. \A k \in i..n : kept[k] \in Clean
      BY <1>1, <1>3, <2>2, ElementOfSeq
    <3> HIDE DEF n
    <3> QED
      BY <2>2, <3>1, SubSeqProperties
  <2>6. PICK m \in 1..Len(cut) :
          /\ cut[m] # Hyphen
          /\ \A k \in 1..Len(cut) : cut[k] # Hyphen => k <= m
          /\ Sanitize(cut) = SubSeq(cut, 1, m)
    BY <2>3, SecondPass
  <2>7. safe = SubSeq(kept, i, i + m - 1)
    <3>1. 1 \in 1..(n - i + 1) /\ m \in 1..(n - i + 1) /\ i + 1 - 1 = i
      BY <2>2, <2>5, <2>6
    <3>2. SubSeq(cut, 1, m) = SubSeq(kept, i + 1 - 1, i + m - 1)
      <4> HIDE DEF n
      <4> QED
        BY <1>1, <2>2, <3>1, SubSeqOfSubSeq
    <3> QED
      BY <2>4, <2>6, <3>1, <3>2 DEF safe
  <2>8. IsLabel(safe)
    BY <2>3, <2>4, SecondPassLabels DEF safe
  <2>9. i \in starts /\ i + m - 1 \in DOMAIN kept
    <3>1. \A l \in 1..(i - 1) : l \in 1..Len(kept) /\ ~(i <= l)
      BY <1>3, <2>2
    <3>2. i \in starts
      BY <1>3, <2>1, <3>1
    <3> HIDE DEF cut
    <3>3. i + m - 1 \in 1..Len(kept)
      BY <1>3, <2>2, <2>5, <2>6
    <3> QED
      BY <1>3, <3>2, <3>3
  <2>10. safe \in candidates
    <3> HIDE DEF starts
    <3> QED
      BY <1>4, <2>7, <2>8, <2>9
  <2>11. Len(safe) = m
    <3>1. i + m - 1 \in 1..Len(kept) /\ i <= i + m - 1 /\ (i + m - 1) - i + 1 = m
      <4> HIDE DEF cut
      <4> QED
        BY <1>3, <2>2, <2>5, <2>6, <2>9
    <3> QED
      BY <1>1, <2>7, <3>1, Part
  <2>12. ASSUME NEW k \in starts, NEW l \in DOMAIN kept, IsLabel(SubSeq(kept, k, l))
         PROVE  Len(SubSeq(kept, k, l)) <= m
    <3>1. /\ k \in 1..Len(kept) /\ l \in 1..Len(kept) /\ k <= l
          /\ kept[k] # Hyphen /\ kept[l] # Hyphen
          /\ Len(SubSeq(kept, k, l)) = l - k + 1 /\ l - k + 1 <= MaxLabel
      BY <1>5, <2>12
    <3>2. i <= k /\ l <= j
      BY <2>1, <3>1
    <3>3. k = i
      <4>1. ~(i \in 1..(k - 1))
        BY <2>1
      <4> QED
        BY <1>3, <2>2, <3>1, <3>2, <4>1
    <3>4. l <= n
      BY <2>1, <3>1, <3>2, <3>3, MaxLabelPositive DEF End
    <3> HIDE DEF n, cut
    <3>5. l - i + 1 \in 1..(n - i + 1) /\ i + (l - i + 1) - 1 = l
      BY <2>2, <3>1, <3>3, <3>4
    <3>6. cut[l - i + 1] = kept[l]
      BY <2>5, <3>5
    <3>7. l - i + 1 <= m
      BY <2>5, <2>6, <3>1, <3>5, <3>6
    <3> QED
      BY <3>1, <3>3, <3>7
  <2>13. ASSUME NEW label \in candidates
         PROVE  Len(label) <= Len(safe)
    <3> HIDE DEF starts
    <3>1. PICK k \in starts, l \in DOMAIN kept : label = SubSeq(kept, k, l) /\ IsLabel(label)
      BY <1>4
    <3> QED
      BY <2>11, <2>12, <3>1
  <2> QED
    BY <2>10, <2>13
<1> QED
  BY <1>6, <1>7

LEMMA NamesBecomeLabels ==
    ASSUME NEW name \in Names
    PROVE  IsLabel(Sanitize(name))
<1>1. ASSUME NEW raw \in RawNames, name = Sanitize(raw)
      PROVE  Begun(name)
  BY <1>1, FirstPass, RawNamesAreTexts
<1>2. ASSUME name \in Friendly \cup Fallbacks
      PROVE  Begun(name)
  <2>1. name \in Texts /\ IsLabel(name)
    BY <1>2, DrawnNamesAreLabels
  <2>2. Len(name) \in Nat /\ DOMAIN name = 1..Len(name)
    BY <2>1, LenProperties DEF Texts
  <2>3. \A k \in 1..Len(name) : name[k] \in Clean
    BY <2>1, <2>2 DEF IsLabel, Clean
  <2>4. SubSeq(name, 1, Len(name)) \in Seq(Clean)
    BY <2>2, <2>3, SubSeqProperties
  <2>5. name \in Seq(Clean)
    BY <2>1, <2>4, SubSeqFull DEF Texts
  <2> QED
    BY <2>1, <2>5 DEF Begun, IsLabel
<1> QED
  BY <1>1, <1>2, SecondPassLabels DEF Names

\* Whatever users type, and whatever the hosts file was written from, each name that
\* DNS is given is a DNS label: a name that the first pass has cut after a hyphen is
\* made good by the second one in writeDNSHosts.
THEOREM HostsAreLabelsAlways == Spec => []HostsAreLabels
<1>1. TypeOK => HostsAreLabels
  BY NamesBecomeLabels DEF TypeOK, HostsAreLabels
<1> QED
  BY <1>1, TypeCorrect, PTL

\* Any text that a user may set becomes the longest label that it has at its first letter
\* or digit, or "host", when both passes have gone over it.
THEOREM TextsBecomeLabelsAlways == Spec => []TextsBecomeLabels
<1>1. TextsBecomeLabels
  BY LongestLabelKept, RawNamesAreTexts DEF TextsBecomeLabels
<1> QED
  BY <1>1, PTL
=============================================================================
