---------------------------- MODULE CommandLine ----------------------------
(***************************************************************************)
(* What the client makes of its arguments: main takes out -f, reorderArgs  *)
(* puts flags before words, the flag package reads them, and cmdConnect    *)
(* and cmdProxy fill in what was not given from the YAML file              *)
(* (client/cmd/otiv-client/main.go).                                       *)
(*                                                                         *)
(* An argument is a record: "-port" has a name and no value, "-port=1"     *)
(* has both, and a word has no name.  An empty string stands for Nothing.  *)
(* Nobody types a flag where the value of another is expected.             *)
(*                                                                         *)
(* A definition named ...Mutant is a plausible mistake in the definition   *)
(* after it; no specification uses it.                                     *)
(***************************************************************************)
EXTENDS Integers, Sequences

CONSTANT Files   \* the YAML files there are, each a function from its keys to values

\* The flags of each subcommand.
Flags == [connect |-> {"port", "config"}, proxy |-> {"port", "http-port"}]

Nothing == ""

Word(text) == [name |-> Nothing, value |-> text]
Flag(name) == [name |-> name, value |-> Nothing]
Given(name, text) == [name |-> name, value |-> text]
IsFlag(a) == a.name # Nothing
IsOpen(a) == IsFlag(a) /\ a.value = Nothing

\* for i := 0; i < len(args); i++
Loop(Step(_, _), start, args) ==
    LET state[n \in 0..Len(args)] ==
          IF n = 0 THEN start ELSE Step(state[n - 1], args[n])
    IN  state[Len(args)]

\* main: the file that -f names, and the arguments without it.
Take(acc, a) ==
    CASE acc.open -> [acc EXCEPT !.open = FALSE, !.file = a.value]
      [] ~acc.open /\ a = Flag("f") -> [acc EXCEPT !.open = TRUE]
      [] ~acc.open /\ a.name = "f" /\ a.value # Nothing -> [acc EXCEPT !.file = a.value]
      [] OTHER -> [acc EXCEPT !.rest = Append(@, a)]
TakeFile(args) == Loop(Take, [file |-> Nothing, rest |-> <<>>, open |-> FALSE], args)

\* A word after a flag that has no value yet is that flag's value.
SortMutant(acc, a) ==
    IF IsFlag(a) THEN [acc EXCEPT !.flags = Append(@, a)] ELSE [acc EXCEPT !.words = Append(@, a)]
Sort(acc, a) ==
    IF IsFlag(a) \/ acc.open
      THEN [acc EXCEPT !.flags = Append(@, a), !.open = IsOpen(a)]
      ELSE [acc EXCEPT !.words = Append(@, a)]
Sorted(args) == Loop(Sort, [flags |-> <<>>, words |-> <<>>, open |-> FALSE], args)
Reorder(args) == Sorted(args).flags \o Sorted(args).words

\* fs.Parse: flags up to the first word.
Read(acc, a) ==
    CASE acc.open # Nothing -> [acc EXCEPT !.given[acc.open] = a.value, !.open = Nothing]
      [] acc.open = Nothing /\ (~IsFlag(a) \/ acc.words # <<>>) ->
           [acc EXCEPT !.words = Append(@, a)]
      [] OTHER ->
           IF a.name \notin DOMAIN acc.given THEN [acc EXCEPT !.wrong = TRUE]
           ELSE IF IsOpen(a) THEN [acc EXCEPT !.open = a.name]
           ELSE [acc EXCEPT !.given[a.name] = a.value]
Parse(args, flags) ==
    Loop(Read, [given |-> [f \in flags |-> Nothing], words |-> <<>>, open |-> Nothing, wrong |-> FALSE], args)

\* A flag comes before the file, and the file before the default.
FirstOf(given, fromFile, default) ==
    IF given # Nothing THEN given ELSE IF fromFile # Nothing THEN fromFile ELSE default

Usage == [cmd |-> "usage"]

\* What cmdConnect and cmdProxy make of a URL and the values of flags.
Chosen(cmd, url, given, file) ==
    [cmd |-> cmd,
     url |-> FirstOf(url, file.url, Nothing),
     port |-> FirstOf(given["port"], file.port, "11194"),
     config |-> IF cmd = "connect" THEN FirstOf(given["config"], file.config, Nothing) ELSE Nothing,
     http |-> IF cmd = "proxy" THEN FirstOf(given["http-port"], Nothing, "8080") ELSE "0"]

NoFile == [k \in {"url", "port", "config"} |-> Nothing]

\* The settings that a command line stands for; Usage if the client only prints what is
\* wrong with it.
Interpret(args) ==
    LET taken == TakeFile(args)
        file == IF taken.file = Nothing THEN NoFile ELSE Files[taken.file]
        cmd == taken.rest[1].value
        read == Parse(Reorder(Tail(taken.rest)), Flags[cmd])
        url == IF read.words = <<>> THEN Nothing ELSE read.words[1].value
    IN  IF taken.file # Nothing /\ taken.file \notin DOMAIN Files THEN Usage
        ELSE IF taken.rest = <<>> \/ IsFlag(taken.rest[1]) \/ cmd \notin DOMAIN Flags THEN Usage
        ELSE IF read.wrong \/ read.open # Nothing \/ FirstOf(url, file.url, Nothing) = Nothing THEN Usage
        ELSE Chosen(cmd, url, read.given, file)

----------------------------------------------------------------------------
(* What a command line means, said without passes over it.                 *)

Argument == [name : STRING, value : STRING]

\* Every flag has a value, its own or the word after it.
Sensible(args) ==
    /\ args \in Seq(Argument)
    /\ \A k \in DOMAIN args :
         /\ ~IsFlag(args[k]) => args[k].value # Nothing
         /\ IsOpen(args[k]) => k + 1 \in DOMAIN args /\ ~IsFlag(args[k + 1])

Value(args, k) == IF IsOpen(args[k]) THEN args[k + 1].value ELSE args[k].value
IsValue(args, k) == k > 1 /\ IsOpen(args[k - 1])

\* The value of a flag, wherever it stands: the last one, if it is given twice.
ValueOf(args, name) ==
    LET uses == {k \in DOMAIN args : args[k].name = name}
    IN  IF uses = {} THEN Nothing ELSE Value(args, CHOOSE k \in uses : \A l \in uses : l <= k)

\* The words that are nobody's value: the subcommand, the URL, and others.
Words(args) == {k \in DOMAIN args : ~IsFlag(args[k]) /\ ~IsValue(args, k)}
FirstIn(words) == CHOOSE k \in words : \A l \in words : k <= l

Meant(args) ==
    LET file == ValueOf(args, "f")
        values == IF file = Nothing THEN NoFile ELSE Files[file]
        first == FirstIn(Words(args))
        cmd == args[first].value
        rest == Words(args) \ {first}
        url == IF rest = {} THEN Nothing ELSE args[FirstIn(rest)].value
        settings == Chosen(cmd, url, [name \in Flags[cmd] |-> ValueOf(args, name)], values)
        known(k) == ~IsFlag(args[k]) \/ args[k].name = "f" \/ args[k].name \in Flags[cmd]
    IN  IF /\ file = Nothing \/ file \in DOMAIN Files
           /\ Words(args) # {} /\ cmd \in DOMAIN Flags
           /\ \A k \in 1..first : ~IsFlag(args[k]) \/ args[k].name = "f"
           /\ \A k \in DOMAIN args : known(k)
           /\ settings.url # Nothing
          THEN settings ELSE Usage
=============================================================================
