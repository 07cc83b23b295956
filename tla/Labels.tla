------------------------------- MODULE Labels -------------------------------
(***************************************************************************)
(* What sanitizeHostname (backend/internal/vpn/manager.go) makes of the    *)
(* text that somebody has typed.  A text is a sequence of classes of       *)
(* characters; MaxLabel stands for the 63 bytes of a DNS label.            *)
(***************************************************************************)
EXTENDS Integers, Sequences

CONSTANT MaxLabel

ASSUME MaxLabelPositive == MaxLabel \in Nat \ {0}

Lower == "a"    \* a-z, 0-9
Upper == "A"    \* A-Z
Hyphen == "-"
Blank == "_"    \* space, tab, underscore
Other == "/"    \* everything else, line breaks included
Texts == Seq({Lower, Upper, Hyphen, Blank, Other})

Kept(char) == char # Other
Lowered(char) ==
    CASE char = Upper -> Lower
      [] char = Blank -> Hyphen
      [] OTHER -> char

\* strings.Map, character by character
Extended(result, char) == IF Kept(char) THEN Append(result, Lowered(char)) ELSE result
Mapped(text) ==
    LET result[n \in 0..Len(text)] ==
          IF n = 0 THEN <<>> ELSE Extended(result[n - 1], text[n])
    IN  result[Len(text)]

\* strings.Trim(result, "-")
Trimmed(text) ==
    LET solid == {k \in DOMAIN text : text[k] # Hyphen}
    IN  IF solid = {} THEN <<>>
        ELSE SubSeq(text, CHOOSE k \in solid : \A l \in solid : k <= l,
                          CHOOSE k \in solid : \A l \in solid : k >= l)

Cut(text) == SubSeq(text, 1, IF Len(text) > MaxLabel THEN MaxLabel ELSE Len(text))

\* The name "host"; one character here, whatever MaxLabel is.
Host == <<"h">>

SanitizeMutant(text) ==
    LET label == Trimmed(Cut(Mapped(text))) IN IF label = <<>> THEN Host ELSE label
Sanitize(text) ==
    LET label == Cut(Trimmed(Mapped(text))) IN IF label = <<>> THEN Host ELSE label

\* A DNS label: letters, digits and hyphens, with no hyphen at either end.
IsLabel(text) ==
    /\ Len(text) \in 1..MaxLabel
    /\ \A k \in DOMAIN text : text[k] \in {Lower, Hyphen} \cup {Host[1]}
    /\ text[1] # Hyphen /\ text[Len(text)] # Hyphen

\* What both passes, sanitizeHostname when a name is set and again when it is written,
\* make of a text: the longest label that begins with its first letter or digit.
LongestLabel(text) ==
    LET kept == Mapped(text)
        safe == Sanitize(Sanitize(text))
        starts == {k \in DOMAIN kept : \A l \in 1..(k - 1) : kept[l] = Hyphen}
        labels == {SubSeq(kept, k, l) : k \in starts, l \in DOMAIN kept}
        candidates == {label \in labels : IsLabel(label)}
    IN  IF candidates = {} THEN safe = Host
        ELSE safe \in candidates /\ \A label \in candidates : Len(label) <= Len(safe)
=============================================================================
