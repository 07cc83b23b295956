---------------------------- MODULE BridgeProofs ----------------------------
(***************************************************************************)
(* Theorems about Bridge for any number of chunks and any capacity.        *)
(***************************************************************************)
EXTENDS Bridge, SequenceTheorems, TLAPS

----------------------------------------------------------------------------
(* The path of a direction, from its sender: a wire, the pump of one       *)
(* bridge (with what handleConnect has read ahead), the WebSocket, the     *)
(* pump of the other bridge, a wire.                                       *)

Entry(d) == IF d = "up" THEN "client" ELSE "backend"
Exit(d) == IF d = "up" THEN "backend" ELSE "client"

Held(b, d) == pump[b][d].held
Ahead(d) == IF d = "up" THEN prefix ELSE <<>>

\* What has arrived or will if nothing more is lost, as far as the last wire, as far as
\* the WebSocket, and up to the sender.
Arrived(d) == got[d] \o wire[Far(d)][d]
Passed(d) == Arrived(d) \o Held(Exit(d), d) \o wire["ws"][d]
Entered(d) == Passed(d) \o Held(Entry(d), d) \o Ahead(d) \o wire[Near(d)][d]

\* The chunks 1, 2, 3 and so on.
Counts(s) == \A i \in 1..Len(s) : s[i] = i

\* Nothing that was written to this wire is lost, and more can be written.
Intact(k, d) == ~deaf[k][d] /\ fin[k][d] # "reset"
Open(k, d) == Intact(k, d) /\ ~deaf[k][Reverse(d)]

\* What is lost is lost at the end of a wire to which nothing more is written: so
\* what is before the loss is complete, and nothing after it gets past it.
InOrder(d) ==
    /\ Counts(Arrived(d))
    /\ Open(Far(d), d) => Counts(Passed(d))
    /\ Open(Far(d), d) /\ Open("ws", d) =>
         /\ Counts(Entered(d))
         /\ Intact(Near(d), d) => Len(Entered(d)) = sent[d]

LinkShape ==
    /\ wire \in [Links -> [Directions -> Seq(Nat)]]
    /\ fin \in [Links -> [Directions -> {"none", "fin", "reset"}]]
    /\ deaf \in [Links -> [Directions -> BOOLEAN]]

PumpState ==
    [at : {"off", "read", "write", "fail", "done"}, held : Seq(Nat), last : BOOLEAN]
PumpShape == pump \in [Bridges -> [Directions -> PumpState]]

Shape ==
    /\ LinkShape /\ PumpShape
    /\ phase \in [Bridges -> {"none", "request", "dial", "bridge", "closing", "closed"}]
    /\ prefix \in Seq(Nat)
    /\ errc \in [Bridges -> 0..2]
    /\ sent \in [Directions -> Nat]
    /\ got \in [Directions -> Seq(Nat)]
    /\ ended \in {"none", "more"} \cup Directions

\* Only what was sent is on the path.
Sound(d) ==
    /\ sent[d] <= MaxSend[d]
    /\ got[d] \in Seq(1..sent[d])
    /\ Ahead(d) \in Seq(1..sent[d])
    /\ \A k \in Links : wire[k][d] \in Seq(1..sent[d]) /\ Len(wire[k][d]) <= Capacity
    /\ \A b \in Bridges : Held(b, d) \in Seq(1..sent[d])

\* A pump holds a chunk while it writes; it has not started before the dial.
Pumps(b, d) ==
    /\ IF pump[b][d].at = "write" THEN Len(Held(b, d)) = 1 ELSE Held(b, d) = <<>>
    /\ phase[b] \in {"none", "request", "dial"} => pump[b][d].at = "off"

\* The connection is only being set up once, and the request is read first.
Phases ==
    /\ phase["backend"] # "request"
    /\ phase["client"] \in {"request", "dial"} => phase["backend"] = "none"
    /\ phase["client"] = "request" => prefix = <<>>

PathInv ==
    /\ Shape
    /\ Phases
    /\ \A d \in Directions :
         Sound(d) /\ InOrder(d) /\ \A b \in Bridges : Pumps(b, d)

----------------------------------------------------------------------------
(* One sender ends, and nothing else happens to the connection: the other  *)
(* direction is silent, and each part of the path ends after the one       *)
(* before it, when it has passed on all that it got.                       *)

Closing(b) == phase[b] \in {"closing", "closed"}
Stopped(b, d) == pump[b][d].at \in {"fail", "done"}

Silent(d) ==
    /\ \A k \in Links : wire[k][d] = <<>>
    /\ \A b \in Bridges : pump[b][d].at # "write"
    /\ Ahead(d) = <<>>

\* The receiver has not ended anything, and no connection was cut.
Quiescent(d) ==
    /\ \A k \in Links, e \in Directions : fin[k][e] # "reset"
    /\ ~deaf[Far(d)][d] /\ fin[Far(d)][Reverse(d)] = "none"

\* A pump stops, or reads its last, when what is before it has ended and is empty.
StopsLast(d) ==
    /\ Stopped(Entry(d), d) \/ pump[Entry(d)][d].last =>
         fin[Near(d)][d] = "fin" /\ wire[Near(d)][d] = <<>> /\ Ahead(d) = <<>>
    /\ ~pump[Exit(d)][d].last
    /\ Stopped(Exit(d), d) => fin["ws"][d] = "fin" /\ wire["ws"][d] = <<>>

\* A bridge closes because its pump in this direction has ended; only then does the
\* other one stop.
ClosesAfter(b, d) ==
    /\ errc[b] > 0 \/ Closing(b) => pump[b][d].at = "done"
    /\ Stopped(b, Reverse(d)) => Closing(b)

\* What a bridge has closed.
ClosedBy(d) ==
    LET r == Reverse(d)
    IN  /\ deaf[Near(d)][d] \/ fin[Near(d)][r] # "none" \/ deaf["ws"][r] \/ fin["ws"][d] # "none" =>
             Closing(Entry(d))
        /\ deaf["ws"][d] \/ fin["ws"][r] # "none" \/ deaf[Far(d)][r] \/ fin[Far(d)][d] # "none" =>
             Closing(Exit(d))

Drains(d) ==
    /\ Silent(Reverse(d))
    /\ Quiescent(d)
    /\ StopsLast(d)
    /\ \A b \in Bridges : ClosesAfter(b, d)
    /\ ClosedBy(d)
    /\ Len(Entered(d)) = sent[d]

Orderly(d) == ended \in {"none", d} /\ sent[Reverse(d)] = 0

DrainInv == \A d \in Directions : Orderly(d) => Drains(d)

----------------------------------------------------------------------------
(* The path, for either direction.                                         *)

LEMMA Path ==
    ASSUME NEW d \in Directions
    PROVE  /\ Reverse(d) \in Directions /\ Reverse(d) # d /\ Reverse(Reverse(d)) = d
           /\ Directions = {d, Reverse(d)}
           /\ Links = {Near(d), "ws", Far(d)}
           /\ Near(d) # "ws" /\ Far(d) # "ws" /\ Near(d) # Far(d)
           /\ Near(Reverse(d)) = Far(d) /\ Far(Reverse(d)) = Near(d)
           /\ Bridges = {Entry(d), Exit(d)} /\ Entry(d) # Exit(d)
           /\ Entry(Reverse(d)) = Exit(d) /\ Exit(Reverse(d)) = Entry(d)
           /\ From(Entry(d), d) = Near(d) /\ To(Entry(d), d) = "ws"
           /\ From(Exit(d), d) = "ws" /\ To(Exit(d), d) = Far(d)
  BY DEF Directions, Reverse, Links, Near, Far, Bridges, Entry, Exit, From, To

LEMMA BridgeEnds ==
    ASSUME NEW b \in Bridges, NEW d \in Directions
    PROVE  /\ From(b, d) \in Links /\ To(b, d) \in Links
           /\ First(b) \in Links /\ Second(b) \in Links /\ First(b) # Second(b)
           /\ Inward(b, First(b)) \in Directions /\ Inward(b, Second(b)) \in Directions
           /\ b = Entry(d) => \/ First(b) = "ws" /\ Second(b) = Near(d)
                              \/ First(b) = Near(d) /\ Second(b) = "ws"
           /\ b = Exit(d) => \/ First(b) = "ws" /\ Second(b) = Far(d)
                             \/ First(b) = Far(d) /\ Second(b) = "ws"
           /\ Inward(Entry(d), Near(d)) = d /\ Inward(Entry(d), "ws") = Reverse(d)
           /\ Inward(Exit(d), "ws") = d /\ Inward(Exit(d), Far(d)) = Reverse(d)
  BY DEF Directions, Reverse, Links, Near, Far, Bridges, Entry, Exit, From, To, First, Second, Inward

----------------------------------------------------------------------------
(* Sequences that count.                                                   *)

LEMMA CountsFront ==
    ASSUME NEW s \in Seq(Nat), NEW t \in Seq(Nat), Counts(s \o t)
    PROVE  Counts(s)
  BY ConcatProperties DEF Counts

\* A sequence that is cut goes on counting.
LEMMA CountsCut ==
    ASSUME NEW s \in Seq(Nat), NEW t \in Seq(Nat), NEW n \in 0..Len(t), Counts(s \o t)
    PROVE  Counts(s \o SubSeq(t, 1, n))
<1>1. /\ SubSeq(t, 1, n) \in Seq(Nat) /\ Len(SubSeq(t, 1, n)) = n
      /\ \A i \in 1..n : SubSeq(t, 1, n)[i] = t[i]
  <2>1. \A i \in 1..n : t[i] \in Nat
    BY ElementOfSeq
  <2> QED
    BY <2>1, SubSeqProperties
<1> QED
  BY <1>1, ConcatProperties, LenProperties DEF Counts

LEMMA CountsMore ==
    ASSUME NEW s \in Seq(Nat), Counts(s)
    PROVE  Counts(Append(s, Len(s) + 1))
  BY AppendProperties, LenProperties DEF Counts

\* The head of a sequence moves to the end of the sequence before it.
LEMMA MoveHead ==
    ASSUME NEW S, NEW s \in Seq(S), NEW t \in Seq(S), t # <<>>
    PROVE  /\ Append(s, Head(t)) \o Tail(t) = s \o t
           /\ <<Head(t)>> \o Tail(t) = t
           /\ Len(t) = 1 => t = <<Head(t)>>
<1>1. Head(t) \in S /\ Tail(t) \in Seq(S) /\ Len(Tail(t)) = Len(t) - 1
      /\ (\A i \in 1..Len(Tail(t)) : Tail(t)[i] = t[i + 1]) /\ Head(t) = t[1] /\ Len(t) \in Nat \ {0}
  BY HeadTailProperties, EmptySeq
<1>2. <<Head(t)>> \in Seq(S) /\ Len(<<Head(t)>>) = 1 /\ <<Head(t)>>[1] = Head(t)
  BY <1>1
<1>3. <<Head(t)>> \o Tail(t) = t
  <2>1. Len(<<Head(t)>> \o Tail(t)) = Len(t) /\ <<Head(t)>> \o Tail(t) \in Seq(S)
    BY <1>1, <1>2, ConcatProperties
  <2>2. \A i \in 1..Len(t) : (<<Head(t)>> \o Tail(t))[i] = t[i]
    BY <1>1, <1>2, ConcatProperties
  <2> QED
    BY <2>1, <2>2, SeqEqual
<1>4. Append(s, Head(t)) = s \o <<Head(t)>>
  BY <1>1, AppendIsConcat
<1>5. Append(s, Head(t)) \o Tail(t) = s \o t
  BY <1>1, <1>2, <1>3, <1>4, ConcatAssociative
<1>6. Len(t) = 1 => t = <<Head(t)>>
  BY <1>1, <1>2, SeqEqual
<1> QED
  BY <1>3, <1>5, <1>6

LEMMA CutType ==
    ASSUME NEW S, NEW s \in Seq(S), NEW n \in 0..Len(s)
    PROVE  /\ SubSeq(s, 1, n) \in Seq(S) /\ Len(SubSeq(s, 1, n)) = n
           /\ n = 0 => SubSeq(s, 1, n) = <<>>
           /\ n = Len(s) => SubSeq(s, 1, n) = s
  BY ElementOfSeq, SubSeqProperties, SubSeqEmpty, SubSeqFull, LenProperties

LEMMA WholeCut ==
    ASSUME NEW S, NEW s \in Seq(S)
    PROVE  Len(s) \in 0..Len(s) /\ SubSeq(s, 1, Len(s)) = s
  BY LenProperties, SubSeqFull

----------------------------------------------------------------------------
(* What happens to the wires.                                              *)

\* Some are cut, and nothing more is written to those; none is opened again.
Cut ==
    \A k \in Links, d \in Directions :
        /\ deaf[k][d] => deaf'[k][d]
        /\ fin[k][d] = "reset" => fin'[k][d] = "reset"
        /\ \E n \in 0..Len(wire[k][d]) :
             /\ wire'[k][d] = SubSeq(wire[k][d], 1, n)
             /\ n = Len(wire[k][d]) \/ ~Intact(k, d)'

LEMMA NoCut ==
    ASSUME LinkShape, UNCHANGED linkVars
    PROVE  LinkShape' /\ Cut
<1>1. UNCHANGED <<wire, fin, deaf>>
  BY DEF linkVars
<1>2. ASSUME NEW k \in Links, NEW d \in Directions
      PROVE  \E n \in 0..Len(wire[k][d]) : wire[k][d] = SubSeq(wire[k][d], 1, n) /\ n = Len(wire[k][d])
  <2>1. wire[k][d] \in Seq(Nat) /\ Len(wire[k][d]) \in Nat
    BY LenProperties DEF LinkShape
  <2> QED
    BY <2>1, SubSeqFull
<1> QED
  BY <1>1, <1>2 DEF LinkShape, Cut

LEMMA CloseEndEffect ==
    ASSUME LinkShape, NEW k \in Links, NEW d \in Directions, CloseEnd(k, d)
    PROVE  /\ LinkShape' /\ Cut
           /\ \A j \in Links, e \in Directions :
                /\ deaf'[j][e] <=> deaf[j][e] \/ (j = k /\ e = d)
                /\ wire[k][d] = <<>> => wire'[j][e] = wire[j][e]
                /\ j # k \/ e = d => fin'[j][e] = fin[j][e]
                /\ wire[k][d] = <<>> /\ fin'[j][e] # fin[j][e] => fin[j][e] = "none" /\ fin'[j][e] = "fin"
<1> DEFINE out == Reverse(d)
           reset == wire[k][d] # <<>>
<1>1. out \in Directions /\ out # d /\ Directions = {d, out}
  BY Path
<1>2. deaf' = [deaf EXCEPT ![k][d] = TRUE]
  BY DEF CloseEnd
<1>3. fin' = [fin EXCEPT ![k][out] = IF reset THEN "reset" ELSE IF @ = "none" THEN "fin" ELSE @]
  BY DEF CloseEnd
<1>4. PICK n \in 0..Len(wire[k][out]) :
        /\ reset \/ n = Len(wire[k][out])
        /\ wire' = [wire EXCEPT ![k][d] = <<>>, ![k][out] = SubSeq(@, 1, n)]
  BY DEF CloseEnd
<1>5. \A j \in Links, e \in Directions : wire[j][e] \in Seq(Nat) /\ Len(wire[j][e]) \in Nat
  BY LenProperties DEF LinkShape
<1>6. /\ SubSeq(wire[k][out], 1, n) \in Seq(Nat)
      /\ n = Len(wire[k][out]) => SubSeq(wire[k][out], 1, n) = wire[k][out]
  BY <1>1, <1>5, CutType
<1>7. <<>> \in Seq(Nat)
  BY EmptySeq
<1>8. \A j \in Links, e \in Directions :
        wire'[j][e] = IF j # k THEN wire[j][e]
                      ELSE IF e = d THEN <<>> ELSE SubSeq(wire[k][out], 1, n)
  BY <1>1, <1>4 DEF LinkShape
<1>9. \A j \in Links, e \in Directions : deaf'[j][e] <=> deaf[j][e] \/ (j = k /\ e = d)
  BY <1>2 DEF LinkShape
<1>10. \A j \in Links, e \in Directions :
         fin'[j][e] = IF j # k \/ e = d THEN fin[j][e]
                      ELSE IF reset THEN "reset" ELSE IF fin[j][e] = "none" THEN "fin" ELSE fin[j][e]
  BY <1>1, <1>3 DEF LinkShape
<1>11. LinkShape'
  <2>1. wire' \in [Links -> [Directions -> Seq(Nat)]]
    BY <1>1, <1>4, <1>6, <1>7 DEF LinkShape
  <2>2. fin' \in [Links -> [Directions -> {"none", "fin", "reset"}]]
    BY <1>1, <1>3 DEF LinkShape
  <2>3. deaf' \in [Links -> [Directions -> BOOLEAN]]
    BY <1>2 DEF LinkShape
  <2> QED
    BY <2>1, <2>2, <2>3 DEF LinkShape
<1>12. Cut
  <2> SUFFICES ASSUME NEW j \in Links, NEW e \in Directions
               PROVE  \E m \in 0..Len(wire[j][e]) :
                        /\ wire'[j][e] = SubSeq(wire[j][e], 1, m)
                        /\ m = Len(wire[j][e]) \/ ~Intact(j, e)'
    BY <1>9, <1>10 DEF Cut
  <2>1. CASE j # k
    BY <1>5, <1>8, <2>1, WholeCut
  <2>2. CASE j = k /\ e = d
    <3>1. SubSeq(wire[j][e], 1, 0) = <<>> /\ 0 \in 0..Len(wire[j][e])
      BY <1>5, CutType
    <3> QED
      BY <1>8, <1>9, <2>2, <3>1 DEF Intact
  <2>3. CASE j = k /\ e = out
    BY <1>1, <1>4, <1>8, <1>10, <2>3 DEF Intact
  <2> QED
    BY <1>1, <2>1, <2>2, <2>3
<1>13. ASSUME wire[k][d] = <<>>, NEW j \in Links, NEW e \in Directions
       PROVE  wire'[j][e] = wire[j][e]
  BY <1>1, <1>4, <1>6, <1>8, <1>13
<1>14. ASSUME NEW j \in Links, NEW e \in Directions
       PROVE  /\ j # k \/ e = d => fin'[j][e] = fin[j][e]
              /\ wire[k][d] = <<>> /\ fin'[j][e] # fin[j][e] =>
                   fin[j][e] = "none" /\ fin'[j][e] = "fin"
  BY <1>10
<1> QED
  BY <1>9, <1>11, <1>12, <1>13, <1>14

LEMMA LostOnEffect ==
    ASSUME LinkShape, NEW k \in Links, NEW d \in Directions, LostOn(k, d)
    PROVE  LinkShape' /\ Cut
<1> DEFINE out == Reverse(d)
<1>1. out \in Directions /\ out # d /\ Directions = {d, out}
  BY Path
<1>2. fin' = [fin EXCEPT ![k][out] = "reset"] /\ deaf' = deaf
  BY DEF LostOn
<1>3. PICK n \in 0..Len(wire[k][out]) : wire' = [wire EXCEPT ![k][out] = SubSeq(@, 1, n)]
  BY DEF LostOn
<1>4. \A j \in Links, e \in Directions : wire[j][e] \in Seq(Nat) /\ Len(wire[j][e]) \in Nat
  BY LenProperties DEF LinkShape
<1>5. SubSeq(wire[k][out], 1, n) \in Seq(Nat)
  BY <1>1, <1>4, CutType
<1>6. \A j \in Links, e \in Directions :
        wire'[j][e] = IF j = k /\ e = out THEN SubSeq(wire[k][out], 1, n) ELSE wire[j][e]
  BY <1>1, <1>3 DEF LinkShape
<1>7. \A j \in Links, e \in Directions :
        fin'[j][e] = IF j = k /\ e = out THEN "reset" ELSE fin[j][e]
  BY <1>1, <1>2 DEF LinkShape
<1>8. LinkShape'
  BY <1>1, <1>2, <1>3, <1>5 DEF LinkShape
<1>9. Cut
  <2> SUFFICES ASSUME NEW j \in Links, NEW e \in Directions
               PROVE  \E m \in 0..Len(wire[j][e]) :
                        /\ wire'[j][e] = SubSeq(wire[j][e], 1, m)
                        /\ m = Len(wire[j][e]) \/ ~Intact(j, e)'
    BY <1>2, <1>7 DEF Cut
  <2>1. CASE j = k /\ e = out
    BY <1>6, <1>7, <2>1 DEF Intact
  <2>2. CASE ~(j = k /\ e = out)
    BY <1>4, <1>6, <2>2, WholeCut
  <2> QED
    BY <2>1, <2>2
<1> QED
  BY <1>8, <1>9

LEMMA BreaksEffect ==
    ASSUME LinkShape, Breaks
    PROVE  LinkShape' /\ Cut
<1>1. PICK n \in [Directions -> 0..Capacity] :
        wire' = [wire EXCEPT !["ws"] =
                   [d \in Directions |-> SubSeq(@[d], 1, IF n[d] < Len(@[d]) THEN n[d] ELSE Len(@[d]))]]
  BY DEF Breaks
<1>2. fin' = [fin EXCEPT !["ws"] = [d \in Directions |-> "reset"]] /\ deaf' = deaf
  BY DEF Breaks
<1>3. "ws" \in Links
  BY DEF Links
<1>4. \A k \in Links, d \in Directions : wire[k][d] \in Seq(Nat) /\ Len(wire[k][d]) \in Nat
  BY LenProperties DEF LinkShape
<1> DEFINE m(d) == IF n[d] < Len(wire["ws"][d]) THEN n[d] ELSE Len(wire["ws"][d])
<1>5. \A d \in Directions : m(d) \in 0..Len(wire["ws"][d])
  BY <1>3, <1>4, BoundsAreNatural
<1> HIDE DEF m
<1>6. \A d \in Directions : SubSeq(wire["ws"][d], 1, m(d)) \in Seq(Nat)
  BY <1>3, <1>4, <1>5, CutType
<1>7. wire' = [wire EXCEPT !["ws"] = [d \in Directions |-> SubSeq(wire["ws"][d], 1, m(d))]]
  BY <1>1, <1>3 DEF LinkShape, m
<1>8. LinkShape'
  BY <1>2, <1>3, <1>6, <1>7 DEF LinkShape
<1>9. Cut
  <2> SUFFICES ASSUME NEW k \in Links, NEW d \in Directions
               PROVE  \E l \in 0..Len(wire[k][d]) :
                        /\ wire'[k][d] = SubSeq(wire[k][d], 1, l)
                        /\ l = Len(wire[k][d]) \/ ~Intact(k, d)'
    BY <1>2, <1>3 DEF Cut, LinkShape
  <2>1. CASE k = "ws"
    BY <1>2, <1>5, <1>7, <2>1 DEF Intact, LinkShape
  <2>2. CASE k # "ws"
    <3>1. wire'[k][d] = wire[k][d]
      BY <1>7, <2>2 DEF LinkShape
    <3> QED
      BY <1>4, <3>1, WholeCut
  <2> QED
    BY <2>1, <2>2
<1> QED
  BY <1>8, <1>9

LEMMA HalfCloseEffect ==
    ASSUME LinkShape, NEW d \in Directions, HalfCloses(d)
    PROVE  /\ LinkShape' /\ Cut
           /\ \A k \in Links, e \in Directions :
                fin'[k][e] = IF k = Near(d) /\ e = d THEN "fin" ELSE fin[k][e]
<1>1. fin' = [fin EXCEPT ![Near(d)][d] = "fin"] /\ fin[Near(d)][d] = "none" /\ UNCHANGED <<wire, deaf>>
  BY DEF HalfCloses
<1>2. Near(d) \in Links
  BY Path
<1>3. \A k \in Links, e \in Directions :
        fin'[k][e] = IF k = Near(d) /\ e = d THEN "fin" ELSE fin[k][e]
  BY <1>1, <1>2 DEF LinkShape
<1>4. \A k \in Links, e \in Directions : wire[k][e] \in Seq(Nat)
  BY DEF LinkShape
<1>5. \A k \in Links, e \in Directions : \E n \in 0..Len(wire[k][e]) :
        wire'[k][e] = SubSeq(wire[k][e], 1, n) /\ n = Len(wire[k][e])
  BY <1>1, <1>4, WholeCut
<1>6. LinkShape'
  BY <1>1, <1>2 DEF LinkShape
<1>7. Cut
  BY <1>1, <1>3, <1>5 DEF Cut
<1> QED
  BY <1>3, <1>6, <1>7

\* A chunk is taken from a wire, or put on one.
LEMMA TakeEffect ==
    ASSUME LinkShape, NEW k \in Links, NEW d \in Directions, wire[k][d] # <<>>,
           wire' = [wire EXCEPT ![k][d] = Tail(@)], UNCHANGED <<fin, deaf>>
    PROVE  /\ LinkShape'
           /\ \A j \in Links, e \in Directions :
                wire'[j][e] = IF j = k /\ e = d THEN Tail(wire[k][d]) ELSE wire[j][e]
<1>1. wire[k][d] \in Seq(Nat)
  BY DEF LinkShape
<1>2. Tail(wire[k][d]) \in Seq(Nat)
  BY <1>1, HeadTailProperties
<1> QED
  BY <1>2 DEF LinkShape

LEMMA PutEffect ==
    ASSUME LinkShape, NEW k \in Links, NEW d \in Directions, NEW chunk \in Nat,
           PutOn(k, d, chunk)
    PROVE  /\ LinkShape' /\ UNCHANGED <<fin, deaf>>
           /\ \A j \in Links, e \in Directions :
                wire'[j][e] = IF j = k /\ e = d THEN Append(wire[k][d], chunk) ELSE wire[j][e]
<1>1. wire[k][d] \in Seq(Nat)
  BY DEF LinkShape
<1>2. Append(wire[k][d], chunk) \in Seq(Nat)
  BY <1>1, AppendProperties
<1> QED
  BY <1>2 DEF PutOn, LinkShape

LEMMA SetPumpEffect ==
    ASSUME PumpShape, NEW b \in Bridges, NEW d \in Directions,
           NEW next \in PumpState,
           SetPump(b, d, next)
    PROVE  /\ PumpShape'
           /\ \A c \in Bridges, e \in Directions :
                pump'[c][e] = IF c = b /\ e = d THEN next ELSE pump[c][e]
  BY DEF PumpShape, SetPump

LEMMA PumpingEffect ==
    ASSUME PumpShape, NEW b \in Bridges, Pumping(b)
    PROVE  /\ PumpShape'
           /\ \A c \in Bridges, e \in Directions :
                pump'[c][e] = IF c = b THEN [pump[b][e] EXCEPT !.at = "read"] ELSE pump[c][e]
<1>1. \A q \in PumpState : [q EXCEPT !.at = "read"] \in PumpState
  BY DEF PumpState
<1>2. pump' = [pump EXCEPT ![b] = [e \in Directions |-> [pump[b][e] EXCEPT !.at = "read"]]]
  BY DEF Pumping, PumpShape
<1> QED
  BY <1>1, <1>2 DEF PumpShape

----------------------------------------------------------------------------
(* What each action does, variable by variable, and that types are kept.   *)

LEMMA PumpStates ==
    /\ \A label \in {"off", "read", "write", "fail", "done"} : At(label) \in PumpState
    /\ \A chunk \in Nat, last \in BOOLEAN : Hold(chunk, last) \in PumpState
    /\ \A q \in PumpState : q.held \in Seq(Nat) /\ q.last \in BOOLEAN
  BY DEF At, Hold, PumpState

LEMMA InitShape == Init => Shape
<1> SUFFICES ASSUME Init PROVE Shape
  OBVIOUS
<1>1. <<>> \in Seq(Nat)
  BY EmptySeq
<1>2. LinkShape
  BY <1>1 DEF Init, ForEach, LinkShape
<1>3. PumpShape
  <2>1. [at |-> "off", held |-> <<>>, last |-> FALSE] \in PumpState
    BY <1>1 DEF PumpState
  <2> QED
    BY <2>1 DEF Init, PumpShape
<1>4. phase \in [Bridges -> {"none", "request", "dial", "bridge", "closing", "closed"}]
  BY DEF Init, Bridges
<1> QED
  BY <1>1, <1>2, <1>3, <1>4 DEF Init, Shape

LEMMA ReadPrefixEffect ==
    ASSUME Shape, NEW b \in Bridges, NEW d \in Directions, ReadPrefix(b, d)
    PROVE  /\ Shape' /\ b = "client" /\ d = "up" /\ prefix # <<>> /\ pump[b][d].at = "read"
           /\ prefix' = Tail(prefix)
           /\ \A c \in Bridges, e \in Directions :
                pump'[c][e] = IF c = b /\ e = d THEN Hold(Head(prefix), FALSE) ELSE pump[c][e]
           /\ UNCHANGED <<phase, wire, fin, deaf, errc, sent, got, ended>>
<1>1. b = "client" /\ d = "up" /\ prefix # <<>> /\ prefix \in Seq(Nat)
  BY DEF ReadPrefix, TakesPrefix, Shape
<1>2. Head(prefix) \in Nat /\ Tail(prefix) \in Seq(Nat)
  BY <1>1, HeadTailProperties
<1>3. Hold(Head(prefix), FALSE) \in PumpState
  BY <1>2, PumpStates
<1>4. PumpShape' /\ \A c \in Bridges, e \in Directions :
        pump'[c][e] = IF c = b /\ e = d THEN Hold(Head(prefix), FALSE) ELSE pump[c][e]
  <2> DEFINE next == Hold(Head(prefix), FALSE)
  <2>1. PumpShape /\ SetPump(b, d, next)
    BY DEF ReadPrefix, Shape
  <2>2. next \in PumpState
    BY <1>3
  <2> HIDE DEF next
  <2>3. PumpShape' /\ \A c \in Bridges, e \in Directions :
          pump'[c][e] = IF c = b /\ e = d THEN next ELSE pump[c][e]
    BY <2>1, <2>2, SetPumpEffect
  <2> QED
    BY <2>3 DEF next
<1>5. UNCHANGED <<phase, wire, fin, deaf, errc, sent, got, ended>>
  BY DEF ReadPrefix, linkVars, endVars
<1> QED
  BY <1>1, <1>2, <1>4, <1>5 DEF ReadPrefix, Shape, LinkShape

LEMMA ReadEffect ==
    ASSUME Shape, NEW b \in Bridges, NEW d \in Directions, Read(b, d)
    PROVE  LET k == From(b, d)
           IN  /\ Shape' /\ pump[b][d].at = "read" /\ ~TakesPrefix(b, d)
               /\ ~deaf[k][d] /\ wire[k][d] # <<>>
               /\ \A j \in Links, e \in Directions :
                    wire'[j][e] = IF j = k /\ e = d THEN Tail(wire[k][d]) ELSE wire[j][e]
               /\ \E last \in BOOLEAN :
                    /\ last => k # "ws" /\ Len(wire[k][d]) = 1 /\ fin[k][d] # "none"
                    /\ \A c \in Bridges, e \in Directions :
                         pump'[c][e] = IF c = b /\ e = d THEN Hold(Head(wire[k][d]), last) ELSE pump[c][e]
               /\ UNCHANGED <<phase, prefix, fin, deaf, errc, sent, got, ended>>
<1> DEFINE k == From(b, d)
<1>1. k \in Links
  BY BridgeEnds
<1>2. ~deaf[k][d] /\ wire[k][d] # <<>> /\ wire' = [wire EXCEPT ![k][d] = Tail(@)]
      /\ UNCHANGED <<fin, deaf>>
  BY DEF Read
<1>3. UNCHANGED <<phase, prefix, errc, sent, got, ended>>
  BY DEF Read, mainVars, endVars
<1>4. PICK last \in {FALSE, k # "ws" /\ Len(wire[k][d]) = 1 /\ fin[k][d] # "none"} :
        SetPump(b, d, Hold(Head(wire[k][d]), last))
  BY DEF Read
<1>5. wire[k][d] \in Seq(Nat)
  BY <1>1 DEF Shape, LinkShape
<1>6. Head(wire[k][d]) \in Nat
  BY <1>2, <1>5, HeadTailProperties
<1>7. last \in BOOLEAN /\ (last => k # "ws" /\ Len(wire[k][d]) = 1 /\ fin[k][d] # "none")
  BY <1>4
<1>8. Hold(Head(wire[k][d]), last) \in PumpState
  BY <1>6, <1>7, PumpStates
<1>9. PumpShape' /\ \A c \in Bridges, e \in Directions :
        pump'[c][e] = IF c = b /\ e = d THEN Hold(Head(wire[k][d]), last) ELSE pump[c][e]
  BY <1>4, <1>8, SetPumpEffect DEF Shape
<1>10. LinkShape' /\ \A j \in Links, e \in Directions :
         wire'[j][e] = IF j = k /\ e = d THEN Tail(wire[k][d]) ELSE wire[j][e]
  BY <1>1, <1>2, TakeEffect DEF Shape
<1>11. Shape'
  BY <1>3, <1>9, <1>10 DEF Shape
<1>12. pump[b][d].at = "read" /\ ~TakesPrefix(b, d)
  BY DEF Read
<1> QED
  BY <1>2, <1>3, <1>7, <1>9, <1>10, <1>11, <1>12

LEMMA ReadFailsEffect ==
    ASSUME Shape, NEW b \in Bridges, NEW d \in Directions, ReadFails(b, d)
    PROVE  LET k == From(b, d)
           IN  /\ Shape' /\ pump[b][d].at = "read" /\ ~TakesPrefix(b, d)
               /\ deaf[k][d] \/ (wire[k][d] = <<>> /\ fin[k][d] # "none")
               /\ \A c \in Bridges, e \in Directions :
                    pump'[c][e] = IF c = b /\ e = d THEN At("fail") ELSE pump[c][e]
               /\ UNCHANGED <<phase, prefix, wire, fin, deaf, errc, sent, got, ended>>
<1>1. SetPump(b, d, At("fail")) /\ UNCHANGED <<phase, prefix, wire, fin, deaf, errc, sent, got, ended>>
  BY DEF ReadFails, mainVars, linkVars, endVars
<1>2. PumpShape' /\ \A c \in Bridges, e \in Directions :
        pump'[c][e] = IF c = b /\ e = d THEN At("fail") ELSE pump[c][e]
  BY <1>1, PumpStates, SetPumpEffect DEF Shape
<1>3. Shape'
  BY <1>1, <1>2 DEF Shape, LinkShape
<1> QED
  BY <1>1, <1>2, <1>3 DEF ReadFails

LEMMA PumpEndsEffect ==
    ASSUME Shape, NEW b \in Bridges, NEW d \in Directions, PumpEnds(b, d)
    PROVE  /\ Shape' /\ pump[b][d].at = "fail"
           /\ \A c \in Bridges : c # b => errc'[c] = errc[c]
           /\ \A c \in Bridges, e \in Directions :
                pump'[c][e] = IF c = b /\ e = d THEN At("done") ELSE pump[c][e]
           /\ UNCHANGED <<phase, prefix, wire, fin, deaf, sent, got, ended>>
<1>1. SetPump(b, d, At("done")) /\ UNCHANGED <<phase, prefix, wire, fin, deaf, sent, got, ended>>
  BY DEF PumpEnds, mainVars, linkVars, endVars
<1>2. PumpShape' /\ \A c \in Bridges, e \in Directions :
        pump'[c][e] = IF c = b /\ e = d THEN At("done") ELSE pump[c][e]
  BY <1>1, PumpStates, SetPumpEffect DEF Shape
<1>3. errc' = [errc EXCEPT ![b] = @ + 1] /\ errc[b] < 2
  BY DEF PumpEnds, ErrcRoom
<1>4. errc' \in [Bridges -> 0..2] /\ \A c \in Bridges : c # b => errc'[c] = errc[c]
  BY <1>3 DEF Shape
<1>5. Shape'
  BY <1>1, <1>2, <1>4 DEF Shape, LinkShape
<1> QED
  BY <1>1, <1>2, <1>4, <1>5 DEF PumpEnds

\* A write succeeds, or the chunk is lost because one of the ends is closed.
LEMMA WriteEffect ==
    ASSUME Shape, NEW b \in Bridges, NEW d \in Directions, Write(b, d), Len(Held(b, d)) = 1
    PROVE  LET k == To(b, d)
               more == At(IF pump[b][d].last THEN "fail" ELSE "read")
           IN  /\ Shape' /\ pump[b][d].at = "write"
               /\ \E next \in {At("fail"), more} :
                    /\ \A c \in Bridges, e \in Directions :
                         pump'[c][e] = IF c = b /\ e = d THEN next ELSE pump[c][e]
                    /\ \/ ~Open(k, d) /\ Cut
                       \/ /\ Open(k, d) /\ next = more /\ Len(wire[k][d]) < Capacity
                          /\ UNCHANGED <<fin, deaf>>
                          /\ \A j \in Links, e \in Directions :
                               wire'[j][e] = IF j = k /\ e = d THEN Append(wire[k][d], Held(b, d)[1])
                                             ELSE wire[j][e]
               /\ UNCHANGED <<phase, prefix, errc, sent, got, ended>>
<1> DEFINE k == To(b, d)
           more == At(IF pump[b][d].last THEN "fail" ELSE "read")
<1>1. k \in Links /\ LinkShape /\ PumpShape
  BY BridgeEnds DEF Shape
<1>2. pump[b][d].at = "write" /\ UNCHANGED <<phase, prefix, errc, sent, got, ended>>
  BY DEF Write, mainVars, endVars
<1>3. pump[b][d] \in PumpState
  BY DEF Shape, PumpShape
<1>4. more \in PumpState /\ At("fail") \in PumpState
  BY PumpStates
<1>5. Held(b, d)[1] \in Nat
  <2>1. Held(b, d) \in Seq(Nat) /\ 1 \in 1..Len(Held(b, d))
    BY <1>3, PumpStates DEF Held
  <2> QED
    BY <2>1, ElementOfSeq
<1> HIDE DEF more
<1>6. PICK next \in {At("fail"), more} :
        /\ SetPump(b, d, next)
        /\ \/ ~Open(k, d) /\ (UNCHANGED linkVars \/ LostOn(k, d))
           \/ Open(k, d) /\ next = more /\ Room(k, d) /\ PutOn(k, d, Held(b, d)[1])
  BY DEF Write, more, Open, Intact, Held
<1>7. PumpShape' /\ \A c \in Bridges, e \in Directions :
        pump'[c][e] = IF c = b /\ e = d THEN next ELSE pump[c][e]
  BY <1>1, <1>4, <1>6, SetPumpEffect
<1>8. CASE ~Open(k, d) /\ (UNCHANGED linkVars \/ LostOn(k, d))
  <2>1. LinkShape' /\ Cut
    BY <1>1, <1>8, NoCut, LostOnEffect
  <2>2. Shape'
    BY <1>2, <1>7, <2>1 DEF Shape
  <2> QED
    BY <1>2, <1>6, <1>7, <1>8, <2>1, <2>2 DEF more
<1>9. CASE Open(k, d) /\ next = more /\ Room(k, d) /\ PutOn(k, d, Held(b, d)[1])
  <2>1. LinkShape' /\ UNCHANGED <<fin, deaf>> /\ \A j \in Links, e \in Directions :
          wire'[j][e] = IF j = k /\ e = d THEN Append(wire[k][d], Held(b, d)[1]) ELSE wire[j][e]
    BY <1>1, <1>5, <1>9, PutEffect
  <2>2. Shape'
    BY <1>2, <1>7, <2>1 DEF Shape
  <2> QED
    BY <1>2, <1>6, <1>7, <1>9, <2>1, <2>2 DEF more, Room
<1> QED
  BY <1>6, <1>8, <1>9

LEMMA SendsEffect ==
    ASSUME Shape, NEW d \in Directions, Sends(d)
    PROVE  /\ Shape' /\ fin[Near(d)][d] = "none" /\ sent[d] < MaxSend[d]
           /\ sent'[d] = sent[d] + 1 /\ \A e \in Directions : e # d => sent'[e] = sent[e]
           /\ \/ deaf[Near(d)][d] /\ Cut
              \/ /\ Intact(Near(d), d) /\ Len(wire[Near(d)][d]) < Capacity
                 /\ UNCHANGED <<fin, deaf>>
                 /\ \A j \in Links, e \in Directions :
                      wire'[j][e] = IF j = Near(d) /\ e = d THEN Append(wire[j][e], sent[d] + 1)
                                    ELSE wire[j][e]
           /\ UNCHANGED <<phase, prefix, pump, errc, got, ended>>
<1>1. Near(d) \in Links /\ LinkShape
  BY Path DEF Shape
<1>2. fin[Near(d)][d] = "none" /\ sent[d] < MaxSend[d] /\ sent' = [sent EXCEPT ![d] = @ + 1]
      /\ UNCHANGED <<phase, prefix, pump, errc, got, ended>>
  BY DEF Sends, mainVars
<1>3. /\ sent' \in [Directions -> Nat] /\ sent[d] + 1 \in Nat /\ sent'[d] = sent[d] + 1
      /\ \A e \in Directions : e # d => sent'[e] = sent[e]
  BY <1>2 DEF Shape
<1>4. CASE deaf[Near(d)][d]
  <2>1. LostOn(Near(d), d)
    BY <1>4 DEF Sends
  <2>2. LinkShape' /\ Cut
    BY <1>1, <2>1, LostOnEffect
  <2>3. Shape'
    BY <1>2, <1>3, <2>2 DEF Shape, PumpShape
  <2> QED
    BY <1>2, <1>3, <1>4, <2>2, <2>3
<1>5. CASE ~deaf[Near(d)][d]
  <2>1. Room(Near(d), d) /\ PutOn(Near(d), d, sent[d] + 1)
    BY <1>5 DEF Sends
  <2>2. LinkShape' /\ UNCHANGED <<fin, deaf>> /\ \A j \in Links, e \in Directions :
          wire'[j][e] = IF j = Near(d) /\ e = d THEN Append(wire[Near(d)][d], sent[d] + 1) ELSE wire[j][e]
    BY <1>1, <1>3, <2>1, PutEffect
  <2>3. Shape'
    BY <1>2, <1>3, <2>2 DEF Shape, PumpShape
  <2> QED
    BY <1>2, <1>3, <1>5, <2>1, <2>2, <2>3 DEF Room, Intact
<1> QED
  BY <1>4, <1>5

LEMMA ReceivesEffect ==
    ASSUME Shape, NEW d \in Directions, Receives(d)
    PROVE  LET far == wire[Far(d)][d]
           IN  /\ Shape' /\ far # <<>>
               /\ got'[d] = Append(got[d], Head(far))
               /\ \A e \in Directions : e # d => got'[e] = got[e]
               /\ \A j \in Links, e \in Directions :
                    wire'[j][e] = IF j = Far(d) /\ e = d THEN Tail(far) ELSE wire[j][e]
               /\ UNCHANGED <<phase, prefix, pump, fin, deaf, errc, sent, ended>>
<1> DEFINE far == wire[Far(d)][d]
<1>1. Far(d) \in Links /\ LinkShape
  BY Path DEF Shape
<1>2. far # <<>> /\ got' = [got EXCEPT ![d] = Append(@, Head(far))]
      /\ wire' = [wire EXCEPT ![Far(d)][d] = Tail(@)]
      /\ UNCHANGED <<phase, prefix, pump, fin, deaf, errc, sent, ended>>
  BY DEF Receives, mainVars
<1>3. far \in Seq(Nat) /\ got[d] \in Seq(Nat)
  BY <1>1 DEF LinkShape, Shape
<1>4. Append(got[d], Head(far)) \in Seq(Nat)
  BY <1>2, <1>3, HeadTailProperties, AppendProperties
<1>5. got' \in [Directions -> Seq(Nat)] /\ got'[d] = Append(got[d], Head(far))
      /\ \A e \in Directions : e # d => got'[e] = got[e]
  BY <1>2, <1>4 DEF Shape
<1>6. LinkShape' /\ \A j \in Links, e \in Directions :
        wire'[j][e] = IF j = Far(d) /\ e = d THEN Tail(far) ELSE wire[j][e]
  BY <1>1, <1>2, TakeEffect
<1>7. Shape'
  BY <1>2, <1>5, <1>6 DEF Shape, PumpShape
<1> QED
  BY <1>2, <1>5, <1>6, <1>7

LEMMA EndEffect ==
    ASSUME Shape, NEW d \in Directions, HalfCloses(d) \/ Closes(d) \/ Breaks
    PROVE  Shape' /\ Cut /\ UNCHANGED <<phase, prefix, pump, errc, sent, got>>
<1>1. LinkShape /\ Near(d) \in Links /\ Reverse(d) \in Directions
  BY Path DEF Shape
<1>2. LinkShape' /\ Cut
  BY <1>1, HalfCloseEffect, CloseEndEffect, BreaksEffect DEF Closes
<1>3. UNCHANGED <<phase, prefix, pump, errc, sent, got>>
  BY DEF HalfCloses, Closes, Breaks, mainVars
<1>4. ended' \in {"none", "more"} \cup Directions
  BY DEF HalfCloses, Closes, Breaks, Ends, Shape
<1> QED
  BY <1>2, <1>3, <1>4 DEF Shape, PumpShape

\* The bridge's end of a connection is closed.
LEMMA CloseEffect ==
    ASSUME Shape, NEW b \in Bridges, DialFails(b) \/ CloseFirst(b) \/ CloseSecond(b)
    PROVE  /\ Shape' /\ Cut
           /\ phase'[b] \in {"closing", "closed"} /\ phase[b] \notin {"none", "closed"}
           /\ \A c \in Bridges : c # b => phase'[c] = phase[c]
           /\ UNCHANGED <<prefix, pump, errc, sent, got>>
<1>1. PICK k \in {First(b), Second(b)} : CloseEnd(k, Inward(b, k))
  BY DEF DialFails, CloseFirst, CloseSecond
<1>2. k \in Links /\ Inward(b, k) \in Directions /\ LinkShape
  <2>1. "up" \in Directions
    BY DEF Directions
  <2> QED
    BY <1>1, <2>1, BridgeEnds DEF Shape
<1>3. LinkShape' /\ Cut
  BY <1>1, <1>2, CloseEndEffect
<1>4. UNCHANGED <<prefix, pump, errc, sent, got>>
  BY DEF DialFails, CloseFirst, CloseSecond, endVars
<1>5. /\ phase' = [phase EXCEPT ![b] = "closing"] \/ phase' = [phase EXCEPT ![b] = "closed"]
      /\ phase[b] \notin {"none", "closed"}
  BY DEF DialFails, CloseFirst, CloseSecond, Enter
<1>6. /\ phase' \in [Bridges -> {"none", "request", "dial", "bridge", "closing", "closed"}]
      /\ phase'[b] \in {"closing", "closed"}
      /\ \A c \in Bridges : c # b => phase'[c] = phase[c]
  BY <1>5 DEF Shape
<1>7. ended' \in {"none", "more"} \cup Directions
  BY DEF DialFails, CloseFirst, CloseSecond, endVars, Ends, Shape
<1> QED
  BY <1>3, <1>4, <1>5, <1>6, <1>7 DEF Shape, PumpShape

LEMMA ReadRequestEffect ==
    ASSUME Shape, ReadRequest
    PROVE  /\ Shape' /\ phase["client"] = "request"
           /\ phase'["client"] = "dial" /\ phase'["backend"] = phase["backend"]
           /\ \E n \in 0..Len(wire["local"]["up"]) :
                /\ prefix' = SubSeq(wire["local"]["up"], 1, n)
                /\ \A j \in Links, e \in Directions :
                     wire'[j][e] = IF j = "local" /\ e = "up"
                                   THEN SubSeq(wire["local"]["up"], n + 1, Len(wire["local"]["up"]))
                                   ELSE wire[j][e]
           /\ UNCHANGED <<fin, deaf, pump, errc, sent, got, ended>>
<1> DEFINE near == wire["local"]["up"]
<1>1. "local" \in Links /\ "up" \in Directions /\ "client" \in Bridges /\ "backend" \in Bridges
  BY DEF Links, Directions, Bridges
<1>2. near \in Seq(Nat)
  BY <1>1 DEF Shape, LinkShape
<1>3. PICK n \in 0..Len(near) :
        /\ prefix' = SubSeq(near, 1, n)
        /\ wire' = [wire EXCEPT !["local"]["up"] = SubSeq(@, n + 1, Len(@))]
  BY DEF ReadRequest
<1>4. phase["client"] = "request" /\ phase' = [phase EXCEPT !["client"] = "dial"]
      /\ UNCHANGED <<fin, deaf, pump, errc, sent, got, ended>>
  BY DEF ReadRequest, Enter, endVars
<1>5. /\ phase' \in [Bridges -> {"none", "request", "dial", "bridge", "closing", "closed"}]
      /\ phase'["client"] = "dial" /\ phase'["backend"] = phase["backend"]
  BY <1>1, <1>4 DEF Shape
<1>6. SubSeq(near, 1, n) \in Seq(Nat) /\ SubSeq(near, n + 1, Len(near)) \in Seq(Nat)
  <2>1. Len(near) \in Nat /\ n \in Nat /\ \A i \in 1..Len(near) : near[i] \in Nat
    BY <1>2, ElementOfSeq, LenProperties
  <2> QED
    BY <1>2, <2>1, SubSeqProperties, CutType
<1>7. LinkShape' /\ \A j \in Links, e \in Directions :
        wire'[j][e] = IF j = "local" /\ e = "up" THEN SubSeq(near, n + 1, Len(near)) ELSE wire[j][e]
  <2> DEFINE rest == SubSeq(near, n + 1, Len(near))
  <2>1. rest \in Seq(Nat) /\ wire' = [wire EXCEPT !["local"]["up"] = rest]
    BY <1>3, <1>6
  <2> HIDE DEF rest
  <2>2. LinkShape' /\ \A j \in Links, e \in Directions :
          wire'[j][e] = IF j = "local" /\ e = "up" THEN rest ELSE wire[j][e]
    BY <1>1, <1>4, <2>1 DEF Shape, LinkShape
  <2> QED
    BY <2>2 DEF rest
<1>8. Shape'
  BY <1>3, <1>4, <1>5, <1>6, <1>7 DEF Shape, PumpShape
<1> QED
  BY <1>3, <1>4, <1>5, <1>7, <1>8

LEMMA DialsEffect ==
    ASSUME Shape, ClientDials \/ BackendDials
    PROVE  \E b \in Bridges :
             /\ Shape' /\ phase[b] = "dial" /\ phase'[b] = "bridge"
             /\ b = "client" => phase'["backend"] = "dial"
             /\ b = "backend" => phase'["client"] = phase["client"]
             /\ \A c \in Bridges, d \in Directions :
                  pump'[c][d] = IF c = b THEN [pump[b][d] EXCEPT !.at = "read"] ELSE pump[c][d]
             /\ UNCHANGED <<prefix, wire, fin, deaf, errc, sent, got, ended>>
<1>1. "client" \in Bridges /\ "backend" \in Bridges /\ Bridges = {"client", "backend"}
  BY DEF Bridges
<1>2. PICK b \in Bridges : (b = "client" /\ ClientDials) \/ (b = "backend" /\ BackendDials)
  BY <1>1
<1>3. Pumping(b) /\ phase[b] = "dial" /\ UNCHANGED <<prefix, wire, fin, deaf, errc, sent, got, ended>>
  BY <1>2 DEF ClientDials, BackendDials, linkVars, endVars
<1>4. PumpShape' /\ \A c \in Bridges, d \in Directions :
        pump'[c][d] = IF c = b THEN [pump[b][d] EXCEPT !.at = "read"] ELSE pump[c][d]
  BY <1>3, PumpingEffect DEF Shape
<1>5. /\ phase' \in [Bridges -> {"none", "request", "dial", "bridge", "closing", "closed"}]
      /\ phase'[b] = "bridge"
      /\ b = "client" => phase'["backend"] = "dial"
      /\ b = "backend" => phase'["client"] = phase["client"]
  BY <1>1, <1>2 DEF ClientDials, BackendDials, Enter, Shape
<1>6. Shape'
  BY <1>3, <1>4, <1>5 DEF Shape, LinkShape
<1> QED
  BY <1>3, <1>4, <1>5, <1>6

----------------------------------------------------------------------------
(* Steps that move no chunk, although they may lose some.                  *)

Loses ==
    /\ Cut /\ UNCHANGED <<got, prefix>>
    /\ \A d \in Directions :
         \/ sent'[d] = sent[d]
         \/ sent'[d] = sent[d] + 1 /\ sent[d] < MaxSend[d] /\ ~Intact(Near(d), d)
    /\ \A b \in Bridges, d \in Directions :
         \/ Held(b, d)' = Held(b, d)
         \/ Held(b, d)' = <<>> /\ ~Open(To(b, d), d)

\* A wire that is still good has lost nothing.
LEMMA CutCloses ==
    ASSUME LinkShape, Cut, NEW k \in Links, NEW d \in Directions
    PROVE  /\ Intact(k, d)' => Intact(k, d) /\ wire'[k][d] = wire[k][d]
           /\ Open(k, d)' => Open(k, d)
<1>1. Intact(k, d)' => Intact(k, d)
  BY DEF Cut, Intact
<1>2. Open(k, d)' => Open(k, d)
  BY <1>1, Path DEF Cut, Open
<1>3. Intact(k, d)' => wire'[k][d] = wire[k][d]
  <2>1. PICK n \in 0..Len(wire[k][d]) :
          wire'[k][d] = SubSeq(wire[k][d], 1, n) /\ (n = Len(wire[k][d]) \/ ~Intact(k, d)')
    BY DEF Cut
  <2>2. wire[k][d] \in Seq(Nat)
    BY DEF LinkShape
  <2> QED
    BY <2>1, <2>2, WholeCut
<1> QED
  BY <1>1, <1>2, <1>3

Typed(d) ==
    /\ got[d] \in Seq(Nat) /\ Ahead(d) \in Seq(Nat) /\ sent[d] \in Nat
    /\ \A k \in Links : wire[k][d] \in Seq(Nat)
    /\ \A b \in Bridges : Held(b, d) \in Seq(Nat)
    /\ Arrived(d) \in Seq(Nat) /\ Passed(d) \in Seq(Nat) /\ Entered(d) \in Seq(Nat)

LEMMA PathTypes ==
    ASSUME NEW d \in Directions
    PROVE  (Shape => Typed(d)) /\ (Shape' => Typed(d)')
<1>1. /\ Near(d) \in Links /\ Far(d) \in Links /\ "ws" \in Links
      /\ Entry(d) \in Bridges /\ Exit(d) \in Bridges
  BY Path
<1>2. \A s, t \in Seq(Nat) : s \o t \in Seq(Nat)
  BY ConcatProperties
<1>3. ASSUME Shape PROVE Typed(d)
  <2>1. got[d] \in Seq(Nat) /\ Ahead(d) \in Seq(Nat) /\ sent[d] \in Nat
    BY <1>3, EmptySeq DEF Shape, Ahead
  <2>2. \A k \in Links : wire[k][d] \in Seq(Nat)
    BY <1>3 DEF Shape, LinkShape
  <2>3. \A b \in Bridges : Held(b, d) \in Seq(Nat)
    BY <1>3 DEF Shape, PumpShape, PumpState, Held
  <2>4. Arrived(d) \in Seq(Nat)
    BY <1>1, <1>2, <2>1, <2>2 DEF Arrived
  <2>5. Passed(d) \in Seq(Nat)
    BY <1>1, <1>2, <2>2, <2>3, <2>4 DEF Passed
  <2>6. Entered(d) \in Seq(Nat)
    BY <1>1, <1>2, <2>1, <2>2, <2>3, <2>5 DEF Entered
  <2> QED
    BY <2>1, <2>2, <2>3, <2>4, <2>5, <2>6 DEF Typed
<1>4. ASSUME Shape' PROVE Typed(d)'
  <2>1. got'[d] \in Seq(Nat) /\ Ahead(d)' \in Seq(Nat) /\ sent'[d] \in Nat
    BY <1>4, EmptySeq DEF Shape, Ahead
  <2>2. \A k \in Links : wire'[k][d] \in Seq(Nat)
    BY <1>4 DEF Shape, LinkShape
  <2>3. \A b \in Bridges : Held(b, d)' \in Seq(Nat)
    BY <1>4 DEF Shape, PumpShape, PumpState, Held
  <2>4. Arrived(d)' \in Seq(Nat)
    BY <1>1, <1>2, <2>1, <2>2 DEF Arrived
  <2>5. Passed(d)' \in Seq(Nat)
    BY <1>1, <1>2, <2>2, <2>3, <2>4 DEF Passed
  <2>6. Entered(d)' \in Seq(Nat)
    BY <1>1, <1>2, <2>1, <2>2, <2>3, <2>5 DEF Entered
  <2> QED
    BY <2>1, <2>2, <2>3, <2>4, <2>5, <2>6 DEF Typed
<1> QED
  BY <1>3, <1>4

LEMMA LosesInOrder ==
    ASSUME Shape, Shape', Loses, NEW d \in Directions, InOrder(d)
    PROVE  InOrder(d)'
<1>1. /\ Near(d) \in Links /\ Far(d) \in Links /\ "ws" \in Links
      /\ Entry(d) \in Bridges /\ Exit(d) \in Bridges
      /\ To(Entry(d), d) = "ws" /\ To(Exit(d), d) = Far(d)
  BY Path
<1>2. Typed(d) /\ Typed(d)'
  BY PathTypes
<1>3. got'[d] = got[d] /\ Ahead(d)' = Ahead(d)
  BY DEF Loses, Ahead
<1>4. \A j \in Links : /\ Intact(j, d)' => Intact(j, d) /\ wire'[j][d] = wire[j][d]
                       /\ Open(j, d)' => Open(j, d) /\ Intact(j, d)'
  BY CutCloses DEF Shape, Loses, Open
<1>5. \A j \in Links : \E n \in 0..Len(wire[j][d]) : wire'[j][d] = SubSeq(wire[j][d], 1, n)
  BY DEF Loses, Cut
\* A cut of the last part of what counts leaves something that counts.
<1>6. ASSUME NEW s \in Seq(Nat), NEW j \in Links, Counts(s \o wire[j][d])
      PROVE  Counts(s \o wire'[j][d])
  BY <1>2, <1>5, <1>6, CountsCut DEF Typed
<1>7. Counts(Arrived(d))'
  BY <1>1, <1>2, <1>3, <1>6 DEF InOrder, Arrived, Typed
<1>8. ASSUME Open(Far(d), d)'
      PROVE  Open(Far(d), d) /\ Arrived(d)' = Arrived(d) /\ Held(Exit(d), d)' = Held(Exit(d), d)
  BY <1>1, <1>3, <1>4, <1>8 DEF Loses, Arrived
<1>9. ASSUME Open(Far(d), d)'
      PROVE  Counts(Passed(d))'
  <2>1. Counts(Arrived(d) \o Held(Exit(d), d) \o wire["ws"][d])
    BY <1>8, <1>9 DEF InOrder, Passed
  <2>2. Arrived(d) \o Held(Exit(d), d) \in Seq(Nat)
    BY <1>1, <1>2, ConcatProperties DEF Typed
  <2>3. Counts(Arrived(d) \o Held(Exit(d), d) \o wire'["ws"][d])
    BY <1>1, <1>6, <2>1, <2>2
  <2> QED
    BY <1>8, <1>9, <2>3 DEF Passed, Counts
<1>10. ASSUME Open(Far(d), d)', Open("ws", d)'
       PROVE  /\ Open("ws", d) /\ Passed(d)' = Passed(d) /\ Held(Entry(d), d)' = Held(Entry(d), d)
  BY <1>1, <1>4, <1>8, <1>10 DEF Loses, Passed
<1>11. ASSUME Open(Far(d), d)', Open("ws", d)'
       PROVE  Counts(Entered(d))'
  <2> DEFINE s == Passed(d) \o Held(Entry(d), d) \o Ahead(d)
  <2>1. Counts(s \o wire[Near(d)][d])
    BY <1>8, <1>10, <1>11 DEF InOrder, Entered
  <2>2. s \in Seq(Nat)
    BY <1>1, <1>2, ConcatProperties DEF Typed
  <2>3. Entered(d)' = s \o wire'[Near(d)][d]
    BY <1>3, <1>10, <1>11 DEF Entered
  <2> HIDE DEF s
  <2>4. Counts(s \o wire'[Near(d)][d])
    BY <1>1, <1>6, <2>1, <2>2
  <2> QED
    BY <2>3, <2>4 DEF Counts
<1>12. ASSUME Open(Far(d), d)', Open("ws", d)', Intact(Near(d), d)'
       PROVE  Len(Entered(d))' = sent'[d]
  <2>1. Entered(d)' = Entered(d)
    BY <1>1, <1>3, <1>4, <1>10, <1>12 DEF Entered
  <2>2. Intact(Near(d), d) /\ sent'[d] = sent[d]
    BY <1>1, <1>4, <1>12 DEF Loses
  <2> QED
    BY <1>8, <1>10, <1>12, <2>1, <2>2 DEF InOrder
<1> QED
  BY <1>7, <1>9, <1>11, <1>12 DEF InOrder

----------------------------------------------------------------------------
(* Steps that move a chunk along the path.                                 *)

\* A chunk that moves stays in its place in the stream: the step only shifts the
\* border between two parts of it, where no loss has come between.
LEMMA MoveInOrder ==
    ASSUME Shape, Shape', NEW d \in Directions, InOrder(d),
           UNCHANGED <<fin, deaf>>, sent'[d] = sent[d],
           Entered(d)' = Entered(d),
           \/ Arrived(d)' = Arrived(d) /\ Passed(d)' = Passed(d)
           \/ Arrived(d)' = Arrived(d) /\ Open("ws", d)
           \/ Passed(d)' = Passed(d) /\ Open(Far(d), d)
    PROVE  InOrder(d)'
<1>1. /\ Near(d) \in Links /\ Far(d) \in Links /\ "ws" \in Links
      /\ Entry(d) \in Bridges /\ Exit(d) \in Bridges
  BY Path
<1>2. Typed(d)'
  BY PathTypes
<1>3. \A k \in Links : Open(k, d)' = Open(k, d) /\ Intact(k, d)' = Intact(k, d)
  BY DEF Open, Intact
<1>4. Counts(Passed(d))' => Counts(Arrived(d))'
  <2> DEFINE a == Arrived(d)'
             h == Held(Exit(d), d)'
             w == wire'["ws"][d]
  <2>1. a \in Seq(Nat) /\ h \in Seq(Nat) /\ w \in Seq(Nat) /\ Passed(d)' = a \o h \o w
    BY <1>1, <1>2 DEF Typed, Passed
  <2> HIDE DEF a, h, w
  <2>2. a \o h \in Seq(Nat)
    BY <2>1, ConcatProperties
  <2>3. Counts(a \o h \o w) => Counts(a)
    BY <2>1, <2>2, CountsFront
  <2> QED
    BY <2>1, <2>3 DEF a, Counts
<1>5. Counts(Entered(d))' => Counts(Passed(d))'
  <2> DEFINE p == Passed(d)'
             h == Held(Entry(d), d)'
             a == Ahead(d)'
             n == wire'[Near(d)][d]
  <2>1. /\ p \in Seq(Nat) /\ h \in Seq(Nat) /\ a \in Seq(Nat) /\ n \in Seq(Nat)
        /\ Entered(d)' = p \o h \o a \o n
    BY <1>1, <1>2 DEF Typed, Entered
  <2> HIDE DEF p, h, a, n
  <2>2. p \o h \in Seq(Nat) /\ p \o h \o a \in Seq(Nat)
    BY <2>1, ConcatProperties
  <2>3. Counts(p \o h \o a \o n) => Counts(p)
    BY <2>1, <2>2, CountsFront
  <2> QED
    BY <2>1, <2>3 DEF p, Counts
<1>6. Counts(Arrived(d))'
  BY <1>1, <1>4 DEF InOrder, Counts
<1>7. Open(Far(d), d)' => Counts(Passed(d))'
  BY <1>1, <1>3, <1>5 DEF InOrder, Counts
<1>8. Open(Far(d), d)' /\ Open("ws", d)' =>
        Counts(Entered(d))' /\ (Intact(Near(d), d)' => Len(Entered(d))' = sent'[d])
  BY <1>1, <1>3 DEF InOrder, Counts
<1> QED
  BY <1>6, <1>7, <1>8 DEF InOrder

\* The head of t is handed over, and so is a last chunk c.
LEMMA HandOver ==
    ASSUME NEW s \in Seq(Nat), NEW t \in Seq(Nat), t # <<>>
    PROVE  s \o <<Head(t)>> \o Tail(t) = s \o <<>> \o t
<1>1. Head(t) \in Nat
  BY HeadTailProperties
<1>2. s \o <<Head(t)>> = Append(s, Head(t))
  BY <1>1, AppendIsConcat
<1>3. s \o <<>> = s
  BY ConcatEmptySeq
<1> QED
  BY <1>2, <1>3, MoveHead

LEMMA PutLast ==
    ASSUME NEW s \in Seq(Nat), NEW t \in Seq(Nat), NEW c \in Nat
    PROVE  s \o Append(t, c) = s \o t \o <<c>> /\ s \o t \o <<c>> = Append(s \o t, c)
<1>1. <<c>> \in Seq(Nat) /\ Append(t, c) = t \o <<c>>
  <2>1. <<>> \in Seq(Nat) /\ Append(<<>>, c) = <<c>>
    BY EmptySeq
  <2>2. <<c>> \in Seq(Nat)
    BY <2>1, AppendProperties
  <2> QED
    BY <2>2, AppendIsConcat
<1>2. s \o (t \o <<c>>) = s \o t \o <<c>>
  BY <1>1, ConcatAssociative
<1>3. s \o t \in Seq(Nat)
  BY ConcatProperties
<1>4. Append(s \o t, c) = s \o t \o <<c>>
  BY <1>3, AppendIsConcat
<1> QED
  BY <1>1, <1>2, <1>4

LEMMA SamePath ==
    ASSUME NEW d \in Directions, got'[d] = got[d], Ahead(d)' = Ahead(d),
           \A k \in Links : wire'[k][d] = wire[k][d],
           \A b \in Bridges : Held(b, d)' = Held(b, d)
    PROVE  Arrived(d)' = Arrived(d) /\ Passed(d)' = Passed(d) /\ Entered(d)' = Entered(d)
<1>1. /\ Near(d) \in Links /\ Far(d) \in Links /\ "ws" \in Links
      /\ Entry(d) \in Bridges /\ Exit(d) \in Bridges
  BY Path
<1>2. Arrived(d)' = Arrived(d)
  BY <1>1 DEF Arrived
<1>3. Passed(d)' = Passed(d)
  BY <1>1, <1>2 DEF Passed
<1>4. Entered(d)' = Entered(d)
  BY <1>1, <1>3 DEF Entered
<1> QED
  BY <1>2, <1>3, <1>4

LEMMA SendsInOrder ==
    ASSUME Shape, NEW d \in Directions, Sends(d), ~deaf[Near(d)][d],
           NEW e \in Directions, InOrder(e)
    PROVE  InOrder(e)'
<1> DEFINE c == sent[d] + 1
<1>1. /\ Near(d) \in Links /\ Far(d) \in Links /\ "ws" \in Links
      /\ Entry(d) \in Bridges /\ Exit(d) \in Bridges
      /\ Near(d) # Far(d) /\ Near(d) # "ws"
  BY Path
<1>2. /\ Shape' /\ Intact(Near(d), d) /\ UNCHANGED <<fin, deaf, prefix, pump, got>>
      /\ sent'[d] = c /\ \A f \in Directions : f # d => sent'[f] = sent[f]
      /\ \A k \in Links, f \in Directions :
           wire'[k][f] = IF k = Near(d) /\ f = d THEN Append(wire[k][f], c) ELSE wire[k][f]
  BY SendsEffect
<1>3. UNCHANGED <<Ahead(e), got[e]>> /\ \A b \in Bridges : Held(b, e)' = Held(b, e)
  BY <1>2 DEF Ahead, Held
<1>4. CASE e # d
  <2>1. \A k \in Links : wire'[k][e] = wire[k][e]
    BY <1>2, <1>4
  <2>2. Arrived(e)' = Arrived(e) /\ Passed(e)' = Passed(e) /\ Entered(e)' = Entered(e)
    BY <1>3, <2>1, SamePath
  <2> QED
    BY <1>2, <1>4, <2>2, MoveInOrder
<1>5. CASE e = d
  <2>1. Typed(d)
    BY PathTypes
  <2>2. Arrived(d)' = Arrived(d)
    BY <1>1, <1>2 DEF Arrived
  <2>3. Passed(d)' = Passed(d)
    BY <1>1, <1>2, <1>3, <1>5, <2>2 DEF Passed
  <2>4. Entered(d)' = Append(Entered(d), c)
    <3> DEFINE s == Passed(d) \o Held(Entry(d), d) \o Ahead(d)
               n == wire[Near(d)][d]
    <3>1. s \in Seq(Nat) /\ n \in Seq(Nat) /\ c \in Nat
      BY <1>1, <2>1, ConcatProperties DEF Typed
    <3>2. Entered(d)' = s \o Append(n, c) /\ Entered(d) = s \o n
      BY <1>1, <1>2, <1>3, <1>5, <2>3 DEF Entered
    <3> HIDE DEF s, n, c
    <3>3. s \o Append(n, c) = Append(s \o n, c)
      BY <3>1, PutLast
    <3> QED
      BY <3>2, <3>3
  <2>5. \A k \in Links : Open(k, d)' = Open(k, d) /\ Intact(k, d)' = Intact(k, d)
    BY <1>2 DEF Open, Intact
  <2>6. CASE Open(Far(d), d) /\ Open("ws", d)
    <3>1. Counts(Entered(d)) /\ Len(Entered(d)) = sent[d]
      BY <1>2, <1>5, <2>6 DEF InOrder
    <3>2. Len(Append(Entered(d), c)) = c
      BY <2>1, <3>1, AppendProperties DEF Typed
    <3>3. Counts(Append(Entered(d), c))
      BY <2>1, <3>1, CountsMore DEF Typed
    <3>4. Counts(Entered(d))' /\ Len(Entered(d))' = sent'[d]
      BY <1>2, <2>4, <3>2, <3>3 DEF Counts
    <3>5. Counts(Arrived(d))' /\ Counts(Passed(d))'
      BY <1>5, <2>2, <2>3, <2>6 DEF InOrder, Counts
    <3> QED
      BY <1>5, <3>4, <3>5 DEF InOrder
  <2>7. CASE ~(Open(Far(d), d) /\ Open("ws", d))
    BY <1>1, <1>5, <2>2, <2>3, <2>5, <2>7 DEF InOrder, Counts
  <2> QED
    BY <2>6, <2>7
<1> QED
  BY <1>4, <1>5

LEMMA ReceivesInOrder ==
    ASSUME Shape, NEW d \in Directions, Receives(d), NEW e \in Directions, InOrder(e)
    PROVE  InOrder(e)' /\ Entered(e)' = Entered(e)
<1> DEFINE far == wire[Far(d)][d]
<1>1. /\ Near(d) \in Links /\ Far(d) \in Links /\ "ws" \in Links
      /\ Entry(d) \in Bridges /\ Exit(d) \in Bridges
      /\ Near(d) # Far(d) /\ Far(d) # "ws"
  BY Path
<1>2. /\ Shape' /\ far # <<>>
      /\ got'[d] = Append(got[d], Head(far)) /\ \A f \in Directions : f # d => got'[f] = got[f]
      /\ \A k \in Links, f \in Directions :
           wire'[k][f] = IF k = Far(d) /\ f = d THEN Tail(far) ELSE wire[k][f]
      /\ UNCHANGED <<fin, deaf, prefix, pump, sent>>
  BY ReceivesEffect
<1>3. UNCHANGED Ahead(e) /\ \A b \in Bridges : Held(b, e)' = Held(b, e)
  BY <1>2 DEF Ahead, Held
<1>4. Arrived(e)' = Arrived(e) /\ Passed(e)' = Passed(e) /\ Entered(e)' = Entered(e)
  <2>1. CASE e # d
    BY <1>2, <1>3, <2>1, SamePath
  <2>2. CASE e = d
    <3>1. got[d] \in Seq(Nat) /\ far \in Seq(Nat)
      BY <1>1, PathTypes DEF Typed
    <3>2. Append(got[d], Head(far)) \o Tail(far) = got[d] \o far
      BY <1>2, <3>1, MoveHead
    <3>3. Arrived(d)' = Arrived(d)
      BY <1>1, <1>2, <3>2 DEF Arrived
    <3>4. Passed(d)' = Passed(d)
      BY <1>1, <1>2, <1>3, <2>2, <3>3 DEF Passed
    <3>5. Entered(d)' = Entered(d)
      BY <1>1, <1>2, <1>3, <2>2, <3>4 DEF Entered
    <3> QED
      BY <2>2, <3>3, <3>4, <3>5
  <2> QED
    BY <2>1, <2>2
<1> QED
  BY <1>2, <1>4, MoveInOrder

LEMMA ReadInOrder ==
    ASSUME Shape, NEW b \in Bridges, NEW d \in Directions, Pumps(b, d), Read(b, d),
           NEW e \in Directions, InOrder(e)
    PROVE  InOrder(e)' /\ Entered(e)' = Entered(e)
<1> DEFINE k == From(b, d)
           chunk == Head(wire[k][d])
<1>1. /\ Near(d) \in Links /\ Far(d) \in Links /\ "ws" \in Links /\ k \in Links
      /\ Entry(d) \in Bridges /\ Exit(d) \in Bridges /\ Entry(d) # Exit(d)
      /\ Near(d) # Far(d) /\ Far(d) # "ws" /\ Near(d) # "ws"
      /\ \/ b = Entry(d) /\ k = Near(d)
         \/ b = Exit(d) /\ k = "ws"
  BY Path
<1>2. PICK last \in BOOLEAN :
        \A c \in Bridges, f \in Directions :
          pump'[c][f] = IF c = b /\ f = d THEN Hold(chunk, last) ELSE pump[c][f]
  BY ReadEffect
<1>3. /\ Shape' /\ wire[k][d] # <<>> /\ pump[b][d].at = "read" /\ ~TakesPrefix(b, d)
      /\ \A j \in Links, f \in Directions :
           wire'[j][f] = IF j = k /\ f = d THEN Tail(wire[k][d]) ELSE wire[j][f]
      /\ UNCHANGED <<prefix, fin, deaf, sent, got>>
  BY ReadEffect
<1>4. Held(b, d) = <<>> /\ Held(b, d)' = <<chunk>>
      /\ \A c \in Bridges, f \in Directions : c # b \/ f # d => Held(c, f)' = Held(c, f)
  BY <1>2, <1>3 DEF Pumps, Held, Hold
<1>5. UNCHANGED Ahead(e)
  BY <1>3 DEF Ahead
<1>6. CASE e # d
  BY <1>3, <1>4, <1>5, <1>6, SamePath, MoveInOrder
<1>7. CASE e = d /\ b = Exit(d)
  <2>1. Arrived(d)' = Arrived(d)
    BY <1>1, <1>3, <1>7 DEF Arrived
  <2>2. Arrived(d) \in Seq(Nat) /\ wire["ws"][d] \in Seq(Nat)
    BY <1>1, PathTypes DEF Typed
  <2>3. Passed(d)' = Arrived(d) \o <<Head(wire["ws"][d])>> \o Tail(wire["ws"][d])
    BY <1>1, <1>3, <1>4, <1>7, <2>1 DEF Passed
  <2>4. Passed(d) = Arrived(d) \o <<>> \o wire["ws"][d]
    BY <1>4, <1>7 DEF Passed
  <2>5. Passed(d)' = Passed(d)
    BY <1>1, <1>3, <1>7, <2>2, <2>3, <2>4, HandOver
  <2>6. Entered(d)' = Entered(d)
    BY <1>1, <1>3, <1>4, <1>5, <1>7, <2>5 DEF Entered
  <2> QED
    BY <1>3, <1>7, <2>1, <2>5, <2>6, MoveInOrder
<1>8. CASE e = d /\ b = Entry(d)
  <2> DEFINE near == wire[Near(d)][d]
  <2>1. Arrived(d)' = Arrived(d)
    BY <1>1, <1>3, <1>8 DEF Arrived
  <2>2. Passed(d)' = Passed(d)
    BY <1>1, <1>3, <1>4, <1>8, <2>1 DEF Passed
  <2>3. Ahead(d) = <<>>
    BY <1>3, <1>8 DEF TakesPrefix, Ahead, Entry
  <2>4. Passed(d) \in Seq(Nat) /\ near \in Seq(Nat)
    BY <1>1, PathTypes DEF Typed
  <2>5. /\ Entered(d)' = Passed(d) \o <<Head(near)>> \o <<>> \o Tail(near)
        /\ Entered(d) = Passed(d) \o <<>> \o <<>> \o near
    BY <1>1, <1>3, <1>4, <1>5, <1>8, <2>2, <2>3 DEF Entered
  <2>6. Entered(d)' = Entered(d)
    <3>1. near # <<>> /\ <<Head(near)>> \in Seq(Nat) /\ <<>> \in Seq(Nat)
      <4>1. Head(near) \in Nat /\ near # <<>>
        BY <1>1, <1>3, <1>8, <2>4, HeadTailProperties
      <4> QED
        BY <4>1, EmptySeq
    <3>2. Passed(d) \o <<Head(near)>> \in Seq(Nat) /\ Passed(d) \o <<>> \in Seq(Nat)
      BY <2>4, <3>1, ConcatProperties
    <3>3. /\ Passed(d) \o <<Head(near)>> \o <<>> = Passed(d) \o <<Head(near)>>
          /\ Passed(d) \o <<>> \o <<>> = Passed(d) \o <<>>
      BY <3>2, ConcatEmptySeq
    <3>4. Passed(d) \o <<Head(near)>> \o Tail(near) = Passed(d) \o <<>> \o near
      BY <2>4, <3>1, HandOver
    <3> QED
      BY <2>5, <3>3, <3>4
  <2> QED
    BY <1>3, <1>8, <2>1, <2>2, <2>6, MoveInOrder
<1> QED
  BY <1>1, <1>6, <1>7, <1>8

LEMMA ReadPrefixInOrder ==
    ASSUME Shape, NEW b \in Bridges, NEW d \in Directions, Pumps(b, d), ReadPrefix(b, d),
           NEW e \in Directions, InOrder(e)
    PROVE  InOrder(e)' /\ Entered(e)' = Entered(e)
<1>1. /\ Near(d) \in Links /\ Far(d) \in Links /\ "ws" \in Links
      /\ Entry(d) \in Bridges /\ Exit(d) \in Bridges /\ Entry(d) # Exit(d)
  BY Path
<1>2. /\ Shape' /\ d = "up" /\ b = Entry(d) /\ prefix # <<>> /\ pump[b][d].at = "read"
      /\ prefix' = Tail(prefix)
      /\ \A c \in Bridges, f \in Directions :
           pump'[c][f] = IF c = b /\ f = d THEN Hold(Head(prefix), FALSE) ELSE pump[c][f]
      /\ UNCHANGED <<wire, fin, deaf, sent, got>>
  BY ReadPrefixEffect DEF Entry
<1>3. Held(b, d) = <<>> /\ Held(b, d)' = <<Head(prefix)>>
      /\ \A c \in Bridges, f \in Directions : c # b \/ f # d => Held(c, f)' = Held(c, f)
  BY <1>2 DEF Pumps, Held, Hold
<1>4. CASE e # d
  <2>1. Ahead(e)' = Ahead(e)
    BY <1>2, <1>4 DEF Ahead, Directions
  <2> QED
    BY <1>2, <1>3, <1>4, <2>1, SamePath, MoveInOrder
<1>5. CASE e = d
  <2>1. Arrived(d)' = Arrived(d)
    BY <1>2 DEF Arrived
  <2>2. Passed(d)' = Passed(d)
    BY <1>1, <1>2, <1>3, <2>1 DEF Passed
  <2>3. /\ Passed(d) \in Seq(Nat) /\ prefix \in Seq(Nat)
        /\ Ahead(d) = prefix /\ Ahead(d)' = Tail(prefix)
    BY <1>2, PathTypes DEF Typed, Ahead
  <2>4. Passed(d) \o <<Head(prefix)>> \o Tail(prefix) = Passed(d) \o <<>> \o prefix
    BY <1>2, <2>3, HandOver
  <2>5. Entered(d)' = Entered(d)
    BY <1>2, <1>3, <2>2, <2>3, <2>4 DEF Entered
  <2> QED
    BY <1>2, <1>5, <2>1, <2>2, <2>5, MoveInOrder
<1> QED
  BY <1>4, <1>5

LEMMA LossyWrite ==
    ASSUME Shape, NEW b \in Bridges, NEW d \in Directions, Pumps(b, d), Write(b, d),
           ~Open(To(b, d), d)
    PROVE  Shape' /\ Loses
<1>1. Len(Held(b, d)) = 1
  BY DEF Write, Pumps
<1>2. PICK next \in {At("fail"), At(IF pump[b][d].last THEN "fail" ELSE "read")} :
        /\ \A c \in Bridges, e \in Directions :
             pump'[c][e] = IF c = b /\ e = d THEN next ELSE pump[c][e]
        /\ Cut
  BY <1>1, WriteEffect
<1>3. Shape' /\ UNCHANGED <<prefix, sent, got>>
  BY <1>1, WriteEffect
<1>4. \A c \in Bridges, e \in Directions :
        Held(c, e)' = IF c = b /\ e = d THEN <<>> ELSE Held(c, e)
  BY <1>2 DEF Held, At
<1> QED
  BY <1>2, <1>3, <1>4 DEF Loses

LEMMA WriteInOrder ==
    ASSUME Shape, NEW b \in Bridges, NEW d \in Directions, Pumps(b, d), Write(b, d),
           Open(To(b, d), d), NEW e \in Directions, InOrder(e)
    PROVE  InOrder(e)' /\ Entered(e)' = Entered(e)
<1> DEFINE k == To(b, d)
           c == Held(b, d)[1]
<1>1. /\ Near(d) \in Links /\ Far(d) \in Links /\ "ws" \in Links /\ k \in Links
      /\ Entry(d) \in Bridges /\ Exit(d) \in Bridges /\ Entry(d) # Exit(d)
      /\ Near(d) # Far(d) /\ Far(d) # "ws" /\ Near(d) # "ws"
      /\ \/ b = Entry(d) /\ k = "ws"
         \/ b = Exit(d) /\ k = Far(d)
  BY Path
<1>2. Len(Held(b, d)) = 1
  BY DEF Write, Pumps
<1>3. PICK next \in {At("fail"), At(IF pump[b][d].last THEN "fail" ELSE "read")} :
        /\ \A a \in Bridges, f \in Directions :
             pump'[a][f] = IF a = b /\ f = d THEN next ELSE pump[a][f]
        /\ UNCHANGED <<fin, deaf>>
        /\ \A j \in Links, f \in Directions :
             wire'[j][f] = IF j = k /\ f = d THEN Append(wire[k][d], c) ELSE wire[j][f]
  BY <1>2, WriteEffect
<1>4. Shape' /\ UNCHANGED <<prefix, sent, got>>
  BY <1>2, WriteEffect
<1>5. Held(b, d)' = <<>>
      /\ \A a \in Bridges, f \in Directions : a # b \/ f # d => Held(a, f)' = Held(a, f)
  BY <1>3 DEF Held, At
<1>6. Held(b, d) = <<c>> /\ c \in Nat /\ <<c>> \in Seq(Nat) /\ <<>> \in Seq(Nat)
  <2> DEFINE h == Held(b, d)
  <2>1. h \in Seq(Nat) /\ Len(h) = 1
    BY <1>2, PathTypes DEF Typed
  <2> HIDE DEF h
  <2>2. h[1] \in Nat
    BY <2>1, ElementOfSeq
  <2>3. <<h[1]>> \in Seq(Nat) /\ Len(<<h[1]>>) = 1 /\ <<h[1]>>[1] = h[1]
    BY <2>2
  <2>4. h = <<h[1]>>
    BY <2>1, <2>3, SeqEqual
  <2> QED
    BY <2>2, <2>3, <2>4, EmptySeq DEF h
<1>7. UNCHANGED Ahead(e)
  BY <1>4 DEF Ahead
<1> HIDE DEF c
<1>8. CASE e # d
  BY <1>3, <1>4, <1>5, <1>7, <1>8, SamePath, MoveInOrder
<1>9. CASE e = d /\ b = Exit(d)
  <2> DEFINE far == wire[Far(d)][d]
             w == wire["ws"][d]
  <2>1. got[d] \in Seq(Nat) /\ far \in Seq(Nat) /\ Arrived(d) \in Seq(Nat) /\ w \in Seq(Nat)
    BY <1>1, PathTypes DEF Typed
  <2>2. Arrived(d)' = got[d] \o Append(far, c) /\ Arrived(d) = got[d] \o far
    BY <1>1, <1>3, <1>4, <1>9 DEF Arrived
  <2>3. Arrived(d)' = Arrived(d) \o <<c>>
    <3> DEFINE g == got[d]
    <3>1. g \in Seq(Nat) /\ far \in Seq(Nat) /\ c \in Nat
      BY <1>6, <2>1
    <3>2. Arrived(d)' = g \o Append(far, c) /\ Arrived(d) = g \o far
      BY <2>2
    <3> HIDE DEF far, g
    <3>3. g \o Append(far, c) = g \o far \o <<c>>
      BY <3>1, PutLast
    <3> QED
      BY <3>2, <3>3
  <2>4. Passed(d)' = Arrived(d) \o <<c>> \o <<>> \o w /\ Passed(d) = Arrived(d) \o <<c>> \o w
    BY <1>1, <1>3, <1>5, <1>6, <1>9, <2>3 DEF Passed
  <2>5. Passed(d)' = Passed(d)
    <3>1. Arrived(d) \o <<c>> \in Seq(Nat)
      BY <1>6, <2>1, ConcatProperties
    <3> QED
      BY <2>4, <3>1, ConcatEmptySeq
  <2>6. Entered(d)' = Entered(d)
    BY <1>1, <1>3, <1>5, <1>7, <1>9, <2>5 DEF Entered
  <2>7. Open(Far(d), d)
    BY <1>1, <1>9
  <2> QED
    BY <1>3, <1>4, <1>9, <2>5, <2>6, <2>7, MoveInOrder
<1>10. CASE e = d /\ b = Entry(d)
  <2> DEFINE w == wire["ws"][d]
             n == wire[Near(d)][d]
             s == Arrived(d) \o Held(Exit(d), d)
             a == Ahead(d)
  <2>1. /\ w \in Seq(Nat) /\ n \in Seq(Nat) /\ a \in Seq(Nat)
        /\ s \in Seq(Nat) /\ Passed(d) \in Seq(Nat)
    BY <1>1, PathTypes, ConcatProperties DEF Typed
  <2>2. Arrived(d)' = Arrived(d)
    BY <1>1, <1>3, <1>4, <1>10 DEF Arrived
  <2>3. Passed(d)' = s \o Append(w, c) /\ Passed(d) = s \o w
    BY <1>1, <1>3, <1>5, <1>10, <2>2 DEF Passed
  <2>4. Passed(d)' = Passed(d) \o <<c>>
    <3> HIDE DEF s, w
    <3> QED
      BY <1>6, <2>1, <2>3, PutLast
  <2>5. /\ Entered(d)' = Passed(d) \o <<c>> \o <<>> \o a \o n
        /\ Entered(d) = Passed(d) \o <<c>> \o a \o n
    BY <1>1, <1>3, <1>5, <1>6, <1>7, <1>10, <2>4 DEF Entered
  <2>6. Entered(d)' = Entered(d)
    <3>1. Passed(d) \o <<c>> \in Seq(Nat)
      BY <1>6, <2>1, ConcatProperties
    <3> QED
      BY <2>5, <3>1, ConcatEmptySeq
  <2>7. Open("ws", d)
    BY <1>1, <1>10
  <2> QED
    BY <1>3, <1>4, <1>10, <2>2, <2>6, <2>7, MoveInOrder
<1> QED
  BY <1>1, <1>8, <1>9, <1>10

LEMMA ReadRequestInOrder ==
    ASSUME Shape, Phases, ReadRequest, NEW e \in Directions, InOrder(e)
    PROVE  InOrder(e)' /\ Entered(e)' = Entered(e)
<1> DEFINE near == wire["local"]["up"]
<1>1. PICK n \in 0..Len(near) :
        /\ prefix' = SubSeq(near, 1, n)
        /\ \A j \in Links, f \in Directions :
             wire'[j][f] = IF j = "local" /\ f = "up" THEN SubSeq(near, n + 1, Len(near))
                           ELSE wire[j][f]
  BY ReadRequestEffect
<1>2. Shape' /\ prefix = <<>> /\ UNCHANGED <<fin, deaf, pump, sent, got>>
  BY ReadRequestEffect DEF Phases
<1>3. \A b \in Bridges : Held(b, e)' = Held(b, e)
  BY <1>2 DEF Held
<1>4. CASE e # "up"
  <2>1. Ahead(e)' = Ahead(e)
    BY <1>4 DEF Ahead
  <2> QED
    BY <1>1, <1>2, <1>3, <1>4, <2>1, SamePath, MoveInOrder
<1>5. CASE e = "up"
  <2>1. /\ Near(e) = "local" /\ Near(e) \in Links /\ Far(e) \in Links /\ "ws" \in Links
        /\ Far(e) # "local" /\ Entry(e) \in Bridges /\ Exit(e) \in Bridges
    BY <1>5, Path DEF Near, Far
  <2>2. Arrived(e)' = Arrived(e)
    BY <1>1, <1>2, <2>1 DEF Arrived
  <2>3. Passed(e)' = Passed(e)
    BY <1>1, <1>2, <1>3, <2>1, <2>2 DEF Passed
  <2> DEFINE s == Passed(e) \o Held(Entry(e), e)
             front == SubSeq(near, 1, n)
             rest == SubSeq(near, n + 1, Len(near))
  <2>4. s \in Seq(Nat) /\ near \in Seq(Nat)
    BY <1>5, <2>1, PathTypes, ConcatProperties DEF Typed
  <2>5. Entered(e)' = s \o front \o rest /\ Entered(e) = s \o <<>> \o near
    BY <1>1, <1>2, <1>3, <1>5, <2>1, <2>3 DEF Entered, Ahead
  <2> HIDE DEF s, near
  <2>6. front \in Seq(Nat) /\ rest \in Seq(Nat) /\ front \o rest = near
    <3>1. Len(near) \in Nat /\ \A i \in 1..Len(near) : near[i] \in Nat
      BY <2>4, ElementOfSeq, LenProperties
    <3>2. front \in Seq(Nat) /\ rest \in Seq(Nat)
      BY <2>4, <3>1, SubSeqProperties, CutType
    <3>3. front \o rest = SubSeq(near, 1, Len(near))
      <4>1. 1 \in 1..Len(near) + 1 /\ n \in (1 - 1)..Len(near) /\ Len(near) \in n..Len(near)
        BY <3>1
      <4> QED
        BY <2>4, <4>1, ConcatAdjacentSubSeq
    <3> QED
      BY <2>4, <3>2, <3>3, SubSeqFull
  <2> HIDE DEF front, rest
  <2>7. s \o front \o rest = s \o (front \o rest) /\ s \o <<>> = s
    <3>1. s \in Seq(Nat) /\ front \in Seq(Nat) /\ rest \in Seq(Nat)
      BY <2>4, <2>6
    <3>2. s \o front \o rest = s \o (front \o rest)
      BY <3>1, ConcatAssociative
    <3> QED
      BY <3>1, <3>2, ConcatEmptySeq
  <2>8. Entered(e)' = Entered(e)
    BY <2>5, <2>6, <2>7
  <2> QED
    BY <1>2, <2>2, <2>3, <2>8, MoveInOrder
<1> QED
  BY <1>4, <1>5

----------------------------------------------------------------------------
(* Only what was sent is on the path.                                      *)

LEMMA SoundCut ==
    ASSUME Shape, Shape', Loses, NEW d \in Directions, Sound(d)
    PROVE  Sound(d)'
<1>1. sent[d] \in Nat /\ sent'[d] \in Nat /\ sent[d] <= sent'[d] /\ sent'[d] <= MaxSend[d]
  <2>1. sent[d] \in Nat /\ sent'[d] \in Nat /\ MaxSend[d] \in Nat /\ sent[d] <= MaxSend[d]
    BY BoundsAreNatural DEF Shape, Sound
  <2>2. sent'[d] = sent[d] \/ (sent'[d] = sent[d] + 1 /\ sent[d] < MaxSend[d])
    BY DEF Loses
  <2> QED
    BY <2>1, <2>2
<1> DEFINE S == 1..sent[d]
           T == 1..sent'[d]
<1>2. S \subseteq T
  BY <1>1
<1> HIDE DEF S, T
<1>3. \A s \in Seq(S) : s \in Seq(T)
  BY <1>2, SeqMonotonic
<1>4. got'[d] \in Seq(T) /\ Ahead(d)' \in Seq(T)
  <2>1. got[d] \in Seq(S) /\ Ahead(d) \in Seq(S) /\ got'[d] = got[d] /\ Ahead(d)' = Ahead(d)
    BY DEF Sound, Loses, Ahead, S
  <2> QED
    BY <1>3, <2>1
<1>5. ASSUME NEW k \in Links
      PROVE  wire'[k][d] \in Seq(T) /\ Len(wire'[k][d]) <= Capacity
  <2>1. wire[k][d] \in Seq(S) /\ Len(wire[k][d]) <= Capacity /\ Len(wire[k][d]) \in Nat
    BY LenProperties DEF Sound, S
  <2>2. PICK n \in 0..Len(wire[k][d]) : wire'[k][d] = SubSeq(wire[k][d], 1, n)
    BY DEF Loses, Cut
  <2>3. wire'[k][d] \in Seq(S) /\ Len(wire'[k][d]) = n
    BY <2>1, <2>2, CutType
  <2> QED
    BY <1>3, <2>1, <2>3, BoundsAreNatural
<1>6. ASSUME NEW b \in Bridges
      PROVE  Held(b, d)' \in Seq(T)
  <2>1. Held(b, d) \in Seq(S) /\ <<>> \in Seq(S)
    BY EmptySeq DEF Sound, S
  <2>2. Held(b, d)' = Held(b, d) \/ Held(b, d)' = <<>>
    BY DEF Loses
  <2> QED
    BY <1>3, <2>1, <2>2
<1> QED
  BY <1>1, <1>4, <1>5, <1>6 DEF Sound, T

LEMMA SendsSound ==
    ASSUME Shape, NEW d \in Directions, Sends(d), ~deaf[Near(d)][d],
           NEW e \in Directions, Sound(e)
    PROVE  Sound(e)'
<1> DEFINE c == sent[d] + 1
<1>1. /\ Shape' /\ sent[d] < MaxSend[d] /\ Len(wire[Near(d)][d]) < Capacity
      /\ sent'[d] = c /\ \A f \in Directions : f # d => sent'[f] = sent[f]
      /\ \A k \in Links, f \in Directions :
           wire'[k][f] = IF k = Near(d) /\ f = d THEN Append(wire[k][f], c) ELSE wire[k][f]
      /\ UNCHANGED <<prefix, pump, got>>
  BY SendsEffect
<1>2. Ahead(e)' = Ahead(e) /\ \A b \in Bridges : Held(b, e)' = Held(b, e)
  BY <1>1 DEF Ahead, Held
<1>3. CASE e # d
  BY <1>1, <1>2, <1>3 DEF Sound
<1>4. CASE e = d
  <2>1. sent[d] \in Nat /\ sent'[d] <= MaxSend[d] /\ c \in 1..sent'[d]
    BY <1>1, BoundsAreNatural DEF Shape
  <2> DEFINE S == 1..sent[d]
             T == 1..sent'[d]
  <2>2. S \subseteq T /\ c \in T
    BY <1>1, <2>1
  <2> HIDE DEF S, T, c
  <2>3. \A s \in Seq(S) : s \in Seq(T)
    BY <2>2, SeqMonotonic
  <2>4. got'[d] \in Seq(T) /\ Ahead(d)' \in Seq(T) /\ \A b \in Bridges : Held(b, d)' \in Seq(T)
    BY <1>1, <1>2, <1>4, <2>3 DEF Sound, S
  <2>5. ASSUME NEW k \in Links
        PROVE  wire'[k][d] \in Seq(T) /\ Len(wire'[k][d]) <= Capacity
    <3>1. wire[k][d] \in Seq(T) /\ Len(wire[k][d]) <= Capacity /\ Len(wire[k][d]) \in Nat
      BY <1>4, <2>3, LenProperties DEF Sound, S
    <3>2. Append(wire[k][d], c) \in Seq(T) /\ Len(Append(wire[k][d], c)) = Len(wire[k][d]) + 1
      BY <2>2, <3>1, AppendProperties
    <3>3. CASE k = Near(d)
      <4>1. Len(Append(wire[k][d], c)) <= Capacity
        <5>1. Len(wire[k][d]) < Capacity
          BY <1>1, <3>3
        <5> QED
          BY <3>1, <3>2, <5>1, BoundsAreNatural
      <4>2. wire'[k][d] = Append(wire[k][d], c)
        BY <1>1, <3>3
      <4> QED
        BY <3>2, <4>1, <4>2
    <3>4. CASE k # Near(d)
      BY <1>1, <3>1, <3>4
    <3> QED
      BY <3>3, <3>4
  <2> QED
    BY <1>4, <2>1, <2>4, <2>5 DEF Sound, T
<1> QED
  BY <1>3, <1>4

\* A chunk is taken from the head of one part of the path, and goes to another.
LEMMA HeadTail ==
    ASSUME NEW S, NEW s \in Seq(S), s # <<>>
    PROVE  /\ Head(s) \in S /\ Tail(s) \in Seq(S) /\ <<Head(s)>> \in Seq(S)
           /\ Len(Tail(s)) <= Len(s) /\ Len(s) \in Nat
<1>1. Head(s) \in S /\ Tail(s) \in Seq(S) /\ Len(Tail(s)) = Len(s) - 1 /\ Len(s) \in Nat
  BY HeadTailProperties, LenProperties
<1> QED
  BY <1>1

LEMMA ReceivesSound ==
    ASSUME Shape, NEW d \in Directions, Receives(d), NEW e \in Directions, Sound(e)
    PROVE  Sound(e)'
<1> DEFINE far == wire[Far(d)][d]
<1>1. /\ Shape' /\ far # <<>>
      /\ got'[d] = Append(got[d], Head(far)) /\ \A f \in Directions : f # d => got'[f] = got[f]
      /\ \A k \in Links, f \in Directions :
           wire'[k][f] = IF k = Far(d) /\ f = d THEN Tail(far) ELSE wire[k][f]
      /\ UNCHANGED <<prefix, pump, sent>>
  BY ReceivesEffect
<1>2. Ahead(e)' = Ahead(e) /\ \A b \in Bridges : Held(b, e)' = Held(b, e)
  BY <1>1 DEF Ahead, Held
<1>3. CASE e # d
  BY <1>1, <1>2, <1>3 DEF Sound
<1>4. CASE e = d
  <2> DEFINE S == 1..sent[d]
  <2>1. Far(d) \in Links
    BY Path
  <2>2. got[d] \in Seq(S) /\ far \in Seq(S) /\ Len(far) <= Capacity
    BY <1>4, <2>1 DEF Sound
  <2> HIDE DEF S
  <2>3. Head(far) \in S /\ Tail(far) \in Seq(S) /\ Len(Tail(far)) <= Len(far) /\ Len(far) \in Nat
    BY <1>1, <2>2, HeadTail
  <2>4. Append(got[d], Head(far)) \in Seq(S)
    BY <2>2, <2>3, AppendProperties
  <2>5. Len(Tail(far)) <= Capacity
    BY <2>2, <2>3, LenProperties, BoundsAreNatural
  <2> QED
    BY <1>1, <1>2, <1>4, <2>3, <2>4, <2>5 DEF Sound, S
<1> QED
  BY <1>3, <1>4

LEMMA ReadSound ==
    ASSUME Shape, NEW b \in Bridges, NEW d \in Directions, Read(b, d),
           NEW e \in Directions, Sound(e)
    PROVE  Sound(e)'
<1> DEFINE k == From(b, d)
           chunk == Head(wire[k][d])
<1>1. k \in Links
  BY BridgeEnds
<1>2. PICK last \in BOOLEAN :
        \A c \in Bridges, f \in Directions :
          pump'[c][f] = IF c = b /\ f = d THEN Hold(chunk, last) ELSE pump[c][f]
  BY ReadEffect
<1>3. /\ Shape' /\ wire[k][d] # <<>>
      /\ \A j \in Links, f \in Directions :
           wire'[j][f] = IF j = k /\ f = d THEN Tail(wire[k][d]) ELSE wire[j][f]
      /\ UNCHANGED <<prefix, sent, got>>
  BY ReadEffect
<1>4. Held(b, d)' = <<chunk>>
      /\ \A c \in Bridges, f \in Directions : c # b \/ f # d => Held(c, f)' = Held(c, f)
  BY <1>2 DEF Held, Hold
<1>5. Ahead(e)' = Ahead(e)
  BY <1>3 DEF Ahead
<1>6. CASE e # d
  BY <1>3, <1>4, <1>5, <1>6 DEF Sound
<1>7. CASE e = d
  <2> DEFINE S == 1..sent[d]
             s == wire[k][d]
  <2>1. s \in Seq(S) /\ Len(s) <= Capacity /\ s # <<>>
    BY <1>1, <1>3, <1>7 DEF Sound
  <2> HIDE DEF S
  <2>2. /\ <<Head(s)>> \in Seq(S) /\ Tail(s) \in Seq(S) /\ Len(Tail(s)) <= Len(s)
        /\ Len(s) \in Nat
    BY <2>1, HeadTail
  <2>3. Len(Tail(s)) <= Capacity
    BY <2>1, <2>2, LenProperties, BoundsAreNatural
  <2>4. \A c \in Bridges : Held(c, d)' \in Seq(S)
    BY <1>4, <1>7, <2>2 DEF Sound, S
  <2>5. \A j \in Links : wire'[j][d] \in Seq(S) /\ Len(wire'[j][d]) <= Capacity
    BY <1>3, <1>7, <2>2, <2>3 DEF Sound, S
  <2> QED
    BY <1>3, <1>5, <1>7, <2>4, <2>5 DEF Sound, S
<1> QED
  BY <1>6, <1>7

LEMMA ReadPrefixSound ==
    ASSUME Shape, NEW b \in Bridges, NEW d \in Directions, ReadPrefix(b, d),
           NEW e \in Directions, Sound(e)
    PROVE  Sound(e)'
<1>1. /\ Shape' /\ d = "up" /\ prefix # <<>> /\ prefix' = Tail(prefix)
      /\ \A c \in Bridges, f \in Directions :
           pump'[c][f] = IF c = b /\ f = d THEN Hold(Head(prefix), FALSE) ELSE pump[c][f]
      /\ UNCHANGED <<wire, sent, got>>
  BY ReadPrefixEffect
<1>2. Held(b, d)' = <<Head(prefix)>>
      /\ \A c \in Bridges, f \in Directions : c # b \/ f # d => Held(c, f)' = Held(c, f)
  BY <1>1 DEF Held, Hold
<1>3. CASE e # d
  <2>1. Ahead(e)' = Ahead(e)
    BY <1>1, <1>3 DEF Ahead
  <2> QED
    BY <1>1, <1>2, <1>3, <2>1 DEF Sound
<1>4. CASE e = d
  <2> DEFINE S == 1..sent[d]
  <2>1. prefix \in Seq(S)
    BY <1>1, <1>4 DEF Sound, Ahead
  <2> HIDE DEF S
  <2>2. <<Head(prefix)>> \in Seq(S) /\ Tail(prefix) \in Seq(S)
    BY <1>1, <2>1, HeadTail
  <2>3. \A c \in Bridges : Held(c, d)' \in Seq(S)
    BY <1>2, <1>4, <2>2 DEF Sound, S
  <2>4. Ahead(d)' \in Seq(S)
    BY <1>1, <2>2 DEF Ahead
  <2> QED
    BY <1>1, <1>4, <2>3, <2>4 DEF Sound, S
<1> QED
  BY <1>3, <1>4

LEMMA WriteSound ==
    ASSUME Shape, NEW b \in Bridges, NEW d \in Directions, Pumps(b, d), Write(b, d),
           Open(To(b, d), d), NEW e \in Directions, Sound(e)
    PROVE  Sound(e)'
<1> DEFINE k == To(b, d)
           c == Held(b, d)[1]
<1>1. Len(Held(b, d)) = 1 /\ k \in Links
  BY BridgeEnds DEF Write, Pumps
<1>2. PICK next \in {At("fail"), At(IF pump[b][d].last THEN "fail" ELSE "read")} :
        /\ \A a \in Bridges, f \in Directions :
             pump'[a][f] = IF a = b /\ f = d THEN next ELSE pump[a][f]
        /\ Len(wire[k][d]) < Capacity
        /\ \A j \in Links, f \in Directions :
             wire'[j][f] = IF j = k /\ f = d THEN Append(wire[k][d], c) ELSE wire[j][f]
  BY <1>1, WriteEffect
<1>3. Shape' /\ UNCHANGED <<prefix, sent, got>>
  BY <1>1, WriteEffect
<1>4. \A a \in Bridges, f \in Directions :
        Held(a, f)' = IF a = b /\ f = d THEN <<>> ELSE Held(a, f)
  BY <1>2 DEF Held, At
<1>5. Ahead(e)' = Ahead(e)
  BY <1>3 DEF Ahead
<1>6. CASE e # d
  BY <1>2, <1>3, <1>4, <1>5, <1>6 DEF Sound
<1>7. CASE e = d
  <2> DEFINE S == 1..sent[d]
             s == wire[k][d]
  <2>1. s \in Seq(S) /\ Held(b, d) \in Seq(S)
    BY <1>1, <1>7 DEF Sound
  <2> HIDE DEF S
  <2>2. c \in S
    <3>1. 1 \in 1..Len(Held(b, d))
      BY <1>1
    <3> QED
      BY <2>1, <3>1, ElementOfSeq
  <2> HIDE DEF c
  <2>3. Append(s, c) \in Seq(S) /\ Len(Append(s, c)) = Len(s) + 1 /\ Len(s) \in Nat
    BY <2>1, <2>2, AppendProperties, LenProperties
  <2>4. Len(Append(s, c)) <= Capacity
    BY <1>2, <2>3, BoundsAreNatural
  <2>5. \A a \in Bridges : Held(a, d)' \in Seq(S)
    BY <1>4, <1>7, EmptySeq DEF Sound, S
  <2>6. \A j \in Links : wire'[j][d] \in Seq(S) /\ Len(wire'[j][d]) <= Capacity
    BY <1>2, <1>7, <2>3, <2>4 DEF Sound, S
  <2> QED
    BY <1>3, <1>5, <1>7, <2>5, <2>6 DEF Sound, S
<1> QED
  BY <1>6, <1>7

LEMMA ReadRequestSound ==
    ASSUME Shape, ReadRequest, NEW e \in Directions, Sound(e)
    PROVE  Sound(e)'
<1> DEFINE near == wire["local"]["up"]
<1>1. PICK n \in 0..Len(near) :
        /\ prefix' = SubSeq(near, 1, n)
        /\ \A j \in Links, f \in Directions :
             wire'[j][f] = IF j = "local" /\ f = "up" THEN SubSeq(near, n + 1, Len(near))
                           ELSE wire[j][f]
  BY ReadRequestEffect
<1>2. Shape' /\ UNCHANGED <<pump, sent, got>>
  BY ReadRequestEffect
<1>3. \A b \in Bridges : Held(b, e)' = Held(b, e)
  BY <1>2 DEF Held
<1>4. CASE e # "up"
  BY <1>1, <1>2, <1>3, <1>4 DEF Sound, Ahead
<1>5. CASE e = "up"
  <2> DEFINE S == 1..sent["up"]
  <2>1. near \in Seq(S) /\ Len(near) <= Capacity
    BY <1>5 DEF Sound, Links
  <2> HIDE DEF S, near
  <2>2. Len(near) \in Nat /\ \A i \in 1..Len(near) : near[i] \in S
    BY <2>1, ElementOfSeq, LenProperties
  <2> DEFINE rest == SubSeq(near, n + 1, Len(near))
  <2>3. SubSeq(near, 1, n) \in Seq(S)
    BY <2>1, CutType
  <2>4. rest \in Seq(S) /\ Len(rest) = Len(near) - n
    BY <2>1, <2>2, SubSeqProperties
  <2>5. Len(rest) <= Capacity
    BY <2>1, <2>2, <2>4, BoundsAreNatural
  <2> HIDE DEF rest
  <2>6. \A j \in Links : wire'[j]["up"] \in Seq(S) /\ Len(wire'[j]["up"]) <= Capacity
    BY <1>1, <1>5, <2>4, <2>5 DEF Sound, S, rest
  <2>7. Ahead("up")' \in Seq(S)
    BY <1>1, <2>3 DEF Ahead
  <2> QED
    BY <1>2, <1>3, <1>5, <2>6, <2>7 DEF Sound, S
<1> QED
  BY <1>4, <1>5

----------------------------------------------------------------------------
(* Pumps and phases.                                                       *)

LEMMA PumpMoves ==
    ASSUME NEW b \in Bridges, NEW d \in Directions, Pumps(b, d),
           UNCHANGED phase, pump[b][d].at # "off",
           NEW next, next.at # "off",
           IF next.at = "write" THEN Len(next.held) = 1 ELSE next.held = <<>>,
           \A c \in Bridges, f \in Directions :
               pump'[c][f] = IF c = b /\ f = d THEN next ELSE pump[c][f],
           NEW c \in Bridges, NEW f \in Directions, Pumps(c, f)
    PROVE  Pumps(c, f)'
<1>1. CASE c = b /\ f = d
  <2>1. pump'[c][f] = next
    BY <1>1
  <2>2. phase'[c] \notin {"none", "request", "dial"}
    BY <1>1 DEF Pumps
  <2> QED
    BY <2>1, <2>2 DEF Pumps, Held
<1>2. CASE ~(c = b /\ f = d)
  <2>1. pump'[c][f] = pump[c][f]
    BY <1>2
  <2> QED
    BY <2>1 DEF Pumps, Held
<1> QED
  BY <1>1, <1>2

LEMMA PumpStepPumps ==
    ASSUME Shape, Phases, NEW b \in Bridges, NEW d \in Directions, PumpStep(b, d), Pumps(b, d),
           NEW c \in Bridges, NEW f \in Directions, Pumps(c, f)
    PROVE  Pumps(c, f)' /\ Phases'
<1>1. \A label \in {"read", "fail", "done"} : At(label).at = label /\ At(label).held = <<>>
  BY DEF At
<1>2. \A chunk, last : Hold(chunk, last).at = "write" /\ Len(Hold(chunk, last).held) = 1
  BY DEF Hold
<1>3. CASE ReadPrefix(b, d)
  <2> DEFINE next == Hold(Head(prefix), FALSE)
  <2>1. /\ pump[b][d].at = "read" /\ UNCHANGED phase
        /\ \A a \in Bridges, e \in Directions :
             pump'[a][e] = IF a = b /\ e = d THEN next ELSE pump[a][e]
    BY <1>3, ReadPrefixEffect
  <2>2. next.at = "write" /\ Len(next.held) = 1
    BY <1>2
  <2> HIDE DEF next
  <2>3. Pumps(c, f)'
    BY <2>1, <2>2, PumpMoves
  <2>4. b = "client" /\ d = "up"
    BY <1>3 DEF ReadPrefix, TakesPrefix
  <2>5. Phases'
    BY <2>1, <2>4 DEF Phases, Pumps
  <2> QED
    BY <2>3, <2>5
<1>4. CASE Read(b, d)
  <2> DEFINE chunk == Head(wire[From(b, d)][d])
  <2>1. PICK last \in BOOLEAN : \A a \in Bridges, e \in Directions :
          pump'[a][e] = IF a = b /\ e = d THEN Hold(chunk, last) ELSE pump[a][e]
    BY <1>4, ReadEffect
  <2>2. pump[b][d].at = "read" /\ UNCHANGED <<phase, prefix>>
    BY <1>4, ReadEffect
  <2> DEFINE next == Hold(chunk, last)
  <2>3. next.at = "write" /\ Len(next.held) = 1
    BY <1>2
  <2>4. \A a \in Bridges, e \in Directions :
          pump'[a][e] = IF a = b /\ e = d THEN next ELSE pump[a][e]
    BY <2>1
  <2> HIDE DEF next
  <2>5. Pumps(c, f)'
    BY <2>2, <2>3, <2>4, PumpMoves
  <2> QED
    BY <2>2, <2>5 DEF Phases
<1>5. CASE ReadFails(b, d) \/ Write(b, d) \/ PumpEnds(b, d)
  <2>1. PICK label \in {"read", "fail", "done"} : \A a \in Bridges, e \in Directions :
          pump'[a][e] = IF a = b /\ e = d THEN At(label) ELSE pump[a][e]
    <3>1. CASE Write(b, d)
      <4>1. Len(Held(b, d)) = 1
        BY <3>1 DEF Write, Pumps
      <4>2. PICK next \in {At("fail"), At(IF pump[b][d].last THEN "fail" ELSE "read")} :
              \A a \in Bridges, e \in Directions :
                pump'[a][e] = IF a = b /\ e = d THEN next ELSE pump[a][e]
        BY <3>1, <4>1, WriteEffect
      <4>3. \E label \in {"read", "fail", "done"} : next = At(label)
        BY <4>2
      <4> QED
        BY <4>2, <4>3
    <3> QED
      BY <1>5, <3>1, ReadFailsEffect, PumpEndsEffect
  <2>2. pump[b][d].at \in {"read", "write", "fail"} /\ UNCHANGED <<phase, prefix>>
    BY <1>5 DEF ReadFails, Write, PumpEnds, mainVars
  <2> DEFINE next == At(label)
  <2>3. next.at # "off" /\ next.at # "write" /\ next.held = <<>>
    BY <1>1
  <2>4. \A a \in Bridges, e \in Directions :
          pump'[a][e] = IF a = b /\ e = d THEN next ELSE pump[a][e]
    BY <2>1
  <2> HIDE DEF next
  <2>5. Pumps(c, f)'
    BY <2>2, <2>3, <2>4, PumpMoves
  <2> QED
    BY <2>2, <2>5 DEF Phases
<1> QED
  BY <1>3, <1>4, <1>5 DEF PumpStep

LEMMA DialsPumps ==
    ASSUME Shape, Phases, ClientDials \/ BackendDials, NEW c \in Bridges, NEW f \in Directions, Pumps(c, f)
    PROVE  Pumps(c, f)' /\ Phases' /\ Held(c, f)' = Held(c, f)
<1>1. PICK b \in Bridges :
        /\ phase[b] = "dial" /\ phase'[b] = "bridge"
        /\ b = "client" => phase'["backend"] = "dial"
        /\ b = "backend" => phase'["client"] = phase["client"]
        /\ \A a \in Bridges, e \in Directions :
             pump'[a][e] = IF a = b THEN [pump[b][e] EXCEPT !.at = "read"] ELSE pump[a][e]
        /\ UNCHANGED prefix
  BY DialsEffect
<1>2. pump[c][f] \in PumpState
  BY DEF Shape, PumpShape
<1>3. CASE c = b
  <2>1. pump'[c][f].at = "read" /\ pump'[c][f].held = pump[c][f].held /\ pump[c][f].at = "off"
    BY <1>1, <1>2, <1>3 DEF PumpState, Pumps
  <2> QED
    BY <1>1, <1>3, <2>1 DEF Pumps, Phases, Held, Bridges
<1>4. CASE c # b
  <2>1. phase[c] = "none" \/ phase'[c] = phase[c]
    BY <1>1, <1>4 DEF Phases, Bridges
  <2>2. pump'[c][f] = pump[c][f]
    BY <1>1, <1>4
  <2> QED
    BY <1>1, <1>4, <2>1, <2>2 DEF Pumps, Phases, Held, Bridges
<1> QED
  BY <1>3, <1>4

LEMMA StillPumps ==
    ASSUME Shape, Phases, UNCHANGED pump, NEW c \in Bridges, NEW f \in Directions, Pumps(c, f),
           \/ UNCHANGED <<phase, prefix>>
           \/ ReadRequest
           \/ \E b \in Bridges : DialFails(b) \/ CloseFirst(b) \/ CloseSecond(b)
    PROVE  Pumps(c, f)' /\ Phases'
<1>1. CASE UNCHANGED <<phase, prefix>>
  BY <1>1 DEF Pumps, Phases, Held
<1>2. CASE ReadRequest
  <2>1. phase["client"] = "request" /\ phase'["client"] = "dial" /\ phase'["backend"] = phase["backend"]
    BY <1>2, ReadRequestEffect
  <2> QED
    BY <2>1 DEF Pumps, Phases, Held, Bridges
<1>3. ASSUME NEW b \in Bridges, DialFails(b) \/ CloseFirst(b) \/ CloseSecond(b)
      PROVE  Pumps(c, f)' /\ Phases'
  <2>1. /\ phase'[b] \in {"closing", "closed"} /\ phase[b] # "none"
        /\ \A a \in Bridges : a # b => phase'[a] = phase[a]
        /\ UNCHANGED prefix
    BY <1>3, CloseEffect
  <2> QED
    BY <2>1 DEF Pumps, Phases, Held, Bridges
<1> QED
  BY <1>1, <1>2, <1>3

----------------------------------------------------------------------------
(* PathInv is inductive.                                                   *)

LEMMA PathInvInit == Init => PathInv
<1> SUFFICES ASSUME Init PROVE PathInv
  OBVIOUS
<1>1. Shape
  BY InitShape
<1>2. Phases
  BY DEF Init, Phases
<1>3. ASSUME NEW d \in Directions
      PROVE  Sound(d) /\ InOrder(d) /\ \A b \in Bridges : Pumps(b, d)
  <2>1. /\ got[d] = <<>> /\ sent[d] = 0 /\ Ahead(d) = <<>>
        /\ \A k \in Links : wire[k][d] = <<>>
        /\ \A b \in Bridges : Held(b, d) = <<>> /\ pump[b][d].at = "off"
    BY <1>3 DEF Init, ForEach, Ahead, Held
  <2>2. <<>> \in Seq(1..0) /\ Len(<<>>) = 0 /\ <<>> \o <<>> = <<>>
    BY EmptySeq, ConcatEmptySeq
  <2>3. Sound(d)
    <3>1. <<>> \in Seq(1..sent[d]) /\ sent[d] <= MaxSend[d] /\ Len(<<>>) <= Capacity
      BY <2>1, <2>2, EmptySeq, BoundsAreNatural
    <3> QED
      BY <2>1, <3>1 DEF Sound
  <2>4. Arrived(d) = <<>> /\ Passed(d) = <<>> /\ Entered(d) = <<>>
    <3>1. /\ Near(d) \in Links /\ Far(d) \in Links /\ "ws" \in Links
          /\ Entry(d) \in Bridges /\ Exit(d) \in Bridges
      BY Path
    <3>2. Arrived(d) = <<>>
      BY <2>1, <2>2, <3>1 DEF Arrived
    <3>3. Passed(d) = <<>>
      BY <2>1, <2>2, <3>1, <3>2 DEF Passed
    <3> QED
      BY <2>1, <2>2, <3>1, <3>2, <3>3 DEF Entered
  <2>5. InOrder(d)
    BY <2>1, <2>2, <2>4 DEF InOrder, Counts
  <2> QED
    BY <2>1, <2>3, <2>5 DEF Pumps
<1> QED
  BY <1>1, <1>2, <1>3 DEF PathInv

\* The steps that move no chunk.
Quiet ==
    \/ \E d \in Directions : Sends(d) /\ deaf[Near(d)][d]
    \/ \E d \in Directions : HalfCloses(d) \/ Closes(d) \/ Breaks
    \/ \E b \in Bridges, d \in Directions :
         ReadFails(b, d) \/ (Write(b, d) /\ ~Open(To(b, d), d)) \/ PumpEnds(b, d)
    \/ \E b \in Bridges : DialFails(b) \/ CloseFirst(b) \/ CloseSecond(b)
    \/ ClientDials \/ BackendDials
    \/ UNCHANGED vars

LEMMA QuietLoses ==
    ASSUME PathInv, Quiet
    PROVE  Shape' /\ Loses
<1>1. Shape /\ Phases /\ LinkShape /\ \A b \in Bridges, d \in Directions : Pumps(b, d)
  BY DEF PathInv, Shape
<1>2. ASSUME Cut, UNCHANGED <<got, prefix, sent>>,
             \A b \in Bridges, d \in Directions : Held(b, d)' = Held(b, d)
      PROVE  Loses
  BY <1>2 DEF Loses
<1>3. UNCHANGED pump => \A b \in Bridges, d \in Directions : Held(b, d)' = Held(b, d)
  BY DEF Held
<1>4. ASSUME NEW d \in Directions, Sends(d), deaf[Near(d)][d]
      PROVE  Shape' /\ Loses
  <2>1. /\ Shape' /\ Cut /\ UNCHANGED <<got, prefix, pump>> /\ sent[d] < MaxSend[d]
        /\ sent'[d] = sent[d] + 1 /\ \A e \in Directions : e # d => sent'[e] = sent[e]
    BY <1>1, <1>4, SendsEffect DEF Intact
  <2> QED
    BY <1>3, <1>4, <2>1 DEF Loses, Intact
<1>5. ASSUME NEW d \in Directions, HalfCloses(d) \/ Closes(d) \/ Breaks
      PROVE  Shape' /\ Loses
  BY <1>1, <1>2, <1>3, <1>5, EndEffect
<1>6. ASSUME NEW b \in Bridges, NEW d \in Directions, ReadFails(b, d) \/ PumpEnds(b, d)
      PROVE  Shape' /\ Loses
  <2>1. PICK next \in {At("fail"), At("done")} :
          /\ \A c \in Bridges, e \in Directions :
               pump'[c][e] = IF c = b /\ e = d THEN next ELSE pump[c][e]
          /\ pump[b][d].at # "write"
    BY <1>1, <1>6, ReadFailsEffect, PumpEndsEffect
  <2>2. Shape' /\ UNCHANGED <<linkVars, got, prefix, sent>>
    BY <1>1, <1>6, ReadFailsEffect, PumpEndsEffect DEF linkVars
  <2>3. next.held = <<>>
    BY DEF At
  <2>4. \A c \in Bridges, e \in Directions : Held(c, e)' = Held(c, e)
    BY <1>1, <2>1, <2>3 DEF Held, Pumps
  <2>5. Cut
    BY <1>1, <2>2, NoCut
  <2> QED
    BY <1>2, <2>2, <2>4, <2>5
<1>7. ASSUME NEW b \in Bridges, NEW d \in Directions, Write(b, d), ~Open(To(b, d), d)
      PROVE  Shape' /\ Loses
  BY <1>1, <1>7, LossyWrite
<1>8. ASSUME NEW b \in Bridges, DialFails(b) \/ CloseFirst(b) \/ CloseSecond(b)
      PROVE  Shape' /\ Loses
  BY <1>1, <1>2, <1>3, <1>8, CloseEffect
<1>9. ASSUME ClientDials \/ BackendDials
      PROVE  Shape' /\ Loses
  <2>1. Shape' /\ UNCHANGED <<linkVars, got, prefix, sent>>
    BY <1>1, <1>9, DialsEffect DEF linkVars
  <2>2. \A b \in Bridges, d \in Directions : Held(b, d)' = Held(b, d)
    BY <1>1, <1>9, DialsPumps
  <2>3. Cut
    BY <1>1, <2>1, NoCut
  <2> QED
    BY <1>2, <2>1, <2>2, <2>3
<1>10. ASSUME UNCHANGED vars
       PROVE  Shape' /\ Loses
  <2>1. UNCHANGED <<phase, prefix, linkVars, wire, fin, deaf, pump, errc, sent, got, ended>>
    BY <1>10 DEF vars, mainVars, linkVars, endVars
  <2>2. Shape'
    BY <1>1, <2>1 DEF Shape, LinkShape, PumpShape
  <2>3. Cut
    BY <1>1, <2>1, NoCut
  <2> QED
    BY <1>2, <1>3, <2>1, <2>2, <2>3
<1> QED
  BY <1>4, <1>5, <1>6, <1>7, <1>8, <1>9, <1>10 DEF Quiet

\* Every step moves at most one chunk.
LEMMA Steps ==
    ASSUME [Next]_vars
    PROVE  \/ Quiet
           \/ \E d \in Directions : Sends(d) /\ ~deaf[Near(d)][d]
           \/ \E d \in Directions : Receives(d)
           \/ \E b \in Bridges, d \in Directions :
                ReadPrefix(b, d) \/ Read(b, d) \/ (Write(b, d) /\ Open(To(b, d), d))
           \/ ReadRequest
<1>1. CASE UNCHANGED vars
  BY <1>1 DEF Quiet
<1>2. CASE Next
  <2>1. "up" \in Directions
    BY DEF Directions
  <2>2. CASE \E d \in Directions : Sends(d) \/ Receives(d) \/ HalfCloses(d) \/ Closes(d)
    BY <2>2 DEF Quiet
  <2>3. CASE Breaks
    BY <2>1, <2>3 DEF Quiet
  <2>4. CASE \E b \in Bridges : \E d \in Directions : PumpStep(b, d)
    BY <2>4 DEF Quiet, PumpStep
  <2>5. CASE \E b \in Bridges : DialFails(b) \/ MainStep(b)
    BY <2>5 DEF Quiet, MainStep
  <2>6. CASE Dials
    BY <2>6 DEF Quiet, Dials
  <2> QED
    BY <1>2, <2>2, <2>3, <2>4, <2>5, <2>6 DEF Next
<1> QED
  BY <1>1, <1>2

LEMMA PumpsAndPhases ==
    ASSUME PathInv, [Next]_vars, NEW c \in Bridges, NEW f \in Directions
    PROVE  Pumps(c, f)' /\ Phases'
<1>1. Shape /\ Phases /\ Pumps(c, f) /\ \A b \in Bridges, d \in Directions : Pumps(b, d)
  BY DEF PathInv
<1>2. CASE UNCHANGED vars
  BY <1>1, <1>2, StillPumps DEF vars, mainVars
<1>3. ASSUME NEW d \in Directions, Sends(d) \/ Receives(d) \/ HalfCloses(d) \/ Closes(d) \/ Breaks
      PROVE  Pumps(c, f)' /\ Phases'
  <2>1. UNCHANGED <<pump, phase, prefix>>
    BY <1>3 DEF Sends, Receives, HalfCloses, Closes, Breaks, mainVars
  <2> QED
    BY <1>1, <2>1, StillPumps
<1>4. ASSUME NEW b \in Bridges, NEW d \in Directions, PumpStep(b, d)
      PROVE  Pumps(c, f)' /\ Phases'
  BY <1>1, <1>4, PumpStepPumps
<1>5. ASSUME NEW b \in Bridges, DialFails(b) \/ MainStep(b)
      PROVE  Pumps(c, f)' /\ Phases'
  <2>1. UNCHANGED pump
    BY <1>1, <1>5, CloseEffect DEF MainStep
  <2> QED
    BY <1>1, <1>5, <2>1, StillPumps DEF MainStep
<1>6. CASE ReadRequest
  <2>1. UNCHANGED pump
    BY <1>6 DEF ReadRequest
  <2> QED
    BY <1>1, <1>6, <2>1, StillPumps
<1>7. CASE ClientDials \/ BackendDials
  BY <1>1, <1>7, DialsPumps
<1>8. "up" \in Directions
  BY DEF Directions
<1> QED
  BY <1>2, <1>3, <1>4, <1>5, <1>6, <1>7, <1>8 DEF Next, Dials

LEMMA PathInvStep == PathInv /\ [Next]_vars => PathInv'
<1> SUFFICES ASSUME PathInv, [Next]_vars PROVE PathInv'
  OBVIOUS
<1>1. Shape /\ Phases /\ \A b \in Bridges, d \in Directions : Pumps(b, d)
  BY DEF PathInv
<1>2. Phases' /\ \A b \in Bridges, d \in Directions : Pumps(b, d)'
  <2>1. \A b \in Bridges, d \in Directions : Pumps(b, d)' /\ Phases'
    BY PumpsAndPhases
  <2> QED
    BY <2>1 DEF Bridges, Directions
<1>3. ASSUME NEW e \in Directions
      PROVE  Shape' /\ Sound(e)' /\ InOrder(e)'
  <2>1. Sound(e) /\ InOrder(e)
    BY DEF PathInv
  <2>2. CASE Quiet
    <3>1. Shape' /\ Loses
      BY <2>2, QuietLoses
    <3> QED
      BY <1>1, <2>1, <3>1, LosesInOrder, SoundCut
  <2>3. ASSUME NEW d \in Directions, Sends(d), ~deaf[Near(d)][d]
        PROVE  Shape' /\ Sound(e)' /\ InOrder(e)'
    BY <1>1, <2>1, <2>3, SendsEffect, SendsInOrder, SendsSound
  <2>4. ASSUME NEW d \in Directions, Receives(d)
        PROVE  Shape' /\ Sound(e)' /\ InOrder(e)'
    BY <1>1, <2>1, <2>4, ReceivesEffect, ReceivesInOrder, ReceivesSound
  <2>5. ASSUME NEW b \in Bridges, NEW d \in Directions, ReadPrefix(b, d)
        PROVE  Shape' /\ Sound(e)' /\ InOrder(e)'
    BY <1>1, <2>1, <2>5, ReadPrefixEffect, ReadPrefixInOrder, ReadPrefixSound
  <2>6. ASSUME NEW b \in Bridges, NEW d \in Directions, Read(b, d)
        PROVE  Shape' /\ Sound(e)' /\ InOrder(e)'
    BY <1>1, <2>1, <2>6, ReadEffect, ReadInOrder, ReadSound
  <2>7. ASSUME NEW b \in Bridges, NEW d \in Directions, Write(b, d), Open(To(b, d), d)
        PROVE  Shape' /\ Sound(e)' /\ InOrder(e)'
    <3>1. Len(Held(b, d)) = 1
      BY <1>1, <2>7 DEF Write, Pumps
    <3> QED
      BY <1>1, <2>1, <2>7, <3>1, WriteEffect, WriteInOrder, WriteSound
  <2>8. CASE ReadRequest
    BY <1>1, <2>1, <2>8, ReadRequestEffect, ReadRequestInOrder, ReadRequestSound
  <2> QED
    BY <2>2, <2>3, <2>4, <2>5, <2>6, <2>7, <2>8, Steps
<1>4. Shape'
  BY <1>3 DEF Directions
<1> QED
  BY <1>2, <1>3, <1>4 DEF PathInv

LEMMA PathAlways == Spec => []PathInv
<1>1. Init => PathInv
  BY PathInvInit
<1>2. PathInv /\ [Next]_vars => PathInv'
  BY PathInvStep
<1> QED
  BY <1>1, <1>2, PTL DEF Spec

\* The types hold: no wire ever holds more than its capacity, and errc never needs
\* more than its two places.
THEOREM TypeCorrect == Spec => []TypeOK
<1>1. PathInv => TypeOK
  <2> SUFFICES ASSUME PathInv PROVE TypeOK
    OBVIOUS
  <2>1. Shape /\ \A d \in Directions : Sound(d)
    BY DEF PathInv
  <2>2. ASSUME NEW d \in Directions
        PROVE  sent[d] \in 0..MaxSend[d] /\ \A s \in Seq(1..sent[d]) : s \in Seq(Chunk(d))
    <3>1. sent[d] \in Nat /\ sent[d] <= MaxSend[d] /\ MaxSend[d] \in Nat
      BY <2>1, BoundsAreNatural DEF Shape, Sound
    <3>2. 1..sent[d] \subseteq Chunk(d)
      BY <3>1 DEF Chunk
    <3> QED
      BY <3>1, <3>2, SeqMonotonic
  <2>3. ASSUME NEW k \in Links, NEW d \in Directions
        PROVE  /\ wire[k][d] \in Seq(Chunk(d)) /\ Len(wire[k][d]) <= Capacity
               /\ fin[k][d] \in {"none", "fin", "reset"} /\ deaf[k][d] \in BOOLEAN
    BY <2>1, <2>2 DEF Sound, Shape, LinkShape
  <2>4. prefix \in Seq(Chunk("up"))
    BY <2>1, <2>2 DEF Sound, Ahead, Directions
  <2>5. ASSUME NEW b \in Bridges, NEW d \in Directions
        PROVE  pump[b][d] \in Pump(d)
    <3>1. pump[b][d] \in PumpState
      BY <2>1 DEF Shape, PumpShape
    <3>2. pump[b][d].held \in Seq(Chunk(d))
      BY <2>1, <2>2 DEF Sound, Held
    <3> QED
      BY <3>1, <3>2 DEF PumpState, Pump
  <2>6. \A d \in Directions : sent[d] \in 0..MaxSend[d] /\ got[d] \in Seq(Chunk(d))
    BY <2>1, <2>2 DEF Sound
  <2> QED
    BY <2>1, <2>3, <2>4, <2>5, <2>6 DEF TypeOK, Shape
<1> QED
  BY <1>1, PathAlways, PTL

----------------------------------------------------------------------------
(* The bridge is a pipe.                                                   *)

\* Only the programs, a failed dial and a broken connection change what the programs see.
LEMMA InnerSteps ==
    /\ \A b \in Bridges, d \in Directions : PumpStep(b, d) => UNCHANGED endVars
    /\ \A b \in Bridges : MainStep(b) => UNCHANGED endVars
    /\ Dials => UNCHANGED endVars
<1>1. ASSUME NEW b \in Bridges, NEW d \in Directions, PumpStep(b, d)
      PROVE  UNCHANGED endVars
  <2>1. ReadPrefix(b, d) => UNCHANGED endVars
    BY DEF ReadPrefix
  <2>2. Read(b, d) => UNCHANGED endVars
    BY DEF Read
  <2>3. ReadFails(b, d) => UNCHANGED endVars
    BY DEF ReadFails
  <2>4. Write(b, d) => UNCHANGED endVars
    BY DEF Write
  <2>5. PumpEnds(b, d) => UNCHANGED endVars
    BY DEF PumpEnds
  <2> QED
    BY <1>1, <2>1, <2>2, <2>3, <2>4, <2>5 DEF PumpStep
<1>2. \A b \in Bridges : MainStep(b) => UNCHANGED endVars
  BY DEF MainStep, CloseFirst, CloseSecond
<1>3. Dials => UNCHANGED endVars
  BY DEF Dials, ReadRequest, ClientDials, BackendDials
<1> QED
  BY <1>1, <1>2, <1>3

LEMMA PipeInit == Init => P!Init
  BY DEF Init, P!Init, P!Directions, Directions

LEMMA PipeStep == PathInv /\ [Next]_vars => [P!Next]_(P!vars)
<1> SUFFICES ASSUME PathInv, [Next]_vars PROVE [P!Next]_(P!vars)
  OBVIOUS
<1>1. CASE UNCHANGED <<sent, got>>
  BY <1>1 DEF P!vars
<1>2. ASSUME NEW d \in Directions, Sends(d)
      PROVE  P!Next
  <2>1. P!Send(d)
    BY <1>2 DEF Sends, P!Send
  <2> QED
    BY <2>1 DEF P!Next, P!Directions, Directions
<1>3. ASSUME NEW d \in Directions, Receives(d)
      PROVE  P!Next
  <2> DEFINE far == wire[Far(d)][d]
             g == got[d]
             S == 1..sent[d]
  <2>1. far # <<>> /\ got' = [got EXCEPT ![d] = Append(@, Head(far))] /\ UNCHANGED sent
    BY <1>3 DEF Receives
  <2>2. far \in Seq(S) /\ g \in Seq(S) /\ Counts(g \o far) /\ sent[d] \in Nat
    BY Path DEF PathInv, Sound, InOrder, Arrived, Shape
  <2> HIDE DEF far
  <2>3. Head(far) \in S /\ Head(far) = Len(g) + 1
    <3> HIDE DEF S, g
    <3>1. Head(far) \in S /\ Len(far) \in Nat \ {0} /\ Head(far) = far[1] /\ Len(g) \in Nat
      BY <2>1, <2>2, HeadTailProperties, EmptySeq, LenProperties
    <3>2. /\ Len(g \o far) = Len(g) + Len(far)
          /\ (g \o far)[Len(g) + 1] = far[1]
      BY <2>2, <3>1, ConcatProperties
    <3> QED
      BY <2>2, <3>1, <3>2 DEF Counts
  <2>4. Len(g) < sent[d]
    BY <2>2, <2>3, LenProperties
  <2>5. P!Receive(d)
    BY <2>1, <2>3, <2>4 DEF P!Receive
  <2> QED
    BY <2>5 DEF P!Next, P!Directions, Directions
<1>4. \/ UNCHANGED <<sent, got>>
      \/ \E d \in Directions : Sends(d) \/ Receives(d)
  <2>1. \A d \in Directions : HalfCloses(d) \/ Closes(d) \/ Breaks => UNCHANGED <<sent, got>>
    BY DEF HalfCloses, Closes, Breaks
  <2>2. \A b \in Bridges, d \in Directions : PumpStep(b, d) => UNCHANGED <<sent, got>>
    BY InnerSteps DEF endVars
  <2>3. \A b \in Bridges : DialFails(b) \/ MainStep(b) => UNCHANGED <<sent, got>>
    BY InnerSteps DEF DialFails, endVars
  <2>4. Dials \/ UNCHANGED vars => UNCHANGED <<sent, got>>
    BY InnerSteps DEF vars, endVars
  <2>5. "up" \in Directions
    BY DEF Directions
  <2> QED
    BY <2>1, <2>2, <2>3, <2>4, <2>5 DEF Next
<1> QED
  BY <1>1, <1>2, <1>3, <1>4

\* A connection through the two bridges is a pipe in each direction, whatever closes,
\* fails or breaks and in whatever order the six goroutines run: the receiver gets a
\* growing prefix of what was sent, nothing twice, nothing out of order, and also what
\* handleConnect had read ahead of the request (bridge.go:206-211).
THEOREM ActsAsPipeAlways == Spec => ActsAsPipe
<1>1. Init => P!Init
  BY PipeInit
<1>2. PathInv /\ [Next]_vars => [P!Next]_(P!vars)
  BY PipeStep
<1> QED
  BY <1>1, <1>2, PathAlways, PTL DEF Spec, ActsAsPipe, P!Spec

----------------------------------------------------------------------------
(* DrainInv is inductive.                                                  *)

LEMMA DrainInit == Init => DrainInv
<1> SUFFICES ASSUME Init, NEW d \in Directions PROVE Drains(d)
  BY DEF DrainInv
<1>1. /\ Reverse(d) \in Directions /\ Near(d) \in Links /\ Far(d) \in Links /\ "ws" \in Links
      /\ Entry(d) \in Bridges /\ Exit(d) \in Bridges
  BY Path
<1>2. /\ \A k \in Links, e \in Directions :
           wire[k][e] = <<>> /\ fin[k][e] = "none" /\ deaf[k][e] = FALSE
      /\ \A b \in Bridges, e \in Directions :
           pump[b][e].at = "off" /\ pump[b][e].held = <<>> /\ pump[b][e].last = FALSE
      /\ \A b \in Bridges : errc[b] = 0 /\ phase[b] \notin {"closing", "closed"}
      /\ sent[d] = 0 /\ got[d] = <<>> /\ prefix = <<>>
  BY DEF Init, ForEach, Bridges
<1>3. Silent(Reverse(d)) /\ Quiescent(d)
  BY <1>1, <1>2 DEF Silent, Quiescent, Ahead
<1>4. StopsLast(d)
  BY <1>1, <1>2 DEF StopsLast, Stopped
<1>5. ClosedBy(d) /\ \A b \in Bridges : ClosesAfter(b, d)
  BY <1>1, <1>2 DEF ClosedBy, ClosesAfter, Stopped, Closing
<1>6. Len(Entered(d)) = sent[d]
  <2>1. <<>> \o <<>> = <<>> /\ Len(<<>>) = 0
    BY EmptySeq, ConcatEmptySeq
  <2>2. Arrived(d) = <<>>
    BY <1>1, <1>2, <2>1 DEF Arrived
  <2>3. Passed(d) = <<>>
    BY <1>1, <1>2, <2>1, <2>2 DEF Passed, Held
  <2>4. Ahead(d) = <<>>
    BY <1>2 DEF Ahead
  <2>5. Entered(d) = <<>>
    BY <1>1, <1>2, <2>1, <2>3, <2>4 DEF Entered, Held
  <2> QED
    BY <1>2, <2>1, <2>5
<1> QED
  BY <1>3, <1>4, <1>5, <1>6 DEF Drains

\* While a pump of this direction has not ended, what is after it is open.
LEMMA DrainFacts ==
    ASSUME NEW d \in Directions, Drains(d)
    PROVE  LET r == Reverse(d)
           IN  /\ \A b \in Bridges : pump[b][d].at # "done" => ~(errc[b] > 0) /\ ~Closing(b)
               /\ pump[Exit(d)][d].at # "done" =>
                    /\ Open(Far(d), d)
                    /\ ~deaf["ws"][d] /\ fin["ws"][r] = "none" /\ fin[Far(d)][d] = "none"
               /\ pump[Entry(d)][d].at # "done" =>
                    /\ Open(Far(d), d) /\ Open("ws", d) /\ Intact(Near(d), d)
                    /\ fin["ws"][d] = "none" /\ ~Stopped(Exit(d), d)
               /\ Closing(Exit(d)) => Closing(Entry(d))
<1>1. /\ Near(d) \in Links /\ Far(d) \in Links /\ "ws" \in Links
      /\ Entry(d) \in Bridges /\ Exit(d) \in Bridges
  BY Path
<1>2. /\ \A k \in Links : fin[k][d] # "reset"
      /\ ~deaf[Far(d)][d]
  BY DEF Drains, Quiescent
<1>3. \A b \in Bridges : pump[b][d].at # "done" => ~(errc[b] > 0) /\ ~Closing(b)
  BY DEF Drains, ClosesAfter
<1>4. pump[Exit(d)][d].at # "done" =>
        /\ ~deaf["ws"][d] /\ fin["ws"][Reverse(d)] = "none"
        /\ ~deaf[Far(d)][Reverse(d)] /\ fin[Far(d)][d] = "none"
  BY <1>1, <1>3 DEF Drains, ClosedBy
<1>5. Closing(Exit(d)) => Closing(Entry(d))
  <2>1. Closing(Exit(d)) => Stopped(Exit(d), d)
    BY <1>1, <1>3 DEF Stopped
  <2>2. Stopped(Exit(d), d) => fin["ws"][d] # "none"
    BY DEF Drains, StopsLast
  <2>3. fin["ws"][d] # "none" => Closing(Entry(d))
    BY DEF Drains, ClosedBy
  <2> QED
    BY <2>1, <2>2, <2>3
<1>6. ASSUME pump[Entry(d)][d].at # "done"
      PROVE  /\ ~deaf[Near(d)][d] /\ ~deaf["ws"][Reverse(d)] /\ fin["ws"][d] = "none"
             /\ ~deaf["ws"][d] /\ ~deaf[Far(d)][Reverse(d)]
             /\ ~Stopped(Exit(d), d)
  <2>1. ~Closing(Entry(d)) /\ ~Closing(Exit(d))
    BY <1>1, <1>3, <1>5, <1>6
  <2>2. /\ ~deaf[Near(d)][d] /\ ~deaf["ws"][Reverse(d)] /\ fin["ws"][d] = "none"
        /\ ~deaf["ws"][d] /\ ~deaf[Far(d)][Reverse(d)]
    BY <2>1 DEF Drains, ClosedBy
  <2>3. ~Stopped(Exit(d), d)
    BY <2>2 DEF Drains, StopsLast
  <2> QED
    BY <2>2, <2>3
<1> QED
  BY <1>1, <1>2, <1>3, <1>4, <1>5, <1>6 DEF Open, Intact

\* What was orderly after a step was orderly before it, and the step did not come from
\* anything else that ended.
LEMMA OrderlyBefore ==
    ASSUME Shape, [Next]_vars, NEW d \in Directions, Orderly(d)'
    PROVE  /\ Orderly(d) /\ ~Breaks /\ ~Sends(Reverse(d))
           /\ ~HalfCloses(Reverse(d)) /\ ~Closes(Reverse(d))
           /\ \A b \in Bridges : ~DialFails(b)
<1>1. Reverse(d) \in Directions /\ Reverse(d) # d /\ Directions = {d, Reverse(d)}
      /\ "more" \notin Directions /\ "none" \notin Directions
  BY Path DEF Directions
<1>2. ASSUME NEW e \in Directions, Sends(e)
      PROVE  e # Reverse(d) /\ UNCHANGED ended /\ sent'[Reverse(d)] = sent[Reverse(d)]
  <2>1. sent' = [sent EXCEPT ![e] = @ + 1] /\ UNCHANGED ended
    BY <1>2 DEF Sends
  <2>2. sent[e] + 1 # 0 /\ sent'[e] = sent[e] + 1 /\ \A f \in Directions : f # e => sent'[f] = sent[f]
    BY <2>1 DEF Shape
  <2> QED
    BY <1>1, <2>1, <2>2 DEF Orderly
<1>3. ASSUME NEW cause \in Directions \cup {"more"}, Ends(cause)
      PROVE  cause = d /\ ended \in {"none", d}
  BY <1>1, <1>3 DEF Ends, Orderly
<1>4. ~Breaks
  BY <1>1, <1>3 DEF Breaks
<1>5. \A b \in Bridges : ~DialFails(b)
  BY <1>1, <1>3 DEF DialFails
<1>6. ~HalfCloses(Reverse(d)) /\ ~Closes(Reverse(d))
  BY <1>1, <1>3 DEF HalfCloses, Closes
<1>7. Orderly(d)
  <2>1. CASE UNCHANGED <<ended, sent>>
    BY <2>1 DEF Orderly
  <2>2. ASSUME NEW e \in Directions, HalfCloses(e) \/ Closes(e)
        PROVE  Orderly(d)
    <3>1. Ends(e) /\ UNCHANGED sent
      BY <2>2 DEF HalfCloses, Closes
    <3> QED
      BY <1>3, <3>1 DEF Orderly
  <2>3. ASSUME NEW e \in Directions, Sends(e)
        PROVE  Orderly(d)
    BY <1>2, <2>3 DEF Orderly
  <2>4. \A e \in Directions : Receives(e) => UNCHANGED <<ended, sent>>
    BY DEF Receives
  <2>5. UNCHANGED vars => UNCHANGED endVars
    BY DEF vars
  <2>6. UNCHANGED endVars => UNCHANGED <<ended, sent>>
    BY DEF endVars
  <2> QED
    BY <1>4, <1>5, <2>1, <2>2, <2>3, <2>4, <2>5, <2>6, InnerSteps DEF Next
<1> QED
  BY <1>1, <1>2, <1>4, <1>5, <1>6, <1>7

\* A step that leaves the path alone, and both bridges.
LEMMA DrainStill ==
    ASSUME NEW d \in Directions, Drains(d),
           UNCHANGED <<wire, fin, deaf, pump, errc, phase, prefix, sent, got>>
    PROVE  Drains(d)'
<1>1. Entered(d)' = Entered(d)
  BY DEF Entered, Passed, Arrived, Held, Ahead
<1> QED
  BY <1>1 DEF Drains, Silent, Quiescent, StopsLast, ClosesAfter, ClosedBy, Stopped, Closing, Ahead

LEMMA DrainSends ==
    ASSUME PathInv, PathInv', NEW d \in Directions, Drains(d), Sends(d)
    PROVE  Drains(d)'
<1> DEFINE r == Reverse(d)
<1>1. /\ r \in Directions /\ r # d /\ Near(d) \in Links /\ Far(d) \in Links /\ "ws" \in Links
      /\ Entry(d) \in Bridges /\ Exit(d) \in Bridges /\ Near(d) # "ws"
  BY Path
<1>2. Shape
  BY DEF PathInv
<1>3. fin[Near(d)][d] = "none" /\ UNCHANGED <<phase, prefix, pump, errc>>
  BY <1>2, SendsEffect
<1>4. ~Stopped(Entry(d), d) /\ ~pump[Entry(d)][d].last
  BY <1>3 DEF Drains, StopsLast
<1>5. /\ Open(Far(d), d) /\ Open("ws", d) /\ Intact(Near(d), d)
  BY <1>4, DrainFacts DEF Stopped
<1>6. /\ UNCHANGED <<fin, deaf>>
      /\ \A k \in Links, e \in Directions :
           wire'[k][e] = IF k = Near(d) /\ e = d THEN Append(wire[k][e], sent[d] + 1) ELSE wire[k][e]
  BY <1>2, <1>5, SendsEffect DEF Intact
<1>7. Silent(r)' /\ Quiescent(d)'
  BY <1>1, <1>3, <1>6 DEF Drains, Silent, Quiescent, Ahead
<1>8. StopsLast(d)'
  BY <1>1, <1>3, <1>4, <1>6 DEF Drains, StopsLast, Stopped
<1>9. ClosedBy(d)' /\ \A b \in Bridges : ClosesAfter(b, d)'
  BY <1>3, <1>6 DEF Drains, ClosedBy, ClosesAfter, Stopped, Closing
<1>10. Len(Entered(d))' = sent'[d]
  BY <1>5, <1>6 DEF PathInv, InOrder, Open, Intact
<1> QED
  BY <1>7, <1>8, <1>9, <1>10 DEF Drains

LEMMA DrainReceives ==
    ASSUME PathInv, NEW d \in Directions, Drains(d), NEW e \in Directions, Receives(e)
    PROVE  Drains(d)'
<1> DEFINE r == Reverse(d)
<1>1. /\ r \in Directions /\ r # d /\ Directions = {d, r}
      /\ \A f \in Directions : Far(f) \in Links
      /\ Far(d) # "ws" /\ Far(d) # Near(d) /\ Near(d) \in Links /\ "ws" \in Links
  BY Path
<1>2. /\ wire[Far(e)][e] # <<>>
      /\ \A k \in Links, f \in Directions :
           wire'[k][f] = IF k = Far(e) /\ f = e THEN Tail(wire[Far(e)][e]) ELSE wire[k][f]
      /\ UNCHANGED <<phase, prefix, pump, fin, deaf, errc, sent>>
  BY ReceivesEffect DEF PathInv
<1>3. e = d
  BY <1>1, <1>2 DEF Drains, Silent
<1>4. Entered(d)' = Entered(d)
  BY <1>3, ReceivesInOrder DEF PathInv
<1>5. Silent(r)' /\ Quiescent(d)'
  BY <1>1, <1>2, <1>3 DEF Drains, Silent, Quiescent, Ahead
<1>6. StopsLast(d)'
  BY <1>1, <1>2, <1>3 DEF Drains, StopsLast, Stopped, Ahead
<1>7. ClosedBy(d)' /\ \A b \in Bridges : ClosesAfter(b, d)'
  BY <1>2 DEF Drains, ClosedBy, ClosesAfter, Stopped, Closing
<1> QED
  BY <1>2, <1>4, <1>5, <1>6, <1>7 DEF Drains

\* Something is closed, where nothing is on the way in.
LEMMA DrainCloses ==
    ASSUME PathInv, NEW d \in Directions, Drains(d),
           \A k \in Links, e \in Directions :
               /\ wire'[k][e] = wire[k][e]
               /\ fin'[k][e] = fin[k][e] \/ (fin[k][e] = "none" /\ fin'[k][e] = "fin"),
           ~deaf'[Far(d)][d] /\ fin'[Far(d)][Reverse(d)] = "none",
           UNCHANGED <<pump, errc, prefix, sent, got>>,
           \A b \in Bridges : Closing(b) => Closing(b)',
           \A b \in Bridges : Closing(b)' => Closing(b) \/ errc[b] > 0,
           ClosedBy(d)'
    PROVE  Drains(d)'
<1> DEFINE r == Reverse(d)
<1>1. r \in Directions /\ Near(d) \in Links /\ "ws" \in Links
  BY Path
<1>2. Silent(r)'
  BY <1>1 DEF Drains, Silent, Ahead
<1>3. Quiescent(d)'
  BY DEF Drains, Quiescent
<1>4. StopsLast(d)'
  BY <1>1 DEF Drains, StopsLast, Stopped, Ahead
<1>5. \A b \in Bridges : ClosesAfter(b, d)'
  BY DEF Drains, ClosesAfter, Stopped
<1>6. Entered(d)' = Entered(d)
  <2>1. Ahead(d)' = Ahead(d) /\ \A b \in Bridges : Held(b, d)' = Held(b, d)
    BY DEF Ahead, Held
  <2> QED
    BY <2>1, SamePath
<1> QED
  BY <1>2, <1>3, <1>4, <1>5, <1>6 DEF Drains

LEMMA DrainSenderEnds ==
    ASSUME PathInv, NEW d \in Directions, Drains(d), HalfCloses(d) \/ Closes(d)
    PROVE  Drains(d)'
<1> DEFINE r == Reverse(d)
<1>1. /\ r \in Directions /\ r # d /\ Reverse(r) = d
      /\ Near(d) \in Links /\ Far(d) \in Links /\ "ws" \in Links
      /\ Near(d) # "ws" /\ Far(d) # Near(d)
  BY Path
<1>2. UNCHANGED <<phase, pump, errc, prefix, sent, got>> /\ LinkShape
  BY DEF HalfCloses, Closes, mainVars, PathInv, Shape
<1>3. \A b \in Bridges : Closing(b)' <=> Closing(b)
  BY <1>2 DEF Closing
<1>4. CASE HalfCloses(d)
  <2>1. /\ UNCHANGED <<wire, deaf>> /\ fin[Near(d)][d] = "none"
        /\ \A k \in Links, e \in Directions :
             fin'[k][e] = IF k = Near(d) /\ e = d THEN "fin" ELSE fin[k][e]
    BY <1>2, <1>4, HalfCloseEffect DEF HalfCloses
  <2>2. ~deaf'[Far(d)][d] /\ fin'[Far(d)][r] = "none"
    BY <1>1, <2>1 DEF Drains, Quiescent
  <2>3. ClosedBy(d)'
    <3>1. /\ fin'[Near(d)][r] = fin[Near(d)][r] /\ fin'["ws"][d] = fin["ws"][d]
          /\ fin'["ws"][r] = fin["ws"][r] /\ fin'[Far(d)][d] = fin[Far(d)][d]
      BY <1>1, <2>1
    <3> QED
      BY <1>2, <2>1, <3>1 DEF Drains, ClosedBy, Closing
  <2> QED
    BY <1>2, <1>3, <2>1, <2>2, <2>3, DrainCloses
<1>5. CASE Closes(d)
  <2>1. CloseEnd(Near(d), r) /\ wire[Near(d)][r] = <<>>
    BY <1>1, <1>5 DEF Closes, Drains, Silent
  <2>2. \A k \in Links, e \in Directions :
          /\ deaf'[k][e] <=> deaf[k][e] \/ (k = Near(d) /\ e = r)
          /\ wire'[k][e] = wire[k][e]
          /\ k # Near(d) \/ e = r => fin'[k][e] = fin[k][e]
          /\ fin'[k][e] # fin[k][e] => fin[k][e] = "none" /\ fin'[k][e] = "fin"
    BY <1>1, <1>2, <2>1, CloseEndEffect
  <2>3. ~deaf'[Far(d)][d] /\ fin'[Far(d)][r] = "none"
    BY <1>1, <2>2 DEF Drains, Quiescent
  <2>4. ClosedBy(d)'
    <3>1. /\ fin'[Near(d)][r] = fin[Near(d)][r] /\ fin'["ws"][d] = fin["ws"][d]
          /\ fin'["ws"][r] = fin["ws"][r] /\ fin'[Far(d)][d] = fin[Far(d)][d]
          /\ deaf'[Near(d)][d] <=> deaf[Near(d)][d]
          /\ deaf'["ws"][r] <=> deaf["ws"][r]
          /\ deaf'["ws"][d] <=> deaf["ws"][d]
          /\ deaf'[Far(d)][r] <=> deaf[Far(d)][r]
      BY <1>1, <2>2
    <3> QED
      BY <1>2, <3>1 DEF Drains, ClosedBy, Closing
  <2> QED
    BY <1>2, <1>3, <2>2, <2>3, <2>4, DrainCloses
<1> QED
  BY <1>4, <1>5

LEMMA DrainBridgeCloses ==
    ASSUME PathInv, NEW d \in Directions, Drains(d), NEW b \in Bridges, MainStep(b)
    PROVE  Drains(d)'
<1> DEFINE r == Reverse(d)
<1>1. /\ r \in Directions /\ r # d /\ Directions = {d, r} /\ Reverse(r) = d
      /\ Near(d) \in Links /\ Far(d) \in Links /\ "ws" \in Links /\ Links = {Near(d), "ws", Far(d)}
      /\ Near(d) # "ws" /\ Far(d) # Near(d) /\ Far(d) # "ws"
      /\ Bridges = {Entry(d), Exit(d)} /\ Entry(d) # Exit(d)
      /\ Entry(d) \in Bridges /\ Exit(d) \in Bridges
  BY Path
<1>2. PICK k \in {First(b), Second(b)} : CloseEnd(k, Inward(b, k))
  BY DEF MainStep, CloseFirst, CloseSecond
<1>3. UNCHANGED <<pump, errc, prefix, sent, got>> /\ LinkShape
  BY DEF MainStep, CloseFirst, CloseSecond, endVars, PathInv, Shape
<1>4. errc[b] > 0 \/ Closing(b)
  BY DEF MainStep, CloseFirst, CloseSecond, Closing
<1>5. Closing(b)' /\ \A c \in Bridges : c # b => (Closing(c)' <=> Closing(c))
  <2>1. phase'[b] \in {"closing", "closed"} /\ \A c \in Bridges : c # b => phase'[c] = phase[c]
    BY CloseEffect DEF MainStep, PathInv
  <2> QED
    BY <2>1 DEF Closing
<1>6. pump[b][d].at = "done"
  BY <1>4 DEF Drains, ClosesAfter
<1>7. \/ b = Entry(d) /\ k = Near(d) /\ Inward(b, k) = d
      \/ b = Entry(d) /\ k = "ws" /\ Inward(b, k) = r
      \/ b = Exit(d) /\ k = "ws" /\ Inward(b, k) = d
      \/ b = Exit(d) /\ k = Far(d) /\ Inward(b, k) = r
  BY <1>1, <1>2, BridgeEnds
<1> DEFINE i == Inward(b, k)
<1>8. i \in Directions /\ k \in Links
  BY <1>1, <1>7
<1>9. wire[k][i] = <<>>
  <2>1. b = Entry(d) => wire[Near(d)][d] = <<>>
    BY <1>6 DEF Drains, StopsLast, Stopped
  <2>2. b = Exit(d) => wire["ws"][d] = <<>>
    BY <1>6 DEF Drains, StopsLast, Stopped
  <2>3. wire["ws"][r] = <<>> /\ wire[Far(d)][r] = <<>>
    BY <1>1 DEF Drains, Silent
  <2> QED
    BY <1>7, <2>1, <2>2, <2>3
<1>10. \A j \in Links, e \in Directions :
          /\ deaf'[j][e] <=> deaf[j][e] \/ (j = k /\ e = i)
          /\ wire'[j][e] = wire[j][e]
          /\ j # k \/ e = i => fin'[j][e] = fin[j][e]
          /\ fin'[j][e] # fin[j][e] => fin[j][e] = "none" /\ fin'[j][e] = "fin"
  <2> HIDE DEF i
  <2>1. CloseEnd(k, i)
    BY <1>2 DEF i
  <2> QED
    BY <1>3, <1>8, <1>9, <2>1, CloseEndEffect
<1> HIDE DEF i
<1>11. \/ b = Entry(d) /\ k = Near(d) /\ i = d
       \/ b = Entry(d) /\ k = "ws" /\ i = r
       \/ b = Exit(d) /\ k = "ws" /\ i = d
       \/ b = Exit(d) /\ k = Far(d) /\ i = r
  BY <1>7 DEF i
<1>12. ~deaf'[Far(d)][d] /\ fin'[Far(d)][r] = "none"
  BY <1>1, <1>10, <1>11 DEF Drains, Quiescent
<1>13. ClosedBy(d)'
  <2>1. b = Entry(d) =>
          /\ (deaf'["ws"][d] <=> deaf["ws"][d]) /\ fin'["ws"][r] = fin["ws"][r]
          /\ (deaf'[Far(d)][r] <=> deaf[Far(d)][r]) /\ fin'[Far(d)][d] = fin[Far(d)][d]
    BY <1>1, <1>10, <1>11
  <2>2. b = Exit(d) =>
          /\ (deaf'[Near(d)][d] <=> deaf[Near(d)][d]) /\ fin'[Near(d)][r] = fin[Near(d)][r]
          /\ (deaf'["ws"][r] <=> deaf["ws"][r]) /\ fin'["ws"][d] = fin["ws"][d]
    BY <1>1, <1>10, <1>11
  <2>3. CASE b = Entry(d)
    BY <1>1, <1>5, <2>1, <2>3 DEF Drains, ClosedBy
  <2>4. CASE b = Exit(d)
    BY <1>1, <1>5, <2>2, <2>4 DEF Drains, ClosedBy
  <2> QED
    BY <1>1, <2>3, <2>4
<1>14. \A c \in Bridges : (Closing(c) => Closing(c)') /\ (Closing(c)' => Closing(c) \/ errc[c] > 0)
  BY <1>4, <1>5
<1> QED
  BY <1>3, <1>10, <1>12, <1>13, <1>14, DrainCloses

\* A pump of this direction moves, or ends, and closes nothing.
LEMMA DrainPump ==
    ASSUME PathInv, NEW d \in Directions, Drains(d), NEW b \in Bridges,
           UNCHANGED <<phase, fin, deaf, errc, sent>>, Entered(d)' = Entered(d),
           pump[b][d].at # "done",
           \A k \in Links : wire'[k][Reverse(d)] = wire[k][Reverse(d)],
           Ahead(Reverse(d))' = Ahead(Reverse(d)),
           \A c \in Bridges, e \in Directions : c # b \/ e # d => pump'[c][e] = pump[c][e],
           StopsLast(d)'
    PROVE  Drains(d)'
<1> DEFINE r == Reverse(d)
<1>1. r \in Directions /\ r # d
  BY Path
<1>2. \A c \in Bridges : pump'[c][r] = pump[c][r]
  BY <1>1
<1>3. Silent(r)'
  BY <1>2 DEF Drains, Silent
<1>4. Quiescent(d)'
  BY DEF Drains, Quiescent
<1>5. ASSUME NEW c \in Bridges
      PROVE  ClosesAfter(c, d)'
  <2>1. ClosesAfter(c, d) /\ (c = b => ~(errc[c] > 0) /\ ~Closing(c))
    BY DrainFacts DEF Drains
  <2>2. c # b => pump'[c][d] = pump[c][d]
    OBVIOUS
  <2> QED
    BY <1>2, <2>1, <2>2 DEF ClosesAfter, Stopped, Closing
<1>6. ClosedBy(d)'
  BY DEF Drains, ClosedBy, Closing
<1> QED
  BY <1>3, <1>4, <1>5, <1>6 DEF Drains

LEMMA DrainReads ==
    ASSUME PathInv, NEW d \in Directions, Drains(d), NEW b \in Bridges, NEW e \in Directions,
           Read(b, e) \/ ReadPrefix(b, e)
    PROVE  Drains(d)'
<1> DEFINE r == Reverse(d)
<1>1. /\ r \in Directions /\ r # d /\ Directions = {d, r}
      /\ Near(d) \in Links /\ Far(d) \in Links /\ "ws" \in Links
      /\ Near(d) # "ws" /\ Far(d) # Near(d) /\ Far(d) # "ws"
      /\ Bridges = {Entry(d), Exit(d)} /\ Entry(d) # Exit(d)
      /\ Entry(d) \in Bridges /\ Exit(d) \in Bridges
      /\ From(Entry(d), d) = Near(d) /\ From(Exit(d), d) = "ws"
  BY Path
<1>2. Shape /\ Pumps(b, e) /\ InOrder(d)
  BY DEF PathInv
<1>3. CASE Read(b, e)
  <2> DEFINE k == From(b, e)
             chunk == Head(wire[k][e])
  <2>1. PICK last \in BOOLEAN :
          /\ last => k # "ws" /\ Len(wire[k][e]) = 1 /\ fin[k][e] # "none"
          /\ \A c \in Bridges, f \in Directions :
               pump'[c][f] = IF c = b /\ f = e THEN Hold(chunk, last) ELSE pump[c][f]
    BY <1>2, <1>3, ReadEffect
  <2>2. /\ pump[b][e].at = "read" /\ ~TakesPrefix(b, e) /\ wire[k][e] # <<>> /\ k \in Links
        /\ \A j \in Links, f \in Directions :
             wire'[j][f] = IF j = k /\ f = e THEN Tail(wire[k][e]) ELSE wire[j][f]
        /\ UNCHANGED <<phase, prefix, fin, deaf, errc, sent, got>>
    BY <1>2, <1>3, ReadEffect, BridgeEnds
  <2>3. e = d
    BY <1>1, <2>2 DEF Drains, Silent
  <2>4. Entered(d)' = Entered(d)
    BY <1>2, <1>3, ReadInOrder
  <2>5. pump'[b][d].at = "write" /\ pump'[b][d].last = last
    BY <2>1, <2>3 DEF Hold
  <2>6. StopsLast(d)'
    <3>1. CASE b = Entry(d)
      <4>1. ASSUME last
            PROVE  fin'[Near(d)][d] = "fin" /\ wire'[Near(d)][d] = <<>> /\ Ahead(d)' = <<>>
        <5>1. Len(wire[Near(d)][d]) = 1 /\ fin[Near(d)][d] # "none" /\ wire[Near(d)][d] \in Seq(Nat)
          BY <1>1, <1>2, <2>1, <2>3, <3>1, <4>1 DEF Shape, LinkShape
        <5>2. Tail(wire[Near(d)][d]) = <<>>
          <6> DEFINE near == wire[Near(d)][d]
          <6>1. near \in Seq(Nat) /\ Len(near) = 1 /\ near # <<>>
            BY <1>1, <2>2, <2>3, <3>1, <5>1
          <6> HIDE DEF near
          <6>2. Tail(near) \in Seq(Nat) /\ Len(Tail(near)) = 0
            BY <6>1, HeadTailProperties, EmptySeq
          <6>3. Tail(near) = <<>>
            BY <6>2, EmptySeq
          <6> QED
            BY <6>3 DEF near
        <5>3. fin[Near(d)][d] = "fin"
          BY <1>1, <1>2, <5>1 DEF Drains, Quiescent, Shape, LinkShape
        <5>4. Ahead(d) = <<>>
          BY <2>2, <2>3, <3>1 DEF TakesPrefix, Ahead, Entry
        <5> QED
          BY <1>1, <2>2, <2>3, <3>1, <5>2, <5>3, <5>4 DEF Ahead
      <4>2. pump'[Exit(d)][d] = pump[Exit(d)][d] /\ wire'["ws"][d] = wire["ws"][d]
        BY <1>1, <2>1, <2>2, <2>3, <3>1
      <4> QED
        BY <2>2, <2>5, <3>1, <4>1, <4>2 DEF Drains, StopsLast, Stopped
    <3>2. CASE b = Exit(d)
      <4>1. pump'[Entry(d)][d] = pump[Entry(d)][d] /\ wire'[Near(d)][d] = wire[Near(d)][d]
            /\ Ahead(d)' = Ahead(d) /\ ~last
        BY <1>1, <2>1, <2>2, <2>3, <3>2 DEF Ahead
      <4> QED
        BY <2>2, <2>5, <3>2, <4>1 DEF Drains, StopsLast, Stopped
    <3> QED
      BY <1>1, <3>1, <3>2
  <2>7. /\ \A j \in Links : wire'[j][r] = wire[j][r]
        /\ Ahead(r)' = Ahead(r)
        /\ \A c \in Bridges, f \in Directions : c # b \/ f # d => pump'[c][f] = pump[c][f]
    BY <1>1, <2>1, <2>2, <2>3 DEF Ahead
  <2> QED
    BY <2>2, <2>3, <2>4, <2>6, <2>7, DrainPump
<1>4. CASE ReadPrefix(b, e)
  <2>1. /\ b = "client" /\ e = "up" /\ prefix # <<>> /\ pump[b][e].at = "read"
        /\ \A c \in Bridges, f \in Directions :
             pump'[c][f] = IF c = b /\ f = e THEN Hold(Head(prefix), FALSE) ELSE pump[c][f]
        /\ UNCHANGED <<phase, wire, fin, deaf, errc, sent, got>>
    BY <1>2, <1>4, ReadPrefixEffect
  <2>2. e = d
    BY <1>1, <2>1 DEF Drains, Silent, Ahead
  <2>3. b = Entry(d)
    BY <2>1, <2>2 DEF Entry
  <2>4. Entered(d)' = Entered(d)
    BY <1>2, <1>4, ReadPrefixInOrder
  <2>5. pump'[b][d].at = "write" /\ pump'[b][d].last = FALSE
    BY <2>1, <2>2 DEF Hold
  <2>6. pump'[Exit(d)][d] = pump[Exit(d)][d]
    BY <1>1, <2>1, <2>3
  <2>7. StopsLast(d)'
    BY <2>1, <2>3, <2>5, <2>6 DEF Drains, StopsLast, Stopped
  <2>8. /\ \A j \in Links : wire'[j][r] = wire[j][r]
        /\ Ahead(r)' = Ahead(r)
        /\ \A c \in Bridges, f \in Directions : c # b \/ f # d => pump'[c][f] = pump[c][f]
    BY <1>1, <2>1, <2>2 DEF Ahead
  <2> QED
    BY <2>1, <2>2, <2>4, <2>7, <2>8, DrainPump
<1> QED
  BY <1>3, <1>4

LEMMA DrainReadFails ==
    ASSUME PathInv, NEW d \in Directions, Drains(d), NEW b \in Bridges, NEW e \in Directions,
           ReadFails(b, e)
    PROVE  Drains(d)'
<1> DEFINE r == Reverse(d)
           k == From(b, e)
<1>1. /\ r \in Directions /\ r # d /\ Directions = {d, r} /\ Reverse(r) = d
      /\ Near(d) \in Links /\ Far(d) \in Links /\ "ws" \in Links
      /\ Near(d) # "ws" /\ Far(d) # Near(d) /\ Far(d) # "ws"
      /\ Bridges = {Entry(d), Exit(d)} /\ Entry(d) # Exit(d)
      /\ Entry(d) \in Bridges /\ Exit(d) \in Bridges
      /\ From(Entry(d), d) = Near(d) /\ From(Exit(d), d) = "ws"
      /\ From(Entry(d), r) = "ws" /\ From(Exit(d), r) = Far(d)
  BY Path DEF Entry, Exit, From, Reverse, Directions, Near, Far
<1>2. Shape /\ Pumps(b, e)
  BY DEF PathInv
<1>3. /\ pump[b][e].at = "read" /\ ~TakesPrefix(b, e)
      /\ deaf[k][e] \/ (wire[k][e] = <<>> /\ fin[k][e] # "none")
      /\ \A c \in Bridges, f \in Directions :
           pump'[c][f] = IF c = b /\ f = e THEN At("fail") ELSE pump[c][f]
      /\ UNCHANGED <<phase, prefix, wire, fin, deaf, errc, sent, got>>
  BY <1>2, ReadFailsEffect
<1>4. pump'[b][e].at = "fail" /\ pump'[b][e].last = FALSE /\ pump'[b][e].held = <<>>
  BY <1>3 DEF At
<1>5. Entered(d)' = Entered(d)
  <2>1. Ahead(d)' = Ahead(d) /\ \A c \in Bridges : Held(c, d)' = Held(c, d)
    BY <1>2, <1>3, <1>4 DEF Ahead, Held, Pumps
  <2> QED
    BY <1>3, <2>1, SamePath
<1>6. CASE e = d
  <2>1. StopsLast(d)'
    <3>1. CASE b = Entry(d)
      <4>1. fin[Near(d)][d] = "fin" /\ wire[Near(d)][d] = <<>>
        <5>1. Intact(Near(d), d)
          BY <1>3, <1>6, <3>1, DrainFacts
        <5> QED
          BY <1>1, <1>2, <1>3, <1>6, <3>1, <5>1 DEF Intact, Shape, LinkShape
      <4>2. Ahead(d) = <<>>
        BY <1>3, <1>6, <3>1 DEF TakesPrefix, Ahead, Entry
      <4>3. pump'[Exit(d)][d] = pump[Exit(d)][d] /\ Ahead(d)' = Ahead(d)
        BY <1>1, <1>3, <3>1 DEF Ahead
      <4> QED
        BY <1>3, <4>1, <4>2, <4>3 DEF Drains, StopsLast, Stopped
    <3>2. CASE b = Exit(d)
      <4>1. fin["ws"][d] = "fin" /\ wire["ws"][d] = <<>>
        <5>1. ~deaf["ws"][d] /\ fin["ws"][d] # "reset"
          BY <1>1, <1>3, <1>6, <3>2, DrainFacts DEF Drains, Quiescent
        <5> QED
          BY <1>1, <1>2, <1>3, <1>6, <3>2, <5>1 DEF Shape, LinkShape
      <4>2. pump'[Entry(d)][d] = pump[Entry(d)][d] /\ Ahead(d)' = Ahead(d)
        BY <1>1, <1>3, <3>2 DEF Ahead
      <4> QED
        BY <1>3, <1>4, <1>6, <3>2, <4>1, <4>2 DEF Drains, StopsLast, Stopped
    <3> QED
      BY <1>1, <3>1, <3>2
  <2>2. /\ \A j \in Links : wire'[j][r] = wire[j][r]
        /\ Ahead(r)' = Ahead(r)
        /\ \A c \in Bridges, f \in Directions : c # b \/ f # d => pump'[c][f] = pump[c][f]
    BY <1>1, <1>3, <1>6 DEF Ahead
  <2> QED
    BY <1>3, <1>5, <1>6, <2>1, <2>2, DrainPump
<1>7. CASE e = r
  <2>1. Closing(b)
    <3>1. CASE b = Entry(d)
      <4>1. deaf["ws"][r] \/ fin["ws"][r] # "none"
        BY <1>1, <1>3, <1>7, <3>1
      <4>2. Closing(Entry(d)) \/ Closing(Exit(d))
        BY <4>1 DEF Drains, ClosedBy
      <4> QED
        BY <3>1, <4>2, DrainFacts
    <3>2. CASE b = Exit(d)
      <4>1. deaf[Far(d)][r] \/ fin[Far(d)][r] # "none"
        BY <1>1, <1>3, <1>7, <3>2
      <4>2. Closing(Exit(d))
        BY <4>1 DEF Drains, ClosedBy, Quiescent
      <4> QED
        BY <3>2, <4>2
    <3> QED
      BY <1>1, <3>1, <3>2
  <2>2. \A c \in Bridges : pump'[c][d] = pump[c][d] /\ (c # b => pump'[c][r] = pump[c][r])
    BY <1>1, <1>3, <1>7
  <2>3. pump'[b][r].at = "fail"
    BY <1>4, <1>7
  <2>4. Silent(r)'
    BY <1>3, <2>2, <2>3 DEF Drains, Silent, Ahead
  <2>5. Quiescent(d)' /\ ClosedBy(d)'
    BY <1>3 DEF Drains, Quiescent, ClosedBy, Closing
  <2>6. StopsLast(d)'
    <3>1. pump'[Entry(d)][d] = pump[Entry(d)][d] /\ pump'[Exit(d)][d] = pump[Exit(d)][d]
      BY <1>1, <2>2
    <3> QED
      BY <1>3, <3>1 DEF Drains, StopsLast, Stopped, Ahead
  <2>7. \A c \in Bridges : ClosesAfter(c, d)'
    BY <1>3, <2>1, <2>2, <2>3 DEF Drains, ClosesAfter, Stopped, Closing
  <2> QED
    BY <1>3, <1>5, <2>4, <2>5, <2>6, <2>7 DEF Drains
<1> QED
  BY <1>1, <1>6, <1>7

LEMMA DrainWrites ==
    ASSUME PathInv, NEW d \in Directions, Drains(d), NEW b \in Bridges, NEW e \in Directions,
           Write(b, e)
    PROVE  Drains(d)'
<1> DEFINE r == Reverse(d)
           k == To(b, e)
           more == At(IF pump[b][e].last THEN "fail" ELSE "read")
<1>1. /\ r \in Directions /\ r # d /\ Directions = {d, r}
      /\ Near(d) \in Links /\ Far(d) \in Links /\ "ws" \in Links
      /\ Near(d) # "ws" /\ Far(d) # Near(d) /\ Far(d) # "ws"
      /\ Bridges = {Entry(d), Exit(d)} /\ Entry(d) # Exit(d)
      /\ Entry(d) \in Bridges /\ Exit(d) \in Bridges
      /\ To(Entry(d), d) = "ws" /\ To(Exit(d), d) = Far(d)
  BY Path
<1>2. Shape /\ Pumps(b, e) /\ InOrder(d) /\ pump[b][e].at = "write"
  BY DEF PathInv, Write
<1>3. e = d
  BY <1>1, <1>2 DEF Drains, Silent
<1>4. Open(k, e)
  BY <1>1, <1>2, <1>3, DrainFacts
<1>5. Len(Held(b, e)) = 1
  BY <1>2 DEF Pumps
<1> HIDE DEF more
<1>6. PICK next \in {At("fail"), more} :
        /\ next = more
        /\ \A c \in Bridges, f \in Directions :
             pump'[c][f] = IF c = b /\ f = e THEN next ELSE pump[c][f]
        /\ UNCHANGED <<fin, deaf>>
        /\ \A j \in Links, f \in Directions :
             wire'[j][f] = IF j = k /\ f = e THEN Append(wire[k][e], Held(b, e)[1]) ELSE wire[j][f]
  BY <1>2, <1>4, <1>5, WriteEffect DEF more
<1>7. UNCHANGED <<phase, prefix, errc, sent, got>>
  BY <1>2, <1>5, WriteEffect
<1>8. Entered(d)' = Entered(d)
  BY <1>2, <1>4, WriteInOrder
<1>9. /\ pump'[b][d].last = FALSE
      /\ pump'[b][d].at = IF pump[b][d].last THEN "fail" ELSE "read"
  BY <1>3, <1>6 DEF more, At
<1>10. StopsLast(d)'
  <2>1. CASE b = Entry(d)
    <3>1. /\ wire'[Near(d)][d] = wire[Near(d)][d] /\ Ahead(d)' = Ahead(d)
          /\ pump'[Exit(d)][d] = pump[Exit(d)][d]
      BY <1>1, <1>3, <1>6, <1>7, <2>1 DEF Ahead
    <3>2. ~Stopped(Exit(d), d)
      BY <1>2, <1>3, <2>1, DrainFacts
    <3> QED
      BY <1>6, <1>9, <2>1, <3>1, <3>2 DEF Drains, StopsLast, Stopped
  <2>2. CASE b = Exit(d)
    <3>1. /\ wire'[Near(d)][d] = wire[Near(d)][d] /\ Ahead(d)' = Ahead(d)
          /\ pump'[Entry(d)][d] = pump[Entry(d)][d]
      BY <1>1, <1>3, <1>6, <1>7, <2>2 DEF Ahead
    <3>2. ~pump[Exit(d)][d].last
      BY DEF Drains, StopsLast
    <3> QED
      BY <1>6, <1>9, <2>2, <3>1, <3>2 DEF Drains, StopsLast, Stopped
  <2> QED
    BY <1>1, <2>1, <2>2
<1>11. /\ \A j \in Links : wire'[j][r] = wire[j][r]
       /\ Ahead(r)' = Ahead(r)
       /\ \A c \in Bridges, f \in Directions : c # b \/ f # d => pump'[c][f] = pump[c][f]
       /\ pump[b][d].at # "done"
  BY <1>1, <1>2, <1>3, <1>6, <1>7 DEF Ahead
<1> QED
  BY <1>6, <1>7, <1>8, <1>10, <1>11, DrainPump

LEMMA DrainPumpEnds ==
    ASSUME PathInv, NEW d \in Directions, Drains(d), NEW b \in Bridges, NEW e \in Directions,
           PumpEnds(b, e)
    PROVE  Drains(d)'
<1> DEFINE r == Reverse(d)
<1>1. /\ r \in Directions /\ r # d /\ Directions = {d, r}
      /\ Entry(d) \in Bridges /\ Exit(d) \in Bridges
  BY Path
<1>2. Shape /\ Pumps(b, e)
  BY DEF PathInv
<1>3. /\ pump[b][e].at = "fail" /\ \A c \in Bridges : c # b => errc'[c] = errc[c]
      /\ \A c \in Bridges, f \in Directions :
           pump'[c][f] = IF c = b /\ f = e THEN At("done") ELSE pump[c][f]
      /\ UNCHANGED <<phase, prefix, wire, fin, deaf, sent, got>>
  BY <1>2, PumpEndsEffect
<1>4. /\ pump'[b][e].at = "done" /\ pump'[b][e].last = FALSE /\ pump'[b][e].held = <<>>
      /\ \A c \in Bridges, f \in Directions : c # b \/ f # e => pump'[c][f] = pump[c][f]
  BY <1>3 DEF At
\* A pump that has failed has stopped, before and after.
<1>5. \A c \in Bridges, f \in Directions :
        /\ Stopped(c, f)' <=> Stopped(c, f)
        /\ pump'[c][f].last => pump[c][f].last
        /\ pump'[c][f].at = "write" => pump[c][f].at = "write"
        /\ pump[c][f].at = "done" => pump'[c][f].at = "done"
  BY <1>3, <1>4 DEF Stopped
<1>6. Entered(d)' = Entered(d)
  <2>1. Ahead(d)' = Ahead(d) /\ \A c \in Bridges : Held(c, d)' = Held(c, d)
    BY <1>2, <1>3, <1>4 DEF Ahead, Held, Pumps
  <2> QED
    BY <1>3, <2>1, SamePath
<1>7. Silent(r)'
  BY <1>1, <1>3, <1>5 DEF Drains, Silent, Ahead
<1>8. Quiescent(d)' /\ ClosedBy(d)'
  BY <1>3 DEF Drains, Quiescent, ClosedBy, Closing
<1>9. StopsLast(d)'
  <2>1. /\ Stopped(Entry(d), d)' => Stopped(Entry(d), d)
        /\ pump'[Entry(d)][d].last => pump[Entry(d)][d].last
        /\ Stopped(Exit(d), d)' => Stopped(Exit(d), d)
        /\ pump'[Exit(d)][d].last => pump[Exit(d)][d].last
    BY <1>1, <1>3, <1>4 DEF Stopped
  <2> QED
    BY <1>3, <2>1 DEF Drains, StopsLast, Stopped, Ahead
<1>10. ASSUME NEW c \in Bridges
       PROVE  ClosesAfter(c, d)'
  <2>1. ClosesAfter(c, d)
    BY DEF Drains
  <2>2. Stopped(c, r)' => Closing(c)'
    BY <1>1, <1>3, <1>5, <2>1 DEF ClosesAfter, Closing
  <2>3. CASE c # b
    BY <1>3, <1>5, <2>1, <2>2, <2>3 DEF ClosesAfter, Closing
  <2>4. CASE c = b /\ e = d
    BY <1>4, <2>2, <2>4 DEF ClosesAfter
  <2>5. CASE c = b /\ e = r
    <3>1. Stopped(c, r)
      BY <1>3, <2>5 DEF Stopped
    <3>2. pump[c][d].at = "done"
      BY <2>1, <3>1 DEF ClosesAfter
    <3> QED
      BY <1>1, <1>5, <2>2, <3>2 DEF ClosesAfter
  <2> QED
    BY <1>1, <2>3, <2>4, <2>5
<1> QED
  BY <1>3, <1>6, <1>7, <1>8, <1>9, <1>10 DEF Drains

LEMMA SameClosing ==
    ASSUME NEW d \in Directions, \A b \in Bridges : Closing(b)' <=> Closing(b)
    PROVE  (Closing(Entry(d))' <=> Closing(Entry(d))) /\ (Closing(Exit(d))' <=> Closing(Exit(d)))
<1> DEFINE en == Entry(d)
           ex == Exit(d)
<1>1. en \in Bridges /\ ex \in Bridges
  BY Path
<1> HIDE DEF en, ex
<1>2. (Closing(en)' <=> Closing(en)) /\ (Closing(ex)' <=> Closing(ex))
  BY <1>1
<1> QED
  BY <1>2 DEF en, ex, Closing

LEMMA DrainReadRequest ==
    ASSUME PathInv, NEW d \in Directions, Drains(d), ReadRequest
    PROVE  Drains(d)'
<1> DEFINE r == Reverse(d)
           near == wire["local"]["up"]
<1>1. /\ r \in Directions /\ r # d /\ Directions = {d, r} /\ Directions = {"up", "down"}
      /\ "local" \in Links /\ "ws" \in Links /\ Near(d) \in Links
      /\ "local" # "ws" /\ Near("up") = "local"
  BY Path DEF Directions, Links, Near
<1>2. Shape /\ Phases /\ InOrder(d)
  BY DEF PathInv
<1>3. PICK n \in 0..Len(near) :
        /\ prefix' = SubSeq(near, 1, n)
        /\ \A j \in Links, f \in Directions :
             wire'[j][f] = IF j = "local" /\ f = "up" THEN SubSeq(near, n + 1, Len(near)) ELSE wire[j][f]
  BY <1>2, ReadRequestEffect
<1>4. /\ phase["client"] = "request" /\ phase'["client"] = "dial" /\ phase'["backend"] = phase["backend"]
      /\ UNCHANGED <<fin, deaf, pump, errc, sent, got>>
  BY <1>2, ReadRequestEffect
<1>5. \A b \in Bridges : Closing(b)' <=> Closing(b)
  BY <1>4 DEF Closing, Bridges
<1>6. Entered(d)' = Entered(d)
  BY <1>2, ReadRequestInOrder
<1>7. near = <<>> => prefix' = <<>> /\ wire'["local"]["up"] = <<>>
  <2>1. near = <<>> => SubSeq(near, 1, n) = <<>> /\ SubSeq(near, n + 1, Len(near)) = <<>>
    BY SubSeqEmpty, EmptySeq
  <2> QED
    BY <1>1, <1>3, <2>1
<1>8. Silent(r)'
  <2>1. CASE r = "up"
    BY <1>1, <1>3, <1>4, <1>7, <2>1 DEF Drains, Silent, Ahead
  <2>2. CASE r # "up"
    BY <1>1, <1>3, <1>4, <2>2 DEF Drains, Silent, Ahead
  <2> QED
    BY <2>1, <2>2
<1>9. Quiescent(d)'
  BY <1>4 DEF Drains, Quiescent
<1>10. StopsLast(d)'
  <2>1. CASE d = "up"
    <3>1. wire'["ws"][d] = wire["ws"][d]
      BY <1>1, <1>3
    <3>2. wire[Near(d)][d] = <<>> => wire'[Near(d)][d] = <<>> /\ Ahead(d)' = <<>>
      BY <1>1, <1>7, <2>1 DEF Ahead
    <3> QED
      BY <1>4, <3>1, <3>2 DEF Drains, StopsLast, Stopped
  <2>2. CASE d # "up"
    <3>1. wire'["ws"][d] = wire["ws"][d] /\ wire'[Near(d)][d] = wire[Near(d)][d] /\ Ahead(d)' = Ahead(d)
      BY <1>1, <1>3, <2>2 DEF Ahead
    <3> QED
      BY <1>4, <3>1 DEF Drains, StopsLast, Stopped
  <2> QED
    BY <2>1, <2>2
<1>11. \A b \in Bridges : ClosesAfter(b, d)'
  BY <1>4, <1>5 DEF Drains, ClosesAfter, Stopped
<1>12. ClosedBy(d)'
  <2>1. (Closing(Entry(d))' <=> Closing(Entry(d))) /\ (Closing(Exit(d))' <=> Closing(Exit(d)))
    BY <1>5, SameClosing
  <2> QED
    BY <1>4, <2>1 DEF Drains, ClosedBy
<1> QED
  BY <1>4, <1>6, <1>8, <1>9, <1>10, <1>11, <1>12 DEF Drains

LEMMA DrainDials ==
    ASSUME PathInv, NEW d \in Directions, Drains(d), ClientDials \/ BackendDials
    PROVE  Drains(d)'
<1> DEFINE r == Reverse(d)
<1>1. r \in Directions /\ r # d /\ Entry(d) \in Bridges /\ Exit(d) \in Bridges
  BY Path
<1>2. Shape /\ Phases /\ \A c \in Bridges, f \in Directions : Pumps(c, f)
  BY DEF PathInv
<1>3. PICK b \in Bridges :
        /\ phase[b] = "dial" /\ phase'[b] = "bridge"
        /\ b = "client" => phase'["backend"] = "dial"
        /\ b = "backend" => phase'["client"] = phase["client"]
        /\ \A c \in Bridges, f \in Directions :
             pump'[c][f] = IF c = b THEN [pump[b][f] EXCEPT !.at = "read"] ELSE pump[c][f]
        /\ UNCHANGED <<prefix, wire, fin, deaf, errc, sent, got>>
  BY <1>2, DialsEffect
<1>4. \A c \in Bridges, f \in Directions :
        /\ pump'[c][f].last = pump[c][f].last /\ pump'[c][f].held = pump[c][f].held
        /\ c = b => pump'[c][f].at = "read" /\ pump[c][f].at = "off"
        /\ c # b => pump'[c][f].at = pump[c][f].at
  <2>1. \A c \in Bridges, f \in Directions : pump[c][f] \in PumpState
    BY <1>2 DEF Shape, PumpShape
  <2>2. \A f \in Directions : pump[b][f].at = "off"
    BY <1>2, <1>3 DEF Pumps
  <2>3. \A q \in PumpState : LET next == [q EXCEPT !.at = "read"]
                           IN  next.at = "read" /\ next.held = q.held /\ next.last = q.last
    BY DEF PumpState
  <2>4. ASSUME NEW f \in Directions
        PROVE  /\ pump'[b][f].at = "read" /\ pump[b][f].at = "off"
               /\ pump'[b][f].last = pump[b][f].last /\ pump'[b][f].held = pump[b][f].held
    <3> DEFINE q == pump[b][f]
    <3>1. q \in PumpState /\ q.at = "off"
      BY <2>1, <2>2
    <3>2. pump'[b][f] = [q EXCEPT !.at = "read"]
      BY <1>3
    <3> HIDE DEF q
    <3>3. pump'[b][f].at = "read" /\ pump'[b][f].held = q.held /\ pump'[b][f].last = q.last
      BY <2>3, <3>1, <3>2
    <3> QED
      BY <3>1, <3>3 DEF q
  <2>5. \A c \in Bridges, f \in Directions : c # b => pump'[c][f] = pump[c][f]
    BY <1>3
  <2> QED
    BY <2>4, <2>5
<1>5. \A c \in Bridges : Closing(c)' <=> Closing(c)
  <2>1. phase'["backend"] = phase["backend"] \/ b = "backend"
        \/ (phase["backend"] = "none" /\ phase'["backend"] = "dial")
    BY <1>2, <1>3 DEF Phases, Bridges
  <2>2. phase'["client"] = phase["client"] \/ b = "client"
    BY <1>3 DEF Bridges
  <2> QED
    BY <1>3, <2>1, <2>2 DEF Closing, Bridges
<1>6. \A c \in Bridges, f \in Directions :
        /\ Stopped(c, f)' => Stopped(c, f)
        /\ Held(c, f)' = Held(c, f)
  BY <1>4 DEF Stopped, Held
<1>7. Entered(d)' = Entered(d)
  <2>1. Ahead(d)' = Ahead(d)
    BY <1>3 DEF Ahead
  <2> QED
    BY <1>3, <1>6, <2>1, SamePath
<1>8. Silent(r)'
  BY <1>1, <1>3, <1>4 DEF Drains, Silent, Ahead
<1>9. Quiescent(d)'
  BY <1>3 DEF Drains, Quiescent
<1>10. StopsLast(d)'
  <2>1. /\ Stopped(Entry(d), d)' => Stopped(Entry(d), d)
        /\ Stopped(Exit(d), d)' => Stopped(Exit(d), d)
        /\ pump'[Entry(d)][d].last = pump[Entry(d)][d].last
        /\ pump'[Exit(d)][d].last = pump[Exit(d)][d].last
    BY <1>1, <1>4 DEF Stopped
  <2> QED
    BY <1>3, <2>1 DEF Drains, StopsLast, Stopped, Ahead
<1>11. ASSUME NEW c \in Bridges
       PROVE  ClosesAfter(c, d)'
  <2>1. ClosesAfter(c, d) /\ (pump[c][d].at = "done" => pump'[c][d].at = "done")
    BY <1>4 DEF Drains
  <2> QED
    BY <1>1, <1>3, <1>5, <1>6, <2>1 DEF ClosesAfter
<1>12. ClosedBy(d)'
  <2>1. (Closing(Entry(d))' <=> Closing(Entry(d))) /\ (Closing(Exit(d))' <=> Closing(Exit(d)))
    BY <1>5, SameClosing
  <2> QED
    BY <1>3, <2>1 DEF Drains, ClosedBy
<1> QED
  BY <1>3, <1>7, <1>8, <1>9, <1>10, <1>11, <1>12 DEF Drains

LEMMA DrainStep == PathInv /\ PathInv' /\ DrainInv /\ [Next]_vars => DrainInv'
<1> SUFFICES ASSUME PathInv, PathInv', DrainInv, [Next]_vars,
                    NEW d \in Directions, Orderly(d)'
             PROVE  Drains(d)'
  BY DEF DrainInv
<1>1. Directions = {d, Reverse(d)} /\ Shape
  BY Path DEF PathInv
<1>2. /\ Orderly(d) /\ ~Breaks /\ ~Sends(Reverse(d))
      /\ ~HalfCloses(Reverse(d)) /\ ~Closes(Reverse(d))
      /\ \A b \in Bridges : ~DialFails(b)
  BY <1>1, OrderlyBefore
<1>3. Drains(d)
  BY <1>2 DEF DrainInv
<1>4. CASE UNCHANGED vars
  BY <1>3, <1>4, DrainStill DEF vars, mainVars, linkVars, endVars
<1>5. ASSUME NEW e \in Directions, Sends(e) \/ HalfCloses(e) \/ Closes(e)
      PROVE  Drains(d)'
  <2>1. Sends(d) \/ HalfCloses(d) \/ Closes(d)
    BY <1>1, <1>2, <1>5
  <2> QED
    BY <1>3, <2>1, DrainSends, DrainSenderEnds
<1>6. ASSUME NEW e \in Directions, Receives(e)
      PROVE  Drains(d)'
  BY <1>3, <1>6, DrainReceives
<1>7. ASSUME NEW b \in Bridges, NEW e \in Directions, PumpStep(b, e)
      PROVE  Drains(d)'
  BY <1>3, <1>7, DrainReads, DrainReadFails, DrainWrites, DrainPumpEnds DEF PumpStep
<1>8. ASSUME NEW b \in Bridges, MainStep(b)
      PROVE  Drains(d)'
  BY <1>3, <1>8, DrainBridgeCloses
<1>9. CASE Dials
  BY <1>3, <1>9, DrainReadRequest, DrainDials DEF Dials
<1> QED
  BY <1>2, <1>4, <1>5, <1>6, <1>7, <1>8, <1>9 DEF Next

LEMMA DrainedAtTheEnd ==
    ASSUME PathInv, DrainInv
    PROVE  EofComplete
<1> SUFFICES ASSUME NEW d \in Directions, SawEnd(d), ended = d, sent[Reverse(d)] = 0
             PROVE  Len(got[d]) = sent[d]
  BY DEF EofComplete
<1>1. /\ Near(d) \in Links /\ Far(d) \in Links /\ "ws" \in Links
      /\ Entry(d) \in Bridges /\ Exit(d) \in Bridges
  BY Path
<1>2. Drains(d) /\ Pumps(Entry(d), d) /\ Pumps(Exit(d), d) /\ Typed(d)
  BY <1>1, PathTypes DEF DrainInv, Orderly, PathInv
<1>3. Closing(Exit(d)) /\ Closing(Entry(d))
  BY <1>2, DrainFacts DEF SawEnd, Drains, ClosedBy
<1>4. pump[Exit(d)][d].at = "done" /\ pump[Entry(d)][d].at = "done"
  BY <1>1, <1>2, <1>3 DEF Drains, ClosesAfter
<1>5. /\ wire[Near(d)][d] = <<>> /\ Ahead(d) = <<>> /\ wire["ws"][d] = <<>> /\ wire[Far(d)][d] = <<>>
      /\ Held(Entry(d), d) = <<>> /\ Held(Exit(d), d) = <<>>
  BY <1>2, <1>4 DEF Drains, StopsLast, Stopped, Pumps, SawEnd
<1>6. \A s \in Seq(Nat) : s \o <<>> = s
  BY ConcatEmptySeq
<1>7. Arrived(d) = got[d] /\ got[d] \in Seq(Nat)
  BY <1>2, <1>5, <1>6 DEF Arrived, Typed
<1>8. Passed(d) = got[d]
  BY <1>5, <1>6, <1>7 DEF Passed
<1>9. Entered(d) = got[d]
  BY <1>5, <1>6, <1>7, <1>8 DEF Entered
<1> QED
  BY <1>2, <1>9 DEF Drains

\* The orderly end of a stream is the whole stream: when its sender is the only one that
\* has ended anything, and the other direction was not used, a receiver that sees the
\* end has every chunk, although each bridge closes both connections as soon as one of
\* its pumps ends (bridge.go:110-128, ws_proxy.go:48-67).
THEOREM EofCompleteAlways == Spec => []EofComplete
<1>1. Init => DrainInv
  BY DrainInit
<1>2. PathInv /\ PathInv' /\ DrainInv /\ [Next]_vars => DrainInv'
  BY DrainStep
<1>3. PathInv /\ DrainInv => EofComplete
  BY DrainedAtTheEnd
<1> QED
  BY <1>1, <1>2, <1>3, PathAlways, PTL DEF Spec
=============================================================================
