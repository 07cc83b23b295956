------------------------------ MODULE KickProofs ------------------------------
(***************************************************************************)
(* Proofs about Kick, for any clients, instances, ports and requests.      *)
(*                                                                         *)
(* KilledStayOut follows from types and from killed clients being in ccd.  *)
(* DisabledFirst needs more: that two clients of a server never have the   *)
(* same port, that conns names a client with that very port, and that a    *)
(* kick's target is disabled by the time it is looked up and closed.       *)
(***************************************************************************)
EXTENDS Kick, TLAPS

\* What pc says of the variables a kick uses from one step to the next.
Busy ==
    \A k \in Kickers :
        /\ pc[k] \in {"query", "close", "kill"} => target[k] \in Clients
        /\ pc[k] = "close" => found[k] \in Ports

TInv == TypeOK /\ Busy

\* A killed client cannot be admitted again.
Dead == \A c \in killed : c \in ccd /\ session[c] = NoPort

\* Tunnels and sessions of two clients of a server have different ports, and an
\* entry of conns is a tunnel with that port.
OnePort ==
    /\ \A p \in Ports : \A c, d \in Clients :
            Owns(c, p) /\ Owns(d, p) /\ Server[c] = Server[d] => c = d
    /\ \A p \in Ports : conns[p] # NoClient => conns[p] \in entered /\ port[conns[p]] = p

\* Whoever is about to be cut off is disabled by then.
Aimed == \A k \in Kickers : pc[k] \in {"query", "close", "kill"} => target[k] \in ccd

KInv == TInv /\ OnePort /\ Aimed

LEMMA InitTInv == Init => TInv
  BY NullsDistinct DEF Init, TInv, TypeOK, Busy, Kickers

LEMMA StepTInv == TInv /\ [Next]_vars => TInv'
<1> SUFFICES ASSUME TInv, [Next]_vars PROVE TInv'
  OBVIOUS
<1> USE NullsDistinct, ClientsHaveHomes DEF TInv, TypeOK, Busy, Kickers
<1>1. ASSUME NEW c \in Clients, ClientStep(c) PROVE TInv'
  <2>1. ASSUME NEW p \in Ports, Connect(c, p) PROVE TInv'
    BY <2>1 DEF Connect, kickVars
  <2>2. CASE Enter(c)
    BY <2>2 DEF Enter, kickVars
  <2>3. CASE TunnelEnds(c)
    BY <2>3 DEF TunnelEnds, Removed, kickVars
  <2>4. CASE Admit(c)
    BY <2>4 DEF Admit, kickVars
  <2>5. CASE Notice(c)
    BY <2>5 DEF Notice, tunnelVars, kickVars
  <2>6. CASE BecomesLate(c)
    BY <2>6 DEF BecomesLate, tunnelVars, kickVars
  <2>7. CASE LimitRaised(c)
    BY <2>7 DEF LimitRaised, tunnelVars, kickVars
  <2>8. QED
    BY <1>1, <2>1, <2>2, <2>3, <2>4, <2>5, <2>6, <2>7 DEF ClientStep
<1>2. CASE Tick
  BY <1>2 DEF Tick, Goto, tunnelVars
<1>3. ASSUME NEW k \in Requests, NEW c \in Clients, Kick(k, c) PROVE TInv'
  BY <1>3 DEF Kick, Disabled, Goto, tunnelVars
<1>4. ASSUME NEW k \in Requests, NEW a \in Addresses, Ban(k, a) PROVE TInv'
  BY <1>4 DEF Ban, Goto, tunnelVars
<1>5. ASSUME NEW k \in Kickers, KickerStep(k) PROVE TInv'
  <2>1. ASSUME NEW i \in Instances, NEW list \in SUBSET Listed(i), Scan(k, i, list)
        PROVE TInv'
    BY <2>1 DEF Scan, Listed, Goto, tunnelVars
  <2>2. CASE TakeNext(k)
    BY <2>2 DEF TakeNext, Disabled, Goto, tunnelVars
  <2>3. ASSUME NEW list \in Answers(k), Query(k, list) PROVE TInv'
    BY <2>3 DEF Query, Answers, Listed, Goto, tunnelVars
  <2>4. CASE Close(k)
    BY <2>4 DEF Close, Mapped, Goto
  <2>5. CASE Kill(k)
    BY <2>5 DEF Kill, Ensured, Goto
  <2>6. CASE KillUnanswered(k)
    BY <2>6 DEF KillUnanswered, Ensured, Goto, tunnelVars
  <2>7. QED
    BY <1>5, <2>1, <2>2, <2>3, <2>4, <2>5, <2>6 DEF KickerStep
<1>6. CASE UNCHANGED vars
  BY <1>6 DEF vars, tunnelVars, kickVars
<1>7. QED
  BY <1>1, <1>2, <1>3, <1>4, <1>5, <1>6 DEF Next

\* The types of the variables, and what the steps of a kick rely on.
THEOREM TypeCorrect == Spec => []TypeOK
<1>1. TInv => TypeOK
  BY DEF TInv
<1> QED
  BY <1>1, InitTInv, StepTInv, PTL DEF Spec

----------------------------------------------------------------------------
(* A killed client stays out.                                              *)

LEMMA StepDead == TInv /\ Dead /\ [Next]_vars => Dead'
<1> SUFFICES ASSUME TInv, Dead, [Next]_vars, NEW d \in killed'
             PROVE  d \in ccd' /\ session'[d] = NoPort
  BY DEF Dead
<1> USE DEF TInv, TypeOK, Dead, Kickers
<1>1. ASSUME NEW c \in Clients, ClientStep(c) PROVE d \in ccd' /\ session'[d] = NoPort
  <2>1. CASE Admit(c)
    BY <2>1 DEF Admit
  <2>2. CASE Notice(c)
    BY <2>2 DEF Notice
  <2>3. CASE ~ (Admit(c) \/ Notice(c))
    <3>1. UNCHANGED <<ccd, session, killed>>
      BY <1>1, <2>3 DEF ClientStep, Connect, Enter, TunnelEnds, BecomesLate, LimitRaised
    <3> QED
      BY <3>1
  <2> QED
    BY <2>1, <2>2, <2>3
<1>2. CASE Tick
  BY <1>2 DEF Tick
<1>3. ASSUME NEW k \in Requests, NEW c \in Clients, Kick(k, c)
      PROVE  d \in ccd' /\ session'[d] = NoPort
  BY <1>3 DEF Kick, Disabled
<1>4. ASSUME NEW k \in Requests, NEW a \in Addresses, Ban(k, a)
      PROVE  d \in ccd' /\ session'[d] = NoPort
  BY <1>4 DEF Ban
<1>5. ASSUME NEW k \in Kickers, KickerStep(k) PROVE d \in ccd' /\ session'[d] = NoPort
  <2>1. CASE Kill(k)
    BY <2>1 DEF Kill, Ensured, Busy
  <2>2. CASE ~ Kill(k)
    <3>1. UNCHANGED <<session, killed>> /\ ccd \subseteq ccd'
      BY <1>5, <2>2 DEF KickerStep, Scan, TakeNext, Query, Close, KillUnanswered, Disabled, Ensured
    <3> QED
      BY <3>1
  <2> QED
    BY <2>1, <2>2
<1>6. CASE UNCHANGED vars
  BY <1>6 DEF vars
<1> QED
  BY <1>1, <1>2, <1>3, <1>4, <1>5, <1>6 DEF Next

\* Once OpenVPN has carried out a kill, the client has no session ever after,
\* whatever else goes on and however ports are reused.
THEOREM KilledStayOutAlways == Spec => []KilledStayOut
<1>1. Init => Dead
  BY DEF Init, Dead
<1>2. Dead => KilledStayOut
  BY DEF Dead, KilledStayOut
<1> QED
  BY <1>1, <1>2, InitTInv, StepTInv, StepDead, PTL DEF Spec

----------------------------------------------------------------------------
(* A connection is only ended for a client that is already disabled.       *)

LEMMA KInvInit == Init => KInv
  BY InitTInv, NullsDistinct DEF Init, KInv, OnePort, Owns, Aimed

LEMMA KInvStep == KInv /\ [Next]_vars => KInv'
<1> DEFINE Rest == OnePort /\ Aimed
<1> SUFFICES ASSUME KInv, [Next]_vars PROVE Rest'
  BY StepTInv DEF KInv
<1>0. TInv'
  BY StepTInv DEF KInv
<1> USE NullsDistinct DEF KInv, TInv, TypeOK, Busy, Kickers, OnePort, Aimed, Owns
<1>1. ASSUME NEW c \in Clients, ClientStep(c) PROVE Rest'
  <2>1. ASSUME NEW p \in Ports, Connect(c, p) PROVE Rest'
    BY <2>1 DEF Connect, PortFree, kickVars
  <2>2. CASE Enter(c)
    BY <2>2 DEF Enter, kickVars
  <2>3. CASE TunnelEnds(c)
    BY <2>3 DEF TunnelEnds, Removed, kickVars
  <2>4. CASE Admit(c)
    BY <2>4 DEF Admit, kickVars
  <2>5. CASE Notice(c)
    BY <2>5 DEF Notice, tunnelVars, kickVars
  <2>6. CASE BecomesLate(c)
    BY <2>6 DEF BecomesLate, tunnelVars, kickVars
  <2>7. CASE LimitRaised(c)
    BY <2>7 DEF LimitRaised, tunnelVars, kickVars
  <2>8. QED
    BY <1>1, <2>1, <2>2, <2>3, <2>4, <2>5, <2>6, <2>7 DEF ClientStep
<1>2. CASE Tick
  BY <1>2 DEF Tick, Goto, tunnelVars
<1>3. ASSUME NEW k \in Requests, NEW c \in Clients, Kick(k, c) PROVE Rest'
  BY <1>3 DEF Kick, Disabled, Goto, tunnelVars
<1>4. ASSUME NEW k \in Requests, NEW a \in Addresses, Ban(k, a) PROVE Rest'
  BY <1>4 DEF Ban, Goto, tunnelVars
<1>5. ASSUME NEW k \in Kickers, KickerStep(k) PROVE Rest'
  <2>1. ASSUME NEW i \in Instances, NEW list \in SUBSET Listed(i), Scan(k, i, list)
        PROVE Rest'
    BY <2>1 DEF Scan, Wanted, Listed, Goto, tunnelVars
  <2>2. CASE TakeNext(k)
    BY <2>2 DEF TakeNext, Disabled, Goto, tunnelVars
  <2>3. ASSUME NEW list \in Answers(k), Query(k, list) PROVE Rest'
    BY <2>3 DEF Query, Answers, Listed, Goto, tunnelVars
  <2>4. CASE Close(k)
    BY <2>4 DEF Close, Mapped, Goto
  <2>5. CASE Kill(k)
    BY <2>5 DEF Kill, Ensured, Goto
  <2>6. CASE KillUnanswered(k)
    BY <2>6 DEF KillUnanswered, Ensured, Goto, tunnelVars
  <2>7. QED
    BY <1>5, <2>1, <2>2, <2>3, <2>4, <2>5, <2>6 DEF KickerStep
<1>6. CASE UNCHANGED vars
  BY <1>6 DEF vars, tunnelVars, kickVars
<1>7. QED
  BY <1>1, <1>2, <1>3, <1>4, <1>5, <1>6 DEF Next

\* What a step closes: a client that is disabled by then, or one that a kick meets
\* at a port which is not, or not only, that of the client it is after.
LEMMA DisabledFirstStep ==
    ASSUME KInv, [Next]_vars, NEW c \in closing', c \notin closing
    PROVE  c \in ccd' \/ \E k \in Kickers : Astray(k, c)
<1> USE DEF KInv, TInv, TypeOK, Busy, Kickers, Aimed
<1>1. ASSUME NEW d \in Clients, Admit(d) PROVE c \in ccd'
  BY <1>1 DEF Admit
<1>2. ASSUME NEW k \in Kickers, Close(k) PROVE c \in ccd' \/ Astray(k, c)
  <2> USE DEF Close
  <2>1. c \in Mapped(found[k]) /\ found[k] \in Ports /\ target[k] \in Clients
    BY <1>2
  <2>2. conns[found[k]] = c /\ c # NoClient /\ c \in Clients
    BY <2>1 DEF Mapped
  <2>3. port[c] = found[k]
    BY <2>1, <2>2 DEF OnePort
  <2>4. CASE Owns(target[k], found[k]) /\ Server[c] = Server[target[k]]
    <3>1. c = target[k]
      BY <2>1, <2>2, <2>3, <2>4 DEF OnePort, Owns
    <3>2. target[k] \in ccd /\ ccd' = ccd
      BY <1>2
    <3> QED
      BY <3>1, <3>2
  <2>5. CASE ~ (Owns(target[k], found[k]) /\ Server[c] = Server[target[k]])
    BY <1>2, <2>1, <2>5 DEF Astray
  <2> QED
    BY <2>4, <2>5
<1>3. ASSUME NEW k \in Kickers, Kill(k) PROVE c \in ccd'
  BY <1>3 DEF Kill, Ensured
<1>4. CASE closing' \subseteq closing
  BY <1>4
<1>5. \/ \E d \in Clients : Admit(d)
      \/ \E k \in Kickers : Close(k) \/ Kill(k)
      \/ closing' \subseteq closing
  BY DEF Next, ClientStep, KickerStep, Connect, Enter, TunnelEnds, Notice, BecomesLate,
     LimitRaised, Tick, Kick, Ban, Scan, TakeNext, Query, KillUnanswered, tunnelVars, vars
<1> QED
  BY <1>1, <1>2, <1>3, <1>4, <1>5

\* A connection that is ended is that of a client whose CCD file was there before,
\* with the exceptions that the property names.
THEOREM DisabledFirstAlways == Spec => DisabledFirst
<1>1. KInv /\ [Next]_vars =>
        [\A c \in closing' \ closing : c \in ccd' \/ \E k \in Kickers : Astray(k, c)]_vars
  BY DisabledFirstStep
<1> QED
  BY <1>1, KInvInit, KInvStep, PTL DEF Spec, DisabledFirst
=============================================================================
