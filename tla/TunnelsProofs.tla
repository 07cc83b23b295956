--------------------------- MODULE TunnelsProofs ---------------------------
(***************************************************************************)
(* Theorems about Tunnels for any handlers, instances, ports and limits.   *)
(***************************************************************************)
EXTENDS Tunnels, FiniteSetTheorems, TLAPS

(* A window is a finite set of handlers, so its size is a number.          *)
LEMMA WindowSize ==
    ASSUME NEW i
    PROVE  IsFiniteSet(Window(i)) /\ Cardinality(Window(i)) \in Nat
<1>1. Window(i) \subseteq Handlers
  BY DEF Window
<1> QED
  BY <1>1, HandlersFinite, FS_Subset, FS_CardinalityType

LEMMA TypeInit == Init => TypeOK
  BY NullsDistinct DEF Init, TypeOK, PCs, InstanceRecord

LEMMA TypeStep == TypeOK /\ [Next]_vars => TypeOK'
<1> SUFFICES ASSUME TypeOK, [Next]_vars PROVE TypeOK'
  OBVIOUS
<1> USE DEF TypeOK
<1>1. ASSUME NEW h \in Handlers, NEW i \in Instances, Lookup(h, i) PROVE TypeOK'
  BY <1>1 DEF Lookup, Goto, PCs, backendVars, handlerVars, vars
<1>2. ASSUME NEW h \in Handlers, HandlerStep(h) PROVE TypeOK'
  <2>1. CASE CheckLocked(h)
    BY <2>1 DEF CheckLocked, Return, Advance, Goto, PCs, backendVars
  <2>2. CASE CheckLimit(h)
    <3>1. CASE Return(h)
      BY <3>1 DEF Return, Goto, PCs, backendVars
    <3>2. CASE ~Return(h)
      <4> DEFINE sum == EffectiveMaxClients(inst[h]) + Cardinality(Window(inst[h]))
      <4>1. inst[h] \in Instances => sum \in Int
        BY WindowSize, LimitsAreIntegers DEF EffectiveMaxClients, Effective, InstanceRecord
      <4>2. peak' = [peak EXCEPT ![inst[h]] = IF @ > sum THEN @ ELSE sum]
        BY <2>2, <3>2 DEF CheckLimit
      <4> HIDE DEF sum
      <4>3. peak' \in [Instances -> Int]
        BY <4>1, <4>2
      <4> QED
        BY <2>2, <3>2, <4>3 DEF CheckLimit, Goto, PCs, backendVars
    <3> QED
      BY <3>1, <3>2
  <2>3. CASE Resolve(h)
    BY <2>3 DEF Resolve, Return, Advance, Goto, PCs, backendVars
  <2>4. CASE Upgrade(h)
    BY <2>4 DEF Upgrade, Return, Goto, PCs, backendVars
  <2>5. CASE DialFail(h)
    BY <2>5 DEF DialFail, Goto, PCs, backendVars
  <2>6. ASSUME NEW p \in Ports, DialOk(h, p) PROVE TypeOK'
    BY <2>6 DEF DialOk, Goto, PCs, backendVars
  <2>7. CASE BridgeEnds(h)
    BY <2>7 DEF BridgeEnds, Goto, PCs, backendVars
  <2>8. CASE Cleanup(h)
    BY <2>8 DEF Cleanup, Removed, Goto, PCs, backendVars
  <2> QED
    BY <1>2, <2>1, <2>2, <2>3, <2>4, <2>5, <2>6, <2>7, <2>8 DEF HandlerStep
<1>3. ASSUME NEW h \in Handlers, Register(h) PROVE TypeOK'
  BY <1>3 DEF Register, Entered, backendVars
<1>4. ASSUME NEW h \in Handlers, CloseWS(h) \/ ClientVanishes(h) \/ PeerDrops(h)
      PROVE  TypeOK'
  BY <1>4 DEF CloseWS, ClientVanishes, PeerDrops, backendVars
<1>5. ASSUME NEW i \in Instances, ManagerStep(i) PROVE TypeOK'
  <2> USE DEF InstanceRecord
  <2>1. CASE CreateInstance(i)
    BY <2>1 DEF CreateInstance, handlerVars
  <2>2. CASE StartInstance(i)
    BY <2>2 DEF StartInstance, handlerVars
  <2>3. CASE StopInstance(i)
    BY <2>3 DEF StopInstance, RemoveContainer, ContainerBecomes, handlerVars
  <2>4. CASE DeleteInstance(i)
    BY <2>4 DEF DeleteInstance, RemoveContainer, ContainerBecomes, handlerVars
  <2>5. CASE ContainerDies(i)
    BY <2>5 DEF ContainerDies, ContainerBecomes
  <2>6. ASSUME NEW b \in BOOLEAN, SetLocked(i, b) PROVE TypeOK'
    BY <2>6 DEF SetLocked, handlerVars
  <2>7. ASSUME NEW n \in MaxInputs, SetMaxClients(i, n) PROVE TypeOK'
    <3>1. n \in Int
      BY LimitsAreIntegers
    <3> QED
      BY <2>7, <3>1 DEF SetMaxClients, handlerVars
  <2> QED
    BY <1>5, <2>1, <2>2, <2>3, <2>4, <2>5, <2>6, <2>7 DEF ManagerStep
<1>6. CASE UNCHANGED vars
  BY <1>6 DEF vars, backendVars, handlerVars
<1> QED
  BY <1>1, <1>2, <1>3, <1>4, <1>5, <1>6 DEF Next

(* Type correctness: every variable of the tunnels keeps the shape that    *)
(* TypeOK gives it.                                                        *)
THEOREM TypeCorrect == Spec => []TypeOK
  BY TypeInit, TypeStep, PTL DEF Spec

----------------------------------------------------------------------------
(* NoStaleEntry is not inductive by itself: it needs to know where in its  *)
(* life a handler can have a source port and a registrar that has spoken.  *)

Bookkeeping ==
    \A h \in Handlers :
        /\ pc[h] # "idle" => inst[h] \in Instances
        /\ reg[h] \in {"sent", "registered"} <=> pc[h] \in {"bridge", "cleanup"}
        /\ src[h] # NoPort => pc[h] \in {"bridge", "cleanup"}

EntriesInv == TypeOK /\ Bookkeeping /\ NoStaleEntry

LEMMA EntriesInvInit == Init => EntriesInv
<1> SUFFICES ASSUME Init PROVE Bookkeeping /\ NoStaleEntry
  BY TypeInit DEF EntriesInv
<1> QED
  BY DEF Init, Bookkeeping, NoStaleEntry

LEMMA EntriesInvStep == EntriesInv /\ [Next]_vars => EntriesInv'
<1> SUFFICES ASSUME EntriesInv, [Next]_vars PROVE Bookkeeping' /\ NoStaleEntry'
  BY TypeStep DEF EntriesInv
<1> USE NullsDistinct DEF EntriesInv, Bookkeeping, NoStaleEntry
<1>1. ASSUME NEW h \in Handlers, NEW i \in Instances, Lookup(h, i)
      PROVE  Bookkeeping' /\ NoStaleEntry'
  BY <1>1 DEF Lookup, Goto, TypeOK, backendVars, handlerVars, vars
<1>2. ASSUME NEW h \in Handlers, HandlerStep(h)
      PROVE  Bookkeeping' /\ NoStaleEntry'
  <2>1. CASE CheckLocked(h)
    BY <2>1 DEF CheckLocked, Return, Advance, Goto, TypeOK, backendVars
  <2>2. CASE CheckLimit(h)
    BY <2>2 DEF CheckLimit, Return, Goto, TypeOK, backendVars
  <2>3. CASE Resolve(h)
    BY <2>3 DEF Resolve, Return, Advance, Goto, TypeOK, backendVars
  <2>4. CASE Upgrade(h)
    BY <2>4 DEF Upgrade, Return, Goto, TypeOK, backendVars
  <2>5. CASE DialFail(h)
    BY <2>5 DEF DialFail, Goto, TypeOK, backendVars
  <2>6. ASSUME NEW p \in Ports, DialOk(h, p) PROVE Bookkeeping' /\ NoStaleEntry'
    BY <2>6 DEF DialOk, Goto, TypeOK, backendVars
  <2>7. CASE BridgeEnds(h)
    BY <2>7 DEF BridgeEnds, Goto, TypeOK, backendVars
  <2>8. CASE Cleanup(h)
    BY <2>8 DEF Cleanup, RegistrarDone, Removed, Goto, TypeOK, backendVars
  <2> QED
    BY <1>2, <2>1, <2>2, <2>3, <2>4, <2>5, <2>6, <2>7, <2>8 DEF HandlerStep
<1>3. ASSUME NEW h \in Handlers, Register(h) PROVE Bookkeeping' /\ NoStaleEntry'
  BY <1>3 DEF Register, Entered, TypeOK, backendVars
<1>4. ASSUME NEW h \in Handlers, CloseWS(h) \/ ClientVanishes(h) \/ PeerDrops(h)
      PROVE  Bookkeeping' /\ NoStaleEntry'
  BY <1>4 DEF CloseWS, ClientVanishes, PeerDrops, backendVars
<1>5. ASSUME NEW i \in Instances, ManagerStep(i) PROVE Bookkeeping' /\ NoStaleEntry'
  BY <1>5 DEF ManagerStep, CreateInstance, StartInstance, StopInstance, DeleteInstance,
              ContainerDies, RemoveContainer, ContainerBecomes, SetLocked, SetMaxClients, handlerVars
<1>6. CASE UNCHANGED vars
  BY <1>6 DEF vars, backendVars, handlerVars
<1> QED
  BY <1>1, <1>2, <1>3, <1>4, <1>5, <1>6 DEF Next

(* No entry of conns outlives its tunnel or names another port than the    *)
(* tunnel's own, whichever ports the kernel gives out.                     *)
THEOREM NoStaleEntryAlways == Spec => []NoStaleEntry
<1>1. EntriesInv => NoStaleEntry
  BY DEF EntriesInv
<1> QED
  BY <1>1, EntriesInvInit, EntriesInvStep, PTL DEF Spec

----------------------------------------------------------------------------
(* What deleting and locking an instance settle for good.                  *)

Deleted(i) == instances[i].life = "deleted"

\* The requests that are at i, wherever they are in vpnProxy.
Visitors(i) == {h \in Handlers : inst[h] = i}

Up(i) == container[i] = "up"

\* No request is at i, and conns has no entry of it.
Drained(i) == (\A h \in Handlers : inst[h] # i) /\ CountConns(i) = 0

\* No request for i is between the check of the lock and the end of the dial.
Quiet(i) ==
    \A h \in Handlers : inst[h] = i => pc[h] \notin {"limit", "resolve", "upgrade", "dial"}

\* A step of a handler: none gets to an instance but one that is served and only to the
\* check of the lock, none opens a connection but to a container that accepts it, and none
\* passes the check of the lock but where it is open.
Careful(h) ==
    /\ UNCHANGED backendVars
    /\ \A g \in Handlers \ {h} :
         inst'[g] = inst[g] /\ pc'[g] = pc[g] /\ tcp'[g] = tcp[g]
    /\ \/ inst'[h] = inst[h]
       \/ inst'[h] = NoInstance
       \/ inst'[h] \in Instances /\ Serving(inst'[h]) /\ pc'[h] = "locked"
    /\ tcp'[h] = "open" => tcp[h] = "open" \/ Up(inst[h])
    /\ pc'[h] \in {"limit", "resolve", "upgrade", "dial"} =>
         \/ pc[h] \in {"limit", "resolve", "upgrade", "dial"}
         \/ ~instances[inst[h]].locked

LEMMA HandlersAreCareful ==
    ASSUME EntriesInv, NEW h \in Handlers,
           \/ \E i \in Instances : Lookup(h, i)
           \/ HandlerStep(h) \/ Register(h) \/ CloseWS(h) \/ ClientVanishes(h) \/ PeerDrops(h)
    PROVE  Careful(h)
<1> USE DEF Careful, Up, EntriesInv, TypeOK, Goto, backendVars
<1>1. ASSUME NEW i \in Instances, Lookup(h, i) PROVE Careful(h)
  BY <1>1 DEF Lookup, vars, handlerVars
<1>2. CASE HandlerStep(h)
  <2>1. CASE CheckLocked(h)
    BY <2>1 DEF CheckLocked, RejectsLocked, Return, Advance
  <2>2. CASE CheckLimit(h)
    BY <2>2 DEF CheckLimit, Return
  <2>3. CASE Resolve(h)
    BY <2>3 DEF Resolve, Return, Advance
  <2>4. CASE Upgrade(h)
    BY <2>4 DEF Upgrade, Return
  <2>5. CASE DialFail(h)
    BY <2>5 DEF DialFail
  <2>6. ASSUME NEW p \in Ports, DialOk(h, p) PROVE Careful(h)
    BY <2>6 DEF DialOk
  <2>7. CASE BridgeEnds(h)
    BY <2>7 DEF BridgeEnds
  <2>8. CASE Cleanup(h)
    BY <2>8 DEF Cleanup
  <2> QED
    BY <1>2, <2>1, <2>2, <2>3, <2>4, <2>5, <2>6, <2>7, <2>8 DEF HandlerStep
<1>3. CASE Register(h) \/ CloseWS(h) \/ ClientVanishes(h) \/ PeerDrops(h)
  BY <1>3 DEF Register, CloseWS, ClientVanishes, PeerDrops
<1> QED
  BY <1>1, <1>2, <1>3

\* What the manager's operations leave as it is.
LEMMA ManagerKeeps ==
    ASSUME EntriesInv, NEW j \in Instances, ManagerStep(j)
    PROVE  /\ UNCHANGED <<inst, pc, conns>>
           /\ \A h \in Handlers : tcp'[h] = "open" => tcp[h] = "open"
           /\ \A i \in Instances : Deleted(i) => Deleted(i)' /\ (Up(i)' => Up(i))
<1> USE DEF EntriesInv, TypeOK, Deleted, Up
<1>1. ASSUME NEW i \in Instances, NEW state, state = "up" => Up(i), ContainerBecomes(i, state)
      PROVE  /\ UNCHANGED <<inst, pc, conns>>
             /\ \A h \in Handlers : tcp'[h] = "open" => tcp[h] = "open"
             /\ \A k \in Instances : Up(k)' => Up(k)
  BY <1>1 DEF ContainerBecomes
<1>2. ASSUME RemoveContainer(j)
      PROVE  /\ UNCHANGED <<inst, pc, conns>>
             /\ \A h \in Handlers : tcp'[h] = "open" => tcp[h] = "open"
             /\ \A k \in Instances : Up(k)' => Up(k)
  <2>1. ASSUME NEW state \in {"none", "exited", container[j]}, ContainerBecomes(j, state)
        PROVE  /\ UNCHANGED <<inst, pc, conns>>
               /\ \A h \in Handlers : tcp'[h] = "open" => tcp[h] = "open"
               /\ \A k \in Instances : Up(k)' => Up(k)
    BY <1>1, <2>1
  <2> QED
    BY <1>2, <2>1 DEF RemoveContainer, handlerVars
<1>3. CASE CreateInstance(j) \/ StartInstance(j)
  <2>1. /\ UNCHANGED <<inst, pc, tcp, conns>> /\ ~Deleted(j)
        /\ container' = [container EXCEPT ![j] = "up"]
    BY <1>3 DEF CreateInstance, StartInstance, handlerVars
  <2>2. \A i \in Instances : Deleted(i)' <=> Deleted(i)
    BY <1>3 DEF CreateInstance, StartInstance, InstanceRecord
  <2> QED
    BY <2>1, <2>2
<1>4. CASE StopInstance(j) \/ DeleteInstance(j) \/ ContainerDies(j)
  <2>1. /\ UNCHANGED <<inst, pc, conns>>
        /\ \A h \in Handlers : tcp'[h] = "open" => tcp[h] = "open"
        /\ \A k \in Instances : Up(k)' => Up(k)
    BY <1>1, <1>2, <1>4 DEF StopInstance, DeleteInstance, ContainerDies
  <2>2. \A i \in Instances : Deleted(i) => Deleted(i)'
    BY <1>4 DEF StopInstance, DeleteInstance, ContainerDies
  <2> QED
    BY <2>1, <2>2
<1>5. ASSUME NEW locked \in BOOLEAN, SetLocked(j, locked)
      PROVE  UNCHANGED <<handlerVars, container, conns>> /\ \A i \in Instances : Deleted(i)' <=> Deleted(i)
  BY <1>5 DEF SetLocked
<1>6. ASSUME NEW max \in MaxInputs, SetMaxClients(j, max)
      PROVE  UNCHANGED <<handlerVars, container, conns>> /\ \A i \in Instances : Deleted(i)' <=> Deleted(i)
  BY <1>6 DEF SetMaxClients
<1> QED
  BY <1>3, <1>4, <1>5, <1>6 DEF ManagerStep, handlerVars

\* An open connection is one to a container that is up.
OpenIsUp == \A h \in Handlers : tcp[h] = "open" => inst[h] \in Instances /\ Up(inst[h])

\* A request that is gone or has not dialled has no connection.
DialledFirst == \A h \in Handlers : tcp[h] = "open" => pc[h] = "bridge"

LEMMA OpenIsUpStep ==
    ASSUME EntriesInv, OpenIsUp, DialledFirst, [Next]_vars
    PROVE  OpenIsUp' /\ DialledFirst'
<1> USE DEF OpenIsUp, DialledFirst, Up, EntriesInv, Bookkeeping, TypeOK
<1>1. ASSUME NEW h \in Handlers, NEW i \in Instances, Lookup(h, i) PROVE OpenIsUp' /\ DialledFirst'
  BY <1>1 DEF Lookup, Goto, vars, backendVars, handlerVars
<1>2. ASSUME NEW h \in Handlers, HandlerStep(h) PROVE OpenIsUp' /\ DialledFirst'
  <2>1. CASE CheckLocked(h) \/ CheckLimit(h) \/ Resolve(h)
    BY <2>1 DEF CheckLocked, CheckLimit, Resolve, Return, Advance, Goto, backendVars
  <2>2. CASE Upgrade(h) \/ DialFail(h)
    BY <2>2 DEF Upgrade, DialFail, Return, Goto, backendVars
  <2>3. ASSUME NEW p \in Ports, DialOk(h, p) PROVE OpenIsUp' /\ DialledFirst'
    BY <2>3 DEF DialOk, Goto, backendVars
  <2>4. CASE BridgeEnds(h) \/ Cleanup(h)
    BY <2>4 DEF BridgeEnds, Cleanup, Goto, backendVars
  <2> QED
    BY <1>2, <2>1, <2>2, <2>3, <2>4 DEF HandlerStep
<1>3. ASSUME NEW h \in Handlers, Register(h) \/ CloseWS(h) \/ ClientVanishes(h) \/ PeerDrops(h)
      PROVE  OpenIsUp' /\ DialledFirst'
  BY <1>3 DEF Register, CloseWS, ClientVanishes, PeerDrops, backendVars
<1>4. ASSUME NEW j \in Instances, ManagerStep(j) PROVE OpenIsUp' /\ DialledFirst'
  <2>1. ASSUME NEW state, ContainerBecomes(j, state) PROVE OpenIsUp' /\ DialledFirst'
    BY <2>1 DEF ContainerBecomes
  <2>2. ASSUME RemoveContainer(j) PROVE OpenIsUp' /\ DialledFirst'
    BY <2>1, <2>2 DEF RemoveContainer, handlerVars
  <2>3. CASE CreateInstance(j) \/ StartInstance(j)
    BY <2>3 DEF CreateInstance, StartInstance, handlerVars
  <2>4. CASE StopInstance(j) \/ DeleteInstance(j) \/ ContainerDies(j)
    BY <2>1, <2>2, <2>4 DEF StopInstance, DeleteInstance, ContainerDies
  <2>5. CASE UNCHANGED <<container, inst, tcp, pc>>
    BY <2>5
  <2> QED
    BY <1>4, <2>3, <2>4, <2>5 DEF ManagerStep, SetLocked, SetMaxClients, handlerVars
<1>5. CASE UNCHANGED vars
  BY <1>5 DEF vars, backendVars, handlerVars
<1> QED
  BY <1>1, <1>2, <1>3, <1>4, <1>5 DEF Next

\* What is left of a deleted instance only becomes less.
Dwindles(i) ==
    Deleted(i) => /\ Deleted(i)'
                  /\ Visitors(i)' \subseteq Visitors(i)
                  /\ Up(i)' => Up(i)
                  /\ ~Up(i)' => \A h \in Visitors(i)' : tcp'[h] # "open"

LEMMA DwindlesStep ==
    ASSUME EntriesInv, OpenIsUp, DialledFirst, [Next]_vars, NEW i \in Instances
    PROVE  Dwindles(i)
<1>1. OpenIsUp'
  BY OpenIsUpStep
<1>2. ASSUME NEW h \in Visitors(i)', ~Up(i)' PROVE tcp'[h] # "open"
  BY <1>1, <1>2 DEF OpenIsUp, Visitors
<1>3. ASSUME NEW h \in Handlers, Careful(h), Deleted(i)
      PROVE  Deleted(i)' /\ Visitors(i)' \subseteq Visitors(i) /\ (Up(i)' => Up(i))
  BY <1>3, NullsDistinct DEF Careful, Serving, Deleted, Visitors, Up, backendVars
<1>4. ASSUME NEW j \in Instances, ManagerStep(j), Deleted(i)
      PROVE  Deleted(i)' /\ Visitors(i)' \subseteq Visitors(i) /\ (Up(i)' => Up(i))
  BY <1>4, ManagerKeeps DEF Visitors
<1>5. CASE UNCHANGED vars
  BY <1>2, <1>5 DEF vars, backendVars, handlerVars, Dwindles, Deleted, Visitors, Up
<1> QED
  BY <1>2, <1>3, <1>4, <1>5, HandlersAreCareful DEF Next, Dwindles

\* Whether or not Docker has removed the container of a deleted instance
\* (manager.go:424-425), no request gets to that instance any more, its container does not
\* come back, and once the container is down no tunnel to it is open: each handler that
\* is left there has a reason to end.
THEOREM DeletedDwindles == Spec => [][\A i \in Instances : Dwindles(i)]_vars
<1> DEFINE Inv == EntriesInv /\ OpenIsUp /\ DialledFirst
<1>1. Init => Inv
  BY EntriesInvInit DEF Init, OpenIsUp, DialledFirst
<1>2. Inv /\ [Next]_vars => Inv'
  BY EntriesInvStep, OpenIsUpStep
<1>3. Inv /\ [Next]_vars => [\A i \in Instances : Dwindles(i)]_vars
  BY DwindlesStep
<1> QED
  BY <1>1, <1>2, <1>3, PTL DEF Spec

LEMMA DrainedStep ==
    ASSUME EntriesInv, EntriesInv', [Next]_vars, NEW i \in Instances, Deleted(i), Drained(i)
    PROVE  Deleted(i)' /\ Drained(i)'
<1>1. Deleted(i)' /\ \A h \in Handlers : inst'[h] # i
  <2>1. ASSUME NEW h \in Handlers, Careful(h) PROVE Deleted(i)' /\ \A g \in Handlers : inst'[g] # i
    BY <2>1, NullsDistinct DEF Careful, Serving, Deleted, Drained, backendVars
  <2>2. ASSUME NEW j \in Instances, ManagerStep(j) PROVE Deleted(i)' /\ UNCHANGED inst
    BY <2>2, ManagerKeeps
  <2>3. CASE UNCHANGED vars
    BY <2>3 DEF vars, backendVars, handlerVars, Deleted, Drained
  <2> QED
    BY <2>1, <2>2, <2>3, HandlersAreCareful DEF Next, Drained
<1>2. {p \in Ports : conns'[p] # NoHandler /\ inst'[conns'[p]] = i} = {}
  BY <1>1 DEF EntriesInv, TypeOK
<1>3. CountConns(i)' = 0
  BY <1>2, FS_EmptySet DEF CountConns
<1> QED
  BY <1>1, <1>3 DEF Drained

\* A deleted instance that nobody is at and that has no entry stays so: a request that
\* looked it up late is refused, and none can put it back (DeletedDrains says that this
\* is reached).
THEOREM DrainedStays ==
    Spec => [][\A i \in Instances : Deleted(i) /\ Drained(i) => Deleted(i)' /\ Drained(i)']_vars
<1>1. EntriesInv /\ EntriesInv' /\ [Next]_vars =>
        [\A i \in Instances : Deleted(i) /\ Drained(i) => Deleted(i)' /\ Drained(i)']_vars
  BY DrainedStep
<1> QED
  BY <1>1, EntriesInvInit, EntriesInvStep, PTL DEF Spec

LEMMA QuietStep ==
    ASSUME EntriesInv, [Next]_vars, NEW i \in Instances, instances[i].locked, Quiet(i)
    PROVE  Quiet(i)'
<1>1. ASSUME NEW h \in Handlers, Careful(h) PROVE Quiet(i)'
  BY <1>1, NullsDistinct DEF Careful, Quiet
<1>2. ASSUME NEW j \in Instances, ManagerStep(j) PROVE Quiet(i)'
  BY <1>2, ManagerKeeps DEF Quiet
<1>3. CASE UNCHANGED vars
  BY <1>3 DEF vars, handlerVars, Quiet
<1> QED
  BY <1>1, <1>2, <1>3, HandlersAreCareful DEF Next

\* While an instance is locked and no request is past the check of the lock, none gets
\* past it (LockQuiesces says that this is reached).
THEOREM QuietStays ==
    Spec => [][\A i \in Instances : instances[i].locked /\ Quiet(i) => Quiet(i)']_vars
<1>1. EntriesInv /\ [Next]_vars =>
        [\A i \in Instances : instances[i].locked /\ Quiet(i) => Quiet(i)']_vars
  BY QuietStep
<1> QED
  BY <1>1, EntriesInvInit, EntriesInvStep, PTL DEF Spec

----------------------------------------------------------------------------
(* From here on the kernel gives out no port that a handler still holds.   *)

SinglePort == \A g, h \in Handlers : src[g] # NoPort /\ src[g] = src[h] => g = h

PortsInv == EntriesInv /\ SinglePort /\ PortIdentifiesTunnel

LEMMA PortsInvInit == Init => PortsInv
  BY EntriesInvInit DEF PortsInv, SinglePort, PortIdentifiesTunnel, Init

LEMMA PortsInvStep ==
    ASSUME PortReuse = FALSE, PortsInv, [Next]_vars
    PROVE  PortsInv'
<1> SUFFICES SinglePort' /\ PortIdentifiesTunnel'
  BY EntriesInvStep DEF PortsInv
<1> USE NullsDistinct DEF PortsInv, EntriesInv, TypeOK, Bookkeeping, SinglePort,
                          PortIdentifiesTunnel
<1>1. ASSUME NEW h \in Handlers, NEW i \in Instances, Lookup(h, i)
      PROVE  SinglePort' /\ PortIdentifiesTunnel'
  BY <1>1 DEF Lookup, vars, backendVars, handlerVars
<1>2. ASSUME NEW h \in Handlers, HandlerStep(h)
      PROVE  SinglePort' /\ PortIdentifiesTunnel'
  <2>1. CASE CheckLocked(h) \/ CheckLimit(h) \/ Resolve(h)
    BY <2>1 DEF CheckLocked, CheckLimit, Resolve, Return, Advance
  <2>2. CASE Upgrade(h)
    BY <2>2 DEF Upgrade, Return
  <2>3. CASE DialFail(h)
    BY <2>3 DEF DialFail
  <2>4. ASSUME NEW p \in Ports, DialOk(h, p) PROVE SinglePort' /\ PortIdentifiesTunnel'
    <3>1. \A g \in Handlers \ {h} : src[g] # p
      BY <2>4, PortReuse = FALSE DEF DialOk, PortFree
    <3>2. SinglePort'
      BY <2>4, <3>1 DEF DialOk
    <3>3. PortIdentifiesTunnel'
      BY <2>4 DEF DialOk
    <3> QED
      BY <3>2, <3>3
  <2>5. CASE BridgeEnds(h)
    BY <2>5 DEF BridgeEnds
  <2>6. CASE Cleanup(h)
    <3>1. SinglePort'
      BY <2>6 DEF Cleanup
    <3>2. PortIdentifiesTunnel'
      BY <2>6 DEF Cleanup, RegistrarDone, Removed
    <3> QED
      BY <3>1, <3>2
  <2> QED
    BY <1>2, <2>1, <2>2, <2>3, <2>4, <2>5, <2>6 DEF HandlerStep
<1>3. ASSUME NEW h \in Handlers, Register(h) PROVE SinglePort' /\ PortIdentifiesTunnel'
  BY <1>3 DEF Register, Entered
<1>4. ASSUME NEW h \in Handlers, CloseWS(h) \/ ClientVanishes(h) \/ PeerDrops(h)
      PROVE  SinglePort' /\ PortIdentifiesTunnel'
  BY <1>4 DEF CloseWS, ClientVanishes, PeerDrops
<1>5. ASSUME NEW i \in Instances, ManagerStep(i)
      PROVE  SinglePort' /\ PortIdentifiesTunnel'
  BY <1>5 DEF ManagerStep, CreateInstance, StartInstance, StopInstance, DeleteInstance,
              ContainerDies, RemoveContainer, ContainerBecomes, SetLocked, SetMaxClients, handlerVars
<1>6. CASE UNCHANGED vars
  BY <1>6 DEF vars, handlerVars
<1> QED
  BY <1>1, <1>2, <1>3, <1>4, <1>5, <1>6 DEF Next

(* "the port gives us a precise 1:1 mapping": true as long as no port is   *)
(* given out that a handler still holds.                                   *)
THEOREM PortIdentifiesTunnelAlways ==
    ASSUME PortReuse = FALSE
    PROVE  Spec => []PortIdentifiesTunnel
<1>1. PortsInv /\ [Next]_vars => PortsInv'
  BY PortsInvStep, PortReuse = FALSE
<1>2. PortsInv => PortIdentifiesTunnel
  BY DEF PortsInv
<1> QED
  BY <1>1, <1>2, PortsInvInit, PTL DEF Spec

----------------------------------------------------------------------------
(* The bound on the overshoot counts handlers, countConns counts ports:    *)
(* the two agree when a port identifies its tunnel.                        *)

LEMMA CountedHandlers ==
    ASSUME PortsInv, NEW i \in Instances
    PROVE  /\ IsFiniteSet(Registered(i))
           /\ Cardinality(Registered(i)) = CountConns(i)
<1> DEFINE R == Registered(i)
           E == {p \in Ports : conns[p] # NoHandler /\ inst[conns[p]] = i}
           f == [h \in R |-> src[h]]
<1> USE NullsDistinct DEF PortsInv, EntriesInv, TypeOK
<1>1. IsFiniteSet(R)
  <2>1. R \in SUBSET Handlers
    BY DEF Registered
  <2> QED
    BY <2>1, HandlersFinite, FS_Subset
<1>2. f \in [R -> E]
  BY DEF Registered, PortIdentifiesTunnel
<1>3. \A p \in E : \E h \in R : f[h] = p
  <2> TAKE p \in E
  <2>1. conns[p] \in R /\ src[conns[p]] = p
    BY DEF Registered, NoStaleEntry
  <2> QED
    BY <2>1
<1>4. \A g, h \in R : f[g] = f[h] => g = h
  BY DEF Registered, SinglePort
<1>5. f \in Injection(R, E) /\ f \in Surjection(R, E)
  BY <1>2, <1>3, <1>4 DEF Injection, Surjection, IsInjective
<1>6. Cardinality(E) = Cardinality(R)
  <2> HIDE DEF R, E, f
  <2> QED
    BY ONLY <1>1, <1>5, FS_Surjection
<1> QED
  BY <1>1, <1>6 DEF CountConns

(* What the step that passes the limit check adds up to.                   *)

OvershootInv == PortsInv /\ OvershootBounded

\* Every step but a passed check only takes handlers out of the two sets.
Shrinking ==
    \A i \in Instances :
        Window(i)' \subseteq Window(i) /\ Admitted(i)' \subseteq Admitted(i)

LEMMA OtherStepsShrink ==
    ASSUME PortsInv, [Next]_vars, peak' = peak,
           \A h \in Handlers : pc[h] = "limit" => pc'[h] # "resolve"
    PROVE  Shrinking
<1> USE DEF Shrinking, Admitted, Registered, Window, PortsInv, EntriesInv, TypeOK, Bookkeeping
<1>1. ASSUME NEW h \in Handlers, NEW i \in Instances, Lookup(h, i) PROVE Shrinking
  BY <1>1 DEF Lookup, Goto, vars, backendVars, handlerVars
<1>2. ASSUME NEW h \in Handlers, HandlerStep(h) PROVE Shrinking
  <2>1. CASE CheckLocked(h)
    BY <2>1 DEF CheckLocked, Return, Advance, Goto
  <2>2. CASE CheckLimit(h)
    BY <2>2 DEF CheckLimit, Return, Goto
  <2>3. CASE Resolve(h)
    BY <2>3 DEF Resolve, Return, Advance, Goto
  <2>4. CASE Upgrade(h)
    BY <2>4 DEF Upgrade, Return, Goto
  <2>5. CASE DialFail(h)
    BY <2>5 DEF DialFail, Goto
  <2>6. ASSUME NEW p \in Ports, DialOk(h, p) PROVE Shrinking
    BY <2>6 DEF DialOk, Goto
  <2>7. CASE BridgeEnds(h)
    BY <2>7 DEF BridgeEnds, Goto
  <2>8. CASE Cleanup(h)
    BY <2>8 DEF Cleanup, RegistrarDone, Goto
  <2> QED
    BY <1>2, <2>1, <2>2, <2>3, <2>4, <2>5, <2>6, <2>7, <2>8 DEF HandlerStep
<1>3. ASSUME NEW h \in Handlers, Register(h) PROVE Shrinking
  BY <1>3 DEF Register, Entered
<1>4. ASSUME NEW h \in Handlers, CloseWS(h) \/ ClientVanishes(h) \/ PeerDrops(h)
      PROVE  Shrinking
  BY <1>4 DEF CloseWS, ClientVanishes, PeerDrops
<1>5. ASSUME NEW i \in Instances, ManagerStep(i) PROVE Shrinking
  BY <1>5 DEF ManagerStep, CreateInstance, StartInstance, StopInstance, DeleteInstance,
              ContainerDies, RemoveContainer, ContainerBecomes, SetLocked, SetMaxClients, handlerVars
<1>6. CASE UNCHANGED vars
  BY <1>6 DEF vars, handlerVars
<1> QED
  BY <1>1, <1>2, <1>3, <1>4, <1>5, <1>6 DEF Next

LEMMA SizesShrink ==
    ASSUME OvershootInv, [Next]_vars, peak' = peak, Shrinking
    PROVE  OvershootBounded'
<1>1. ASSUME NEW i \in Instances, GlobalMax > 0
      PROVE  Cardinality(Admitted(i)') <= peak'[i]
  <2> DEFINE A == Admitted(i)
             B == Admitted(i)'
  <2>1. B \subseteq A
    BY DEF Shrinking
  <2>2. IsFiniteSet(A)
    BY WindowSize, CountedHandlers, FS_Union DEF OvershootInv, Admitted
  <2>3. Cardinality(A) <= peak'[i] /\ peak'[i] \in Int
    BY <1>1 DEF OvershootInv, OvershootBounded, PortsInv, EntriesInv, TypeOK
  <2> HIDE DEF A, B
  <2>4. Cardinality(B) <= Cardinality(A) /\ Cardinality(A) \in Nat /\ Cardinality(B) \in Nat
    BY <2>1, <2>2, FS_Subset, FS_CardinalityType
  <2>5. Cardinality(B) <= peak'[i]
    BY <2>3, <2>4
  <2> QED
    BY <2>5 DEF B
<1> QED
  BY <1>1 DEF OvershootBounded

\* The check is passed with fewer entries than the limit, and the handler that
\* passes it makes the window larger by one.
LEMMA CheckLimitKeepsBound ==
    ASSUME OvershootInv, GlobalMax > 0, NEW h \in Handlers, NEW j \in Instances, inst[h] = j,
           CheckLimit(h), pc'[h] = "resolve"
    PROVE  \A i \in Instances : Cardinality(Admitted(i)') <= peak'[i]
<1> DEFINE n == Cardinality(Window(j))
           m == EffectiveMaxClients(j)
           R == Registered(j)
<1>1. PortsInv /\ TypeOK
  BY DEF OvershootInv, PortsInv, EntriesInv
<1>2. /\ pc[h] = "limit" /\ ~Full(j) /\ Goto(h, "resolve")
      /\ peak' = [peak EXCEPT ![j] = IF @ > m + n THEN @ ELSE m + n]
      /\ UNCHANGED <<backendVars, inst, src, ws, tcp, reg, conns>>
  BY <1>1 DEF CheckLimit, Return, Goto, TypeOK
<1>3. /\ \A i \in Instances : Registered(i)' = Registered(i)
      /\ \A i \in Instances \ {j} : Window(i)' = Window(i)
      /\ Window(j)' = Window(j) \cup {h}
  BY <1>1, <1>2 DEF Registered, Window, Goto, TypeOK
<1>4. /\ IsFiniteSet(Window(j)) /\ n \in Nat
      /\ IsFiniteSet(R) /\ Cardinality(R) \in Nat
      /\ m \in Int /\ m > 0
  BY <1>1, WindowSize, CountedHandlers, FS_CardinalityType, LimitsAreIntegers
     DEF EffectiveMaxClients, Effective, InstanceRecord, TypeOK
<1>5. /\ IsFiniteSet(Window(j)') /\ Cardinality(Window(j)') <= n + 1
      /\ Cardinality(Window(j)') \in Nat
  <2> DEFINE W == Window(j)
             X == Window(j)'
  <2>1. X = W \cup {h} /\ IsFiniteSet(W)
    BY <1>3, <1>4
  <2> HIDE DEF W, X, n, R
  <2>2. /\ IsFiniteSet(X) /\ Cardinality(X) \in Nat /\ Cardinality(W) \in Nat
        /\ Cardinality(X) = IF h \in W THEN Cardinality(W) ELSE Cardinality(W) + 1
    BY <2>1, FS_AddElement, FS_CardinalityType
  <2>3. Cardinality(X) <= Cardinality(W) + 1
    BY <2>2
  <2> QED
    BY <2>2, <2>3 DEF W, X, n
<1>6. Cardinality(R) < m
  <2>1. ~(Cardinality(R) >= m)
    BY <1>1, <1>2, <1>4, CountedHandlers DEF Full
  <2> HIDE DEF m, R
  <2> QED
    BY <1>4, <2>1
<1>7. /\ Cardinality(Admitted(j)') <= Cardinality(R) + n + 1
      /\ Cardinality(Admitted(j)') \in Nat
  <2> DEFINE X == Window(j)'
  <2>1. Admitted(j)' = R \cup X
    BY <1>3 DEF Admitted
  <2>2. IsFiniteSet(R) /\ IsFiniteSet(X) /\ Cardinality(X) <= n + 1 /\ Cardinality(X) \in Nat
    BY <1>4, <1>5
  <2> HIDE DEF R, X, n
  <2>3. Cardinality(R \cap X) \in Nat /\ Cardinality(R \cup X) \in Nat
    BY <2>2, FS_Intersection, FS_Union, FS_CardinalityType
  <2>4. Cardinality(R \cup X) = Cardinality(R) + Cardinality(X) - Cardinality(R \cap X)
    BY <2>2, FS_Union
  <2>5. Cardinality(R \cup X) <= Cardinality(R) + n + 1
    BY <1>4, <2>2, <2>3, <2>4
  <2> QED
    BY <2>1, <2>3, <2>5
<1>8. Cardinality(Admitted(j)') <= peak'[j]
  <2>1. peak'[j] = IF peak[j] > m + n THEN peak[j] ELSE m + n
    BY <1>1, <1>2 DEF TypeOK
  <2>2. peak[j] \in Int
    BY <1>1 DEF TypeOK
  <2> HIDE DEF n, m, R
  <2> QED
    BY <1>4, <1>6, <1>7, <2>1, <2>2
<1>9. ASSUME NEW i \in Instances, i # j
      PROVE  Cardinality(Admitted(i)') <= peak'[i]
  <2>1. peak'[i] = peak[i]
    BY <1>1, <1>2, <1>9 DEF TypeOK
  <2>2. Admitted(i)' = Admitted(i)
    BY <1>3, <1>9 DEF Admitted
  <2> QED
    BY <2>1, <2>2 DEF OvershootInv, OvershootBounded
<1> QED
  BY <1>8, <1>9

LEMMA OnlyCheckLimitAdmits ==
    ASSUME TypeOK, [Next]_vars,
           ~(\E h \in Handlers : CheckLimit(h) /\ pc'[h] = "resolve")
    PROVE  /\ peak' = peak
           /\ \A h \in Handlers : pc[h] = "limit" => pc'[h] # "resolve"
<1> DEFINE Goal == /\ peak' = peak
                   /\ \A h \in Handlers : pc[h] = "limit" => pc'[h] # "resolve"
<1>1. ASSUME NEW h \in Handlers, NEW i \in Instances, Lookup(h, i) PROVE Goal
  BY <1>1 DEF Lookup, Goto, TypeOK, vars, handlerVars
<1>2. ASSUME NEW h \in Handlers, HandlerStep(h) PROVE Goal
  <2>1. CASE CheckLocked(h)
    BY <2>1 DEF CheckLocked, Return, Advance, Goto, TypeOK
  <2>2. CASE CheckLimit(h)
    BY <2>2 DEF CheckLimit, Return, Goto, TypeOK
  <2>3. CASE Resolve(h)
    BY <2>3 DEF Resolve, Return, Advance, Goto, TypeOK
  <2>4. CASE Upgrade(h)
    BY <2>4 DEF Upgrade, Return, Goto, TypeOK
  <2>5. CASE DialFail(h)
    BY <2>5 DEF DialFail, Goto, TypeOK
  <2>6. ASSUME NEW p \in Ports, DialOk(h, p) PROVE Goal
    BY <2>6 DEF DialOk, Goto, TypeOK
  <2>7. CASE BridgeEnds(h)
    BY <2>7 DEF BridgeEnds, Goto, TypeOK
  <2>8. CASE Cleanup(h)
    BY <2>8 DEF Cleanup, Goto, TypeOK
  <2> QED
    BY <1>2, <2>1, <2>2, <2>3, <2>4, <2>5, <2>6, <2>7, <2>8 DEF HandlerStep
<1>3. ASSUME NEW h \in Handlers,
             Register(h) \/ CloseWS(h) \/ ClientVanishes(h) \/ PeerDrops(h)
      PROVE  Goal
  BY <1>3 DEF Register, Entered, CloseWS, ClientVanishes, PeerDrops
<1>4. ASSUME NEW i \in Instances, ManagerStep(i) PROVE Goal
  BY <1>4 DEF ManagerStep, CreateInstance, StartInstance, StopInstance, DeleteInstance,
              ContainerDies, RemoveContainer, ContainerBecomes, SetLocked, SetMaxClients, handlerVars
<1>5. CASE UNCHANGED vars
  BY <1>5 DEF vars, handlerVars
<1> QED
  BY <1>1, <1>2, <1>3, <1>4, <1>5 DEF Next

LEMMA OvershootInvInit == Init => OvershootInv
<1> SUFFICES ASSUME Init PROVE OvershootInv
  OBVIOUS
<1>1. PortsInv
  BY PortsInvInit
<1>2. ASSUME NEW i \in Instances
      PROVE  Admitted(i) = {} /\ peak[i] = 0
  BY <1>2 DEF Init, Window, Admitted, Registered
<1> QED
  BY <1>1, <1>2, FS_EmptySet DEF OvershootInv, OvershootBounded

LEMMA OvershootInvStep ==
    ASSUME PortReuse = FALSE, OvershootInv, [Next]_vars
    PROVE  OvershootInv'
<1>1. PortsInv'
  BY PortsInvStep, PortReuse = FALSE DEF OvershootInv
<1>2. CASE \E h \in Handlers : CheckLimit(h) /\ pc'[h] = "resolve"
  <2> PICK h \in Handlers : CheckLimit(h) /\ pc'[h] = "resolve"
    BY <1>2
  <2>1. inst[h] \in Instances
    BY DEF CheckLimit, OvershootInv, PortsInv, EntriesInv, Bookkeeping
  <2> QED
    BY <1>1, <2>1, CheckLimitKeepsBound DEF OvershootInv, OvershootBounded
<1>3. CASE ~(\E h \in Handlers : CheckLimit(h) /\ pc'[h] = "resolve")
  <2>1. /\ peak' = peak
        /\ \A h \in Handlers : pc[h] = "limit" => pc'[h] # "resolve"
    BY <1>3, OnlyCheckLimitAdmits DEF OvershootInv, PortsInv, EntriesInv
  <2>2. Shrinking
    BY <2>1, OtherStepsShrink DEF OvershootInv
  <2> QED
    BY <1>1, <2>1, <2>2, SizesShrink DEF OvershootInv
<1> QED
  BY <1>2, <1>3

(* What the unsynchronised check before the upgrade is worth: the overshoot *)
(* is no more than the number of requests that another one overtook.        *)
THEOREM OvershootBoundedAlways ==
    ASSUME PortReuse = FALSE
    PROVE  Spec => []OvershootBounded
<1>1. OvershootInv /\ [Next]_vars => OvershootInv'
  BY OvershootInvStep, PortReuse = FALSE
<1>2. OvershootInv => OvershootBounded
  BY DEF OvershootInv
<1> QED
  BY <1>1, <1>2, OvershootInvInit, PTL DEF Spec
=============================================================================
