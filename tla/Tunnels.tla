------------------------------ MODULE Tunnels ------------------------------
(***************************************************************************)
(* The tunnels of the backend: every request for GET /vpn/{id} runs        *)
(* Handler.vpnProxy (backend/internal/api/handler.go), which checks the    *)
(* instance, upgrades the request to a WebSocket, dials the instance's     *)
(* OpenVPN container and pumps bytes until one side ends                   *)
(* (proxy.BridgeWSToTCP).  Beside each handler a goroutine (the registrar) *)
(* waits for the TCP source port of the dial and enters the tunnel in      *)
(* Handler.conns, a map from port to tunnel that is shared by all handlers.*)
(*                                                                         *)
(* One member of Handlers is one request slot; a slot is used again after  *)
(* its request has returned.  The fields of an instance that vpnProxy      *)
(* reads (Status, Locked, MaxClients) and the operations that write them   *)
(* are here too, because vpnProxy reads them one at a time and without the *)
(* manager's lock.                                                         *)
(*                                                                         *)
(* A definition named ...Mutant is a plausible mistake in the definition   *)
(* after it; no specification uses it.  README.md says which property it   *)
(* breaks when it takes that definition's place.                           *)
(***************************************************************************)
EXTENDS Integers, FiniteSets

CONSTANTS
    Handlers,     \* request slots
    Instances,    \* instance IDs, each created at most once (UUIDs)
    Ports,        \* TCP source ports of the backend
    NoPort,       \* port 0: the dial failed
    NoHandler,    \* no entry in conns
    NoInstance,   \* slot without a request
    MaxInputs,    \* arguments of SetMaxClients
    GlobalMax,    \* max_clients_per_instance of the configuration
    PortReuse     \* may the kernel give out a port that conns still maps?

ASSUME HandlersFinite == IsFiniteSet(Handlers)
ASSUME NullsDistinct ==
    NoPort \notin Ports /\ NoHandler \notin Handlers /\ NoInstance \notin Instances
ASSUME LimitsAreIntegers ==
    GlobalMax \in Int /\ MaxInputs \subseteq Int
ASSUME PortReuseIsBoolean == PortReuse \in BOOLEAN

VARIABLES
    instances,    \* Manager.instances: the fields vpnProxy depends on
    container,    \* the container that bears the instance's name
    pc,           \* next step of each handler
    inst,         \* the instance a handler serves
    src,          \* source port of the handler's TCP connection
    ws,           \* the handler's WebSocket, as the backend can see it
    tcp,          \* the handler's TCP connection to the container
    reg,          \* the handler's registrar goroutine and its two channels
    conns,        \* Handler.conns: the handler whose tunnel a port maps to
    peak          \* history: at the limit checks passed, the most that the limit and the
                  \* handlers between check and entry added up to

backendVars == <<instances, container>>
handlerVars == <<pc, inst, src, ws, tcp, reg>>
vars == <<backendVars, handlerVars, conns, peak>>

PCs == {"idle", "locked", "limit", "resolve", "upgrade", "dial", "bridge", "cleanup"}
InstanceRecord ==
    [life : {"absent", "present", "deleted"}, status : {"running", "stopped"},
     locked : BOOLEAN, max : Int]

TypeOK ==
    /\ instances \in [Instances -> InstanceRecord]
    /\ container \in [Instances -> {"none", "up", "exited"}]
    /\ pc \in [Handlers -> PCs]
    /\ inst \in [Handlers -> Instances \cup {NoInstance}]
    /\ src \in [Handlers -> Ports \cup {NoPort}]
    /\ ws \in [Handlers -> {"none", "open", "lost", "closed"}]
    /\ tcp \in [Handlers -> {"none", "open", "reset", "closed"}]
    /\ reg \in [Handlers -> {"idle", "waiting", "sent", "registered"}]
    /\ conns \in [Ports -> Handlers \cup {NoHandler}]
    /\ peak \in [Instances -> Int]

Init ==
    /\ instances = [i \in Instances |->
                      [life |-> "absent", status |-> "stopped", locked |-> FALSE, max |-> 0]]
    /\ container = [i \in Instances |-> "none"]
    /\ pc = [h \in Handlers |-> "idle"]
    /\ inst = [h \in Handlers |-> NoInstance]
    /\ src = [h \in Handlers |-> NoPort]
    /\ ws = [h \in Handlers |-> "none"]
    /\ tcp = [h \in Handlers |-> "none"]
    /\ reg = [h \in Handlers |-> "idle"]
    /\ conns = [p \in Ports |-> NoHandler]
    /\ peak = [i \in Instances |-> 0]

----------------------------------------------------------------------------
(* What the handlers read.                                                 *)

\* GetInstance / VPNAddr: the instance is in the map and marked running.
ServingMutant(i) == instances[i].status = "running"
Serving(i) == instances[i].life = "present" /\ instances[i].status = "running"

\* EffectiveMaxClients.
Effective(own) == IF own > 0 THEN own ELSE GlobalMax
EffectiveMaxClients(i) == Effective(instances[i].max)

\* countConns: the entries of conns that carry the instance's ID.
CountConns(i) ==
    Cardinality({p \in Ports : conns[p] # NoHandler /\ inst[conns[p]] = i})

FullMutant(i) == EffectiveMaxClients(i) > 0 /\ CountConns(i) > EffectiveMaxClients(i)
Full(i) == EffectiveMaxClients(i) > 0 /\ CountConns(i) >= EffectiveMaxClients(i)

\* The handlers that have passed the limit check for i but are not entered.
Window(i) ==
    {h \in Handlers :
        /\ inst[h] = i
        /\ \/ pc[h] \in {"resolve", "upgrade", "dial"}
           \/ pc[h] \in {"bridge", "cleanup"} /\ reg[h] # "registered"}

\* The handlers whose tunnel to i has been entered and not yet removed.
Registered(i) ==
    {h \in Handlers : inst[h] = i /\ reg[h] = "registered" /\ src[h] # NoPort}

Admitted(i) == Registered(i) \cup Window(i)

\* May connect() pick port p for a connection of h?  Linux only keeps the
\* pair (source port, destination) unique among live connections.
PortFree(h, p) ==
    \A g \in Handlers \ {h} :
        src[g] = p => /\ PortReuse
                      /\ ~(inst[g] = inst[h] /\ tcp[g] \in {"open", "reset"})

----------------------------------------------------------------------------
(* vpnProxy, step by step.                                                 *)

Goto(h, label) == pc' = [pc EXCEPT ![h] = label]

\* An early return before the upgrade: the slot is free again.
Return(h) ==
    /\ Goto(h, "idle")
    /\ inst' = [inst EXCEPT ![h] = NoInstance]
    /\ UNCHANGED <<backendVars, src, ws, tcp, reg, conns, peak>>

Advance(h, label) ==
    /\ Goto(h, label)
    /\ UNCHANGED <<backendVars, inst, src, ws, tcp, reg, conns, peak>>

\* A request for an instance that is not served is answered 404.
Lookup(h, i) ==
    /\ pc[h] = "idle"
    /\ \/ ~Serving(i) /\ UNCHANGED vars
       \/ /\ Serving(i)
          /\ Goto(h, "locked")
          /\ inst' = [inst EXCEPT ![h] = i]
          /\ UNCHANGED <<backendVars, src, ws, tcp, reg, conns, peak>>

\* The lock flag is read without the manager's lock, and only here.
RejectsLockedMutant(h) == FALSE
RejectsLocked(h) == instances[inst[h]].locked

CheckLocked(h) ==
    /\ pc[h] = "locked"
    /\ \/ RejectsLocked(h) /\ Return(h)
       \/ ~RejectsLocked(h) /\ Advance(h, "limit")

CheckLimit(h) ==
    /\ pc[h] = "limit"
    /\ \/ Full(inst[h]) /\ Return(h)
       \/ /\ ~Full(inst[h])
          /\ Goto(h, "resolve")
          /\ LET sum == EffectiveMaxClients(inst[h]) + Cardinality(Window(inst[h]))
             IN  peak' = [peak EXCEPT ![inst[h]] = IF @ > sum THEN @ ELSE sum]
          /\ UNCHANGED <<backendVars, inst, src, ws, tcp, reg, conns>>

Resolve(h) ==
    /\ pc[h] = "resolve"
    /\ \/ ~Serving(inst[h]) /\ Return(h)
       \/ Serving(inst[h]) /\ Advance(h, "upgrade")

\* The WebSocket handshake fails, or the registrar is started beside it.
Upgrade(h) ==
    /\ pc[h] = "upgrade"
    /\ \/ Return(h)
       \/ /\ Goto(h, "dial")
          /\ ws' = [ws EXCEPT ![h] = "open"]
          /\ reg' = [reg EXCEPT ![h] = "waiting"]
          /\ UNCHANGED <<backendVars, inst, src, tcp, conns, peak>>

\* net.Dial succeeds with source port p, which is sent to the registrar.
DialOk(h, p) ==
    /\ pc[h] = "dial"
    /\ container[inst[h]] = "up"
    /\ PortFree(h, p)
    /\ Goto(h, "bridge")
    /\ src' = [src EXCEPT ![h] = p]
    /\ tcp' = [tcp EXCEPT ![h] = "open"]
    /\ reg' = [reg EXCEPT ![h] = "sent"]
    /\ UNCHANGED <<backendVars, inst, ws, conns, peak>>

\* net.Dial fails: port 0 is sent to the registrar and the bridge returns.
DialFail(h) ==
    /\ pc[h] = "dial"
    /\ Goto(h, "cleanup")
    /\ reg' = [reg EXCEPT ![h] = "sent"]
    /\ UNCHANGED <<backendVars, inst, src, ws, tcp, conns, peak>>

\* The registrar enters the tunnel, unless the port is 0, and hands the port
\* on in both cases.
Entered(h) == IF src[h] = NoPort THEN conns ELSE [conns EXCEPT ![src[h]] = h]

Register(h) ==
    /\ reg[h] = "sent"
    /\ reg' = [reg EXCEPT ![h] = "registered"]
    /\ conns' = Entered(h)
    /\ UNCHANGED <<backendVars, pc, inst, src, ws, tcp, peak>>

\* One receive from errc: the first pump that fails ends the bridge.
PumpFailedMutant(h) == ws[h] = "closed" /\ tcp[h] = "reset"
PumpFailed(h) == ws[h] = "closed" \/ tcp[h] = "reset"

\* BridgeWSToTCP returns and closes its TCP connection.
BridgeEnds(h) ==
    /\ pc[h] = "bridge"
    /\ PumpFailed(h)
    /\ Goto(h, "cleanup")
    /\ tcp' = [tcp EXCEPT ![h] = "closed"]
    /\ UNCHANGED <<backendVars, inst, src, ws, reg, conns, peak>>

\* `<-registered`: the handler removes the entry only after the registrar.
RegistrarDoneMutant(h) == reg[h] # "idle"
RegistrarDone(h) == reg[h] = "registered"

RemovedMutant(h) ==
    [p \in Ports |-> IF conns[p] # NoHandler /\ inst[conns[p]] = inst[h]
                       THEN NoHandler ELSE conns[p]]
Removed(h) == IF src[h] = NoPort THEN conns ELSE [conns EXCEPT ![src[h]] = NoHandler]

\* The request returns; a registrar that is not done would live on.
Cleanup(h) ==
    /\ pc[h] = "cleanup"
    /\ RegistrarDone(h)
    /\ conns' = Removed(h)
    /\ Goto(h, "idle")
    /\ inst' = [inst EXCEPT ![h] = NoInstance]
    /\ src' = [src EXCEPT ![h] = IF reg[h] = "registered" THEN NoPort ELSE @]
    /\ ws' = [ws EXCEPT ![h] = "none"]
    /\ tcp' = [tcp EXCEPT ![h] = "none"]
    /\ reg' = [reg EXCEPT ![h] = IF @ = "registered" THEN "idle" ELSE @]
    /\ UNCHANGED <<backendVars, peak>>

----------------------------------------------------------------------------
(* The two ends of a tunnel.                                               *)

\* The client, or a kick, closes the WebSocket; reads on it now fail.
CloseWS(h) ==
    /\ ws[h] \in {"open", "lost"}
    /\ ws' = [ws EXCEPT ![h] = "closed"]
    /\ UNCHANGED <<backendVars, pc, inst, src, tcp, reg, conns, peak>>

\* The client is gone without closing: reads on the WebSocket block, for as long
\* as the kernel does not give up (CloseWS).
ClientVanishes(h) ==
    /\ ws[h] = "open"
    /\ ws' = [ws EXCEPT ![h] = "lost"]
    /\ UNCHANGED <<backendVars, pc, inst, src, tcp, reg, conns, peak>>

\* OpenVPN ends the connection (killed session, rejected certificate, or no
\* ping for 120 seconds).
PeerDrops(h) ==
    /\ tcp[h] = "open"
    /\ tcp' = [tcp EXCEPT ![h] = "reset"]
    /\ UNCHANGED <<backendVars, pc, inst, src, ws, reg, conns, peak>>

----------------------------------------------------------------------------
(* The manager's operations on what the handlers read.  Each runs under    *)
(* Manager.mu, and changes the record although Docker may not have done    *)
(* what it was told.                                                       *)

\* A container that is not up has no connections any more.
ContainerBecomes(i, state) ==
    /\ container' = [container EXCEPT ![i] = state]
    /\ tcp' = [h \in Handlers |->
                 IF inst[h] = i /\ tcp[h] = "open" /\ state # "up" THEN "reset" ELSE tcp[h]]
    /\ UNCHANGED <<pc, inst, src, ws, reg, conns, peak>>

\* ContainerStop and ContainerRemove of the container that a running instance has on
\* record.  Both may fail, or their request be cancelled, and nobody looks.
RemoveContainer(i) ==
    IF instances[i].status = "running"
      THEN \E state \in {"none", "exited", container[i]} : ContainerBecomes(i, state)
      ELSE UNCHANGED <<container, handlerVars, conns, peak>>

CreateInstance(i) ==
    /\ instances[i].life = "absent"
    /\ instances' = [instances EXCEPT ![i] =
                       [life |-> "present", status |-> "running", locked |-> FALSE, max |-> 0]]
    /\ container' = [container EXCEPT ![i] = "up"]
    /\ UNCHANGED <<handlerVars, conns, peak>>

\* A container that was left behind still has the name, and the start fails.
StartInstance(i) ==
    /\ instances[i].life = "present"
    /\ instances[i].status # "running"
    /\ container[i] = "none"
    /\ instances' = [instances EXCEPT ![i].status = "running"]
    /\ container' = [container EXCEPT ![i] = "up"]
    /\ UNCHANGED <<handlerVars, conns, peak>>

StopInstance(i) ==
    /\ instances[i].life = "present"
    /\ instances' = [instances EXCEPT ![i].status = "stopped"]
    /\ RemoveContainer(i)

\* The record stays readable: a handler may still hold a pointer to it.
DeleteInstance(i) ==
    /\ instances[i].life = "present"
    /\ instances' = [instances EXCEPT ![i].life = "deleted"]
    /\ RemoveContainer(i)

\* The container exits by itself; nothing updates Status.
ContainerDies(i) ==
    /\ container[i] = "up"
    /\ ContainerBecomes(i, "exited")
    /\ UNCHANGED instances

SetLocked(i, locked) ==
    /\ instances[i].life = "present"
    /\ instances' = [instances EXCEPT ![i].locked = locked]
    /\ UNCHANGED <<container, handlerVars, conns, peak>>

SetMaxClients(i, max) ==
    /\ instances[i].life = "present"
    /\ instances' = [instances EXCEPT ![i].max = IF max <= 0 THEN 0 ELSE max]
    /\ UNCHANGED <<container, handlerVars, conns, peak>>

----------------------------------------------------------------------------

\* The steps of one handler that depend on nobody else once enabled.
HandlerStep(h) ==
    \/ CheckLocked(h) \/ CheckLimit(h) \/ Resolve(h) \/ Upgrade(h)
    \/ DialFail(h) \/ \E p \in Ports : DialOk(h, p)
    \/ BridgeEnds(h) \/ Cleanup(h)

ManagerStep(i) ==
    \/ CreateInstance(i) \/ StartInstance(i) \/ StopInstance(i) \/ DeleteInstance(i)
    \/ ContainerDies(i)
    \/ \E locked \in BOOLEAN : SetLocked(i, locked)
    \/ \E max \in MaxInputs : SetMaxClients(i, max)

Next ==
    \/ \E h \in Handlers :
        \/ \E i \in Instances : Lookup(h, i)
        \/ HandlerStep(h) \/ Register(h)
        \/ CloseWS(h) \/ ClientVanishes(h) \/ PeerDrops(h)
    \/ \E i \in Instances : ManagerStep(i)

Spec == Init /\ [][Next]_vars

\* Goroutines run; a dial ends (with an error at the latest); the OpenVPN server
\* drops a peer that has stopped answering (keepalive 10 120).
Fairness ==
    \A h \in Handlers :
        /\ WF_vars(HandlerStep(h))
        /\ WF_vars(Register(h))
        /\ WF_vars(ws[h] = "lost" /\ PeerDrops(h))

FairSpec == Spec /\ Fairness

----------------------------------------------------------------------------
(* Properties.                                                             *)

\* Every entry of conns belongs to a tunnel that is still being served, under
\* the port that tunnel dialled from: the registrar (handler.go:628-637) never
\* writes after the handler's delete (644-648), whatever the kernel does with
\* port numbers.
NoStaleEntry ==
    \A p \in Ports :
        conns[p] # NoHandler =>
            /\ src[conns[p]] = p
            /\ pc[conns[p]] \in {"bridge", "cleanup"}
            /\ reg[conns[p]] = "registered"
            /\ inst[conns[p]] # NoInstance

\* "the port gives us a precise 1:1 mapping" (handler.go:71-73, 623-625): the
\* entry of a tunnel's port is that tunnel, from its entry to its removal.
PortIdentifiesTunnel ==
    \A h \in Handlers :
        reg[h] = "registered" /\ src[h] # NoPort => conns[src[h]] = h

\* What the check before the upgrade (handler.go:601-606) does guarantee: an
\* instance exceeds the limit by no more than the number of requests that had
\* passed the check and were not entered yet when another one passed it.  In
\* particular the limit holds if no two requests ever overlapped there.
OvershootBounded ==
    GlobalMax > 0 => \A i \in Instances : Cardinality(Admitted(i)) <= peak[i]

\* Once the client is gone, with or without a close, or the container's side has
\* ended, the handler returns and its entry is removed: the wait for the
\* registrar (handler.go:644) never hangs.
TunnelEnds ==
    \A h \in Handlers :
        ws[h] \in {"lost", "closed"} \/ tcp[h] = "reset" ~> pc[h] = "idle"

\* Once an instance is deleted (manager.go:413-431) and its container is no longer up,
\* every trace of it eventually goes from conns for good, also of requests that were
\* past the lookup.  Deleting alone is not enough: a stop and a removal that fail are
\* ignored (424-425), and the tunnels stay as long as the container runs on.
DeletedDrains ==
    \A i \in Instances :
        instances[i].life = "deleted" /\ container[i] # "up" ~>
            []((\A h \in Handlers : inst[h] # i) /\ CountConns(i) = 0)

\* An instance that stays locked stops admitting: requests that read the flag
\* before SetLocked (handler.go:597) finish, and no other gets to the dial.
LockQuiesces ==
    \A i \in Instances :
        <>[](instances[i].locked) =>
            <>[](\A h \in Handlers :
                    inst[h] = i => pc[h] \notin {"limit", "resolve", "upgrade", "dial"})
=============================================================================
