-------------------------------- MODULE Kick --------------------------------
(***************************************************************************)
(* Ending a client's session: the administrator's kick and ban and the     *)
(* timeout enforcer (backend/internal/api/handler.go, vpn/manager.go,      *)
(* vpn/instance.go).  All three end in the same steps for one client:      *)
(* write its CCD file, so that OpenVPN will not admit it again; ask        *)
(* OpenVPN for the client's port and close the WebSocket that conns has    *)
(* for it; tell OpenVPN to kill the session.  No lock is held from one     *)
(* step to the next, and clients come and go in between.                   *)
(*                                                                         *)
(* A tunnel is seen from outside here (Tunnels has its inside): it has a   *)
(* source port, and is in conns from some moment after the dial until its  *)
(* end.  OpenVPN is external: it admits a client unless its CCD file says  *)
(* "disable", lists sessions by name and port, notices the end of a        *)
(* connection some time later, and may not answer the management port.     *)
(*                                                                         *)
(* A definition named ...Mutant is a plausible mistake in the definition   *)
(* after it; no specification uses it.                                     *)
(***************************************************************************)
EXTENDS Integers, FiniteSets

CONSTANTS
    Clients,      \* clients, named by the common name of their certificate
    Instances,    \* VPN instances, all running
    Server,       \* the instance that a client connects to
    Addresses,    \* HTTP client addresses
    Address,      \* the address that a client connects from
    Ports,        \* TCP source ports of the backend
    NoPort,
    NoClient,
    Requests,     \* an administrator's requests under way at the same time
    Enforcer      \* the goroutine of timeoutEnforcer

ASSUME NullsDistinct ==
    NoPort \notin Ports /\ NoClient \notin Clients /\ Enforcer \notin Requests
ASSUME ClientsHaveHomes ==
    Server \in [Clients -> Instances] /\ Address \in [Clients -> Addresses]

VARIABLES
    port,         \* source port of each client's tunnel
    entered,      \* clients whose tunnel the registrar has entered
    conns,        \* Handler.conns: the client whose tunnel a port maps to
    closing,      \* clients whose WebSocket or TCP connection was closed
    session,      \* the port under which OpenVPN lists a client
    late,         \* clients that are connected for longer than they may be
    ccd,          \* clients with a CCD file that disables them
    pc,           \* next step of each request and of the enforcer
    ports,        \* kickVPNClientsByHTTPIP: ports of the banned address
    left,         \* instances that it has yet to ask for their clients
    todo,         \* clients that it has found and not yet kicked
    target,       \* the client it is kicking
    found,        \* closeWSForCN: the port of that client
    killed        \* history: clients that OpenVPN was told to kill, and was

tunnelVars == <<port, entered, conns, closing>>
kickVars == <<ports, left, todo, target, found>>
vars == <<tunnelVars, session, late, ccd, pc, kickVars, killed>>

Kickers == Requests \cup {Enforcer}

TypeOK ==
    /\ port \in [Clients -> Ports \cup {NoPort}]
    /\ entered \in SUBSET Clients
    /\ conns \in [Ports -> Clients \cup {NoClient}]
    /\ closing \in SUBSET Clients
    /\ session \in [Clients -> Ports \cup {NoPort}]
    /\ late \in SUBSET Clients
    /\ ccd \in SUBSET Clients
    /\ pc \in [Kickers -> {"idle", "scan", "next", "query", "close", "kill"}]
    /\ ports \in [Kickers -> SUBSET Ports]
    /\ left \in [Kickers -> SUBSET Instances]
    /\ todo \in [Kickers -> SUBSET Clients]
    /\ target \in [Kickers -> Clients \cup {NoClient}]
    /\ found \in [Kickers -> Ports \cup {NoPort}]
    /\ killed \in SUBSET Clients

Init ==
    /\ port = [c \in Clients |-> NoPort]
    /\ entered = {}
    /\ conns = [p \in Ports |-> NoClient]
    /\ closing = {}
    /\ session = [c \in Clients |-> NoPort]
    /\ late = {}
    /\ ccd = {}
    /\ pc = [k \in Kickers |-> "idle"]
    /\ ports = [k \in Kickers |-> {}]
    /\ left = [k \in Kickers |-> {}]
    /\ todo = [k \in Kickers |-> {}]
    /\ target = [k \in Kickers |-> NoClient]
    /\ found = [k \in Kickers |-> NoPort]
    /\ killed = {}

----------------------------------------------------------------------------
(* Clients, their tunnels and their sessions.                              *)

\* The kernel keeps (source port, server) unique until both ends have closed.
Owns(c, p) == p \in {port[c], session[c]}
PortFree(c, p) == \A d \in Clients : Owns(d, p) => Server[d] # Server[c]

Connect(c, p) ==
    /\ port[c] = NoPort
    /\ PortFree(c, p)
    /\ port' = [port EXCEPT ![c] = p]
    /\ UNCHANGED <<entered, conns, closing, session, late, ccd, pc, kickVars, killed>>

Enter(c) ==
    /\ port[c] # NoPort
    /\ c \notin entered
    /\ entered' = entered \cup {c}
    /\ conns' = [conns EXCEPT ![port[c]] = c]
    /\ UNCHANGED <<port, closing, session, late, ccd, pc, kickVars, killed>>

Removed(c) == IF c \in entered THEN [conns EXCEPT ![port[c]] = NoClient] ELSE conns

\* The tunnel ends, because it was closed or of the client's own accord.
TunnelEnds(c) ==
    /\ port[c] # NoPort
    /\ port' = [port EXCEPT ![c] = NoPort]
    /\ entered' = entered \ {c}
    /\ conns' = Removed(c)
    /\ closing' = closing \ {c}
    /\ UNCHANGED <<session, late, ccd, pc, kickVars, killed>>

\* The handshake is done: OpenVPN lists the client, or finds its CCD file.  A
\* listing of the same client under another port is replaced.
Admit(c) ==
    /\ port[c] \notin {NoPort, session[c]}
    /\ c \notin closing
    /\ \/ /\ c \notin ccd
          /\ session' = [session EXCEPT ![c] = port[c]]
          /\ late' = late \ {c}
          /\ UNCHANGED closing
       \/ /\ c \in ccd
          /\ closing' = closing \cup {c}
          /\ UNCHANGED <<session, late>>
    /\ UNCHANGED <<port, entered, conns, ccd, pc, kickVars, killed>>

\* OpenVPN notices that the connection is gone.
Notice(c) ==
    /\ session[c] \notin {NoPort, port[c]}
    /\ session' = [session EXCEPT ![c] = NoPort]
    /\ late' = late \ {c}
    /\ UNCHANGED <<tunnelVars, ccd, pc, kickVars, killed>>

\* Time passes, or SetClientTimeout changes the client's limit.
BecomesLate(c) ==
    /\ session[c] # NoPort
    /\ c \notin late
    /\ late' = late \cup {c}
    /\ UNCHANGED <<tunnelVars, session, ccd, pc, kickVars, killed>>

LimitRaised(c) ==
    /\ c \in late
    /\ late' = late \ {c}
    /\ UNCHANGED <<tunnelVars, session, ccd, pc, kickVars, killed>>

----------------------------------------------------------------------------
(* The start of a kick, a ban and a round of the enforcer.                 *)

Goto(k, label) == pc' = [pc EXCEPT ![k] = label]

\* DisableCN writes the file before anything is closed, ...
DisabledMutant(c) == ccd
Disabled(c) == ccd \cup {c}

\* ... and KickClient writes it once more; nothing ever removes it.
EnsuredMutant(c) == ccd \ {c}
Ensured(c) == ccd \cup {c}

Kick(k, c) ==
    /\ pc[k] = "idle"
    /\ ccd' = Disabled(c)
    /\ target' = [target EXCEPT ![k] = c]
    /\ Goto(k, "query")
    /\ UNCHANGED <<tunnelVars, session, late, ports, left, todo, found, killed>>

\* kickVPNClientsByHTTPIP; with no such port it returns at once.
Ban(k, a) ==
    LET mapped == {p \in Ports : conns[p] # NoClient /\ Address[conns[p]] = a}
    IN  /\ pc[k] = "idle"
        /\ mapped # {}
        /\ ports' = [ports EXCEPT ![k] = mapped]
        /\ left' = [left EXCEPT ![k] = Instances]
        /\ Goto(k, "scan")
        /\ UNCHANGED <<tunnelVars, session, late, ccd, todo, target, found, killed>>

Tick ==
    /\ pc[Enforcer] = "idle"
    /\ left' = [left EXCEPT ![Enforcer] = Instances]
    /\ Goto(Enforcer, "scan")
    /\ UNCHANGED <<tunnelVars, session, late, ccd, ports, todo, target, found, killed>>

----------------------------------------------------------------------------
(* The steps, for one client after the other.                              *)

\* Instance.GetClients: what OpenVPN lists, or as much of it as has arrived at
\* the deadline; an error is taken for an empty list.
Listed(i) == {c \in Clients : Server[c] = i /\ session[c] # NoPort}

\* Which clients of a list are to be kicked.
WantedMutant(k, c) == IF k = Enforcer THEN c \in late /\ c \in entered ELSE session[c] \in ports[k]
Wanted(k, c) == IF k = Enforcer THEN c \in late ELSE session[c] \in ports[k]

\* The enforcer asks every instance first, a ban kicks after each.
Scan(k, i, list) ==
    /\ pc[k] = "scan"
    /\ i \in left[k]
    /\ left' = [left EXCEPT ![k] = @ \ {i}]
    /\ todo' = [todo EXCEPT ![k] = @ \cup {c \in list : Wanted(k, c)}]
    /\ Goto(k, IF k = Enforcer /\ left[k] # {i} THEN "scan" ELSE "next")
    /\ UNCHANGED <<tunnelVars, session, late, ccd, ports, target, found, killed>>

\* The next client is taken, and disabled; or there is none.
TakeNext(k) ==
    /\ pc[k] = "next"
    /\ \/ \E c \in todo[k] :
            /\ todo' = [todo EXCEPT ![k] = @ \ {c}]
            /\ target' = [target EXCEPT ![k] = c]
            /\ ccd' = Disabled(c)
            /\ Goto(k, "query")
            /\ UNCHANGED ports
       \/ /\ todo[k] = {}
          /\ Goto(k, IF left[k] = {} THEN "idle" ELSE "scan")
          /\ ports' = [ports EXCEPT ![k] = IF left[k] = {} THEN {} ELSE @]
          /\ UNCHANGED <<todo, target, ccd>>
    /\ UNCHANGED <<tunnelVars, session, late, left, found, killed>>

\* closeWSForCN: the client's port is looked up in OpenVPN's list, ...
Query(k, list) ==
    /\ pc[k] = "query"
    /\ \/ /\ target[k] \in list
          /\ found' = [found EXCEPT ![k] = session[target[k]]]
          /\ Goto(k, "close")
       \/ /\ target[k] \notin list
          /\ UNCHANGED found
          /\ Goto(k, "kill")
    /\ UNCHANGED <<tunnelVars, session, late, ccd, ports, left, todo, target, killed>>

\* ... and the WebSocket that conns has for that port, if any, is closed.
Mapped(p) == {conns[p]} \ {NoClient}

Close(k) ==
    /\ pc[k] = "close"
    /\ closing' = closing \cup Mapped(found[k])
    /\ found' = [found EXCEPT ![k] = NoPort]
    /\ Goto(k, "kill")
    /\ UNCHANGED <<port, entered, conns, session, late, ccd, ports, left, todo, target, killed>>

\* Manager.KickClient: the CCD file again, then the management command, which
\* kills the session if there is one.
Kill(k) ==
    /\ pc[k] = "kill"
    /\ session' = [session EXCEPT ![target[k]] = NoPort]
    /\ late' = late \ {target[k]}
    /\ closing' = closing \cup {c \in {target[k]} : session[c] # NoPort /\ session[c] = port[c]}
    /\ killed' = killed \cup {target[k]}
    /\ ccd' = Ensured(target[k])
    /\ target' = [target EXCEPT ![k] = NoClient]
    /\ Goto(k, "next")
    /\ UNCHANGED <<port, entered, conns, ports, left, todo, found>>

\* OpenVPN does not answer in time; nobody looks at the error.
KillUnanswered(k) ==
    /\ pc[k] = "kill"
    /\ ccd' = Ensured(target[k])
    /\ target' = [target EXCEPT ![k] = NoClient]
    /\ Goto(k, "next")
    /\ UNCHANGED <<tunnelVars, session, late, ports, left, todo, found, killed>>

----------------------------------------------------------------------------

ClientStep(c) ==
    \/ \E p \in Ports : Connect(c, p)
    \/ Enter(c) \/ TunnelEnds(c) \/ Admit(c) \/ Notice(c)
    \/ BecomesLate(c) \/ LimitRaised(c)

Answers(k) == SUBSET (IF pc[k] = "query" THEN Listed(Server[target[k]]) ELSE {})

KickerStep(k) ==
    \/ \E i \in Instances : \E list \in SUBSET Listed(i) : Scan(k, i, list)
    \/ TakeNext(k)
    \/ \E list \in Answers(k) : Query(k, list)
    \/ Close(k) \/ Kill(k) \/ KillUnanswered(k)

Next ==
    \/ \E c \in Clients : ClientStep(c)
    \/ Tick
    \/ \E k \in Requests : \/ \E c \in Clients : Kick(k, c)
                           \/ \E a \in Addresses : Ban(k, a)
    \/ \E k \in Kickers : KickerStep(k)

Spec == Init /\ [][Next]_vars

\* The ticker ticks, every query ends at its deadline at the latest, and an
\* OpenVPN that is asked again and again answers at last.
Fairness ==
    /\ WF_vars(Tick \/ KickerStep(Enforcer))
    /\ \A i \in Instances : SF_vars(Scan(Enforcer, i, Listed(i)))
    /\ \A c \in Clients : SF_vars(target[Enforcer] = c /\ Kill(Enforcer))

FairSpec == Spec /\ Fairness

----------------------------------------------------------------------------
(* Properties.                                                             *)

\* Once OpenVPN has carried out the kill, the client has no session and never
\* gets one, whoever else is being kicked or banned at the same time and wherever
\* the client is in reconnecting (KickClient, manager.go:484-503).
KilledStayOut == \A c \in killed : session[c] = NoPort

\* A connection that the backend or OpenVPN ends is one of a client that cannot
\* come back: "CCD first, then WS close, then management kill (the order matters:
\* it prevents a race with the reconnection)" (manager.go:130).  The exception is
\* a connection that a kick hits by its port (handler.go:122-142) when the client
\* it is after has lost that port, or shares it with a client of another server.
Astray(k, c) ==
    /\ pc[k] = "close"
    /\ c \in Mapped(found[k])
    /\ ~ Owns(target[k], found[k]) \/ Server[c] # Server[target[k]]

DisabledFirst ==
    [][\A c \in closing' \ closing : c \in ccd' \/ \E k \in Kickers : Astray(k, c)]_vars

\* A client that stays over its limit is disconnected, although a round of the
\* enforcer (manager.go:100-137) ignores every error and forgets whom it missed.
TimeoutEnforced == \A c \in Clients : c \in late ~> c \notin late
=============================================================================
