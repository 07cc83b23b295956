----------------------------- MODULE Hostnames ------------------------------
(***************************************************************************)
(* The names of an instance's clients (backend/internal/vpn/manager.go):   *)
(* the table of names in memory, its copy in instances.json, and the file  *)
(* dnsmasq.hosts from which the instance's DNS server answers.  A request  *)
(* for the list of clients (a poll of a dashboard) names the clients that  *)
(* have no name yet; a user may set a name.  Both hold Manager.mu, ask     *)
(* OpenVPN who is connected, and write the two files one after the other,  *)
(* while clients come and go, a save fails, and the process may end.       *)
(*                                                                         *)
(* A definition named ...Mutant is a plausible mistake in the definition   *)
(* after it; no specification uses it.                                     *)
(***************************************************************************)
EXTENDS Labels, FiniteSets

CONSTANTS
    Clients,     \* common names, one per certificate
    Addresses,   \* virtual addresses of the instance's subnet
    Gone,        \* not connected
    NoAddress,   \* connected, and without a virtual address yet
    NoName,      \* not in the table
    RawNames,    \* what users may type
    Tried,       \* bound: those of them that users do type
    Friendly,    \* adjective-noun
    Fallbacks    \* adjective-noun-xxxx, with four digits of a UUID

Names == {Sanitize(raw) : raw \in RawNames} \cup Friendly \cup Fallbacks

ASSUME RawNamesAreTexts == RawNames \subseteq Texts
ASSUME TriedAreRawNames == Tried \subseteq RawNames
\* Two words of a-z joined by a hyphen, which hexadecimal digits may follow
\* (manager.go:626-647).
ASSUME DrawnNamesAreLabels ==
    \A name \in Friendly \cup Fallbacks : name \in Texts /\ IsLabel(name)
ASSUME NoNameIsNone == NoName \notin Names
ASSUME AddressesDistinct ==
    Gone # NoAddress /\ Gone \notin Addresses /\ NoAddress \notin Addresses

VARIABLES
    address,     \* what OpenVPN knows of each client
    up,          \* is the backend running?
    hostnames,   \* Instance.Hostnames
    saved,       \* Hostnames in instances.json
    hosts,       \* dnsmasq.hosts: pairs of address and label
    op,          \* the operation that holds Manager.mu
    told,        \* history: the name that a client was promised
    custom       \* history: the clients whose name was set by a user

vars == <<address, up, hostnames, saved, hosts, op, told, custom>>

\* list: the clients that OpenVPN has reported, with their addresses.
NoOp == [kind |-> "none"]
Lists == UNION {[part -> Addresses \cup {NoAddress}] : part \in SUBSET Clients}
Operation ==
    {NoOp}
    \cup [kind : {"poll"}, step : {"truncate", "write", "save", "answer"}, list : Lists,
          fresh : BOOLEAN]
    \cup [kind : {"set"}, step : {"truncate", "write", "save"}, list : Lists, cn : Clients]

Table == [Clients -> Names \cup {NoName}]

TypeOK ==
    /\ address \in [Clients -> Addresses \cup {Gone, NoAddress}]
    /\ up \in BOOLEAN
    /\ hostnames \in Table
    /\ saved \in Table
    /\ hosts \subseteq Addresses \X {Sanitize(name) : name \in Names}
    /\ op \in Operation
    /\ told \in Table
    /\ custom \subseteq Clients

Init ==
    /\ address = [c \in Clients |-> Gone]
    /\ up = TRUE
    /\ hostnames = [c \in Clients |-> NoName]
    /\ saved = hostnames
    /\ hosts = {}
    /\ op = NoOp
    /\ told = hostnames
    /\ custom = {}

----------------------------------------------------------------------------
(* What the operations compute.                                            *)

Idle == up /\ op = NoOp
Connected == {c \in Clients : address[c] # Gone}

\* GetClients: as much of the list as arrives before the deadline, nothing if the
\* dial fails.
Reported(part) == [c \in part |-> address[c]]

\* A name is given to a client that has none, and stays.
Newcomers(part) == {c \in part : hostnames[c] = NoName}

\* uniqueFriendlyName: a draw that is not in use or, after 50 that are, a fallback, of
\* which nobody asks whether it is in use.
Used == {hostnames[c] : c \in Clients}
FreeNamesMutant == (Friendly \ {hostnames[c] : c \in Connected}) \cup Fallbacks
FreeNames == (Friendly \ Used) \cup Fallbacks

\* writeDNSHosts: a name is sanitised again when it is written.
SafeMutant(name) == name
Safe(name) == Sanitize(name)
Entries(list) ==
    {<<list[c], Safe(hostnames[c])>> :
        c \in {d \in DOMAIN list : hostnames[d] # NoName /\ list[d] # NoAddress}}

----------------------------------------------------------------------------
(* The operations.                                                         *)

\* A poll writes the hosts file whether or not it has given a name.
PollStepMutant(part) == IF Newcomers(part) # {} THEN "truncate" ELSE "answer"
PollStep(part) == "truncate"

Step(label) == op' = [op EXCEPT !.step = label]

\* GetInstanceClients, until the files are written.  An empty list changes nothing.
GetInstanceClients(part) ==
    /\ Idle
    /\ part # {}
    /\ \E name \in [Newcomers(part) -> FreeNames] :
         /\ \A c, d \in Newcomers(part) : name[c] = name[d] => c = d \/ name[c] \in Fallbacks
         /\ hostnames' = [c \in Clients |->
                            IF c \in Newcomers(part) THEN name[c] ELSE hostnames[c]]
    /\ op' = [kind |-> "poll", step |-> PollStep(part), list |-> Reported(part),
              fresh |-> Newcomers(part) # {}]
    /\ UNCHANGED <<address, up, saved, hosts, told, custom>>

\* SetHostname, until the files are written; the client need not be connected.
SetHostname(c, raw, part) ==
    /\ Idle
    /\ hostnames' = [hostnames EXCEPT ![c] = Sanitize(raw)]
    /\ op' = [kind |-> "set", step |-> "truncate", list |-> Reported(part), cn |-> c]
    /\ custom' = custom \cup {c}
    /\ UNCHANGED <<address, up, saved, hosts, told>>

\* os.WriteFile of dnsmasq.hosts, in two steps.
TruncateHosts ==
    /\ op # NoOp /\ op.step = "truncate"
    /\ hosts' = {}
    /\ Step("write")
    /\ UNCHANGED <<address, up, hostnames, saved, told, custom>>

\* A poll saves if it has given a name.
Saves == op.kind = "set" \/ op.fresh

WriteHosts ==
    /\ op # NoOp /\ op.step = "write"
    /\ hosts' = Entries(op.list)
    /\ Step(IF Saves THEN "save" ELSE "answer")
    /\ UNCHANGED <<address, up, hostnames, saved, told, custom>>

\* What SetHostname returns of its save; a poll answers in either case.
ReportsDoneMutant(ok) == TRUE
ReportsDone(ok) == ok

\* The names that are promised by the answer after a save.
Promised(ok) ==
    IF op.kind = "set"
      THEN [told EXCEPT ![op.cn] = IF ReportsDone(ok) THEN hostnames[op.cn] ELSE NoName]
      ELSE [c \in Clients |-> IF ok /\ c \in DOMAIN op.list THEN hostnames[c] ELSE told[c]]

\* saveInstances, and the answer.  Instances has its inside, and what becomes of a torn
\* file.
SaveInstances ==
    /\ op # NoOp /\ op.step = "save"
    /\ \E ok \in BOOLEAN :
         /\ saved' = IF ok THEN hostnames ELSE saved
         /\ told' = Promised(ok)
    /\ op' = NoOp
    /\ UNCHANGED <<address, up, hostnames, hosts, custom>>

\* A poll that has given no name answers with those that there are.
Answer ==
    /\ op # NoOp /\ op.step = "answer"
    /\ op' = NoOp
    /\ UNCHANGED <<address, up, hostnames, saved, hosts, told, custom>>

Proceed == TruncateHosts \/ WriteHosts \/ SaveInstances \/ Answer

----------------------------------------------------------------------------
(* What happens around them.                                               *)

\* A session begins, gets its address, gets another one, or ends.
ClientChanges(c) ==
    /\ \E a \in Addresses \cup {Gone, NoAddress} :
         /\ a \in Addresses => \A d \in Clients : address[d] # a
         /\ address' = [address EXCEPT ![c] = a]
    /\ UNCHANGED <<up, hostnames, saved, hosts, op, told, custom>>

\* The process ends, between two operations or in the middle of one: also when two
\* requests meet in the map of names, one of them without the lock (listInstances).
Crash ==
    /\ up
    /\ up' = FALSE
    /\ hostnames' = [c \in Clients |-> NoName]
    /\ op' = NoOp
    /\ UNCHANGED <<address, saved, hosts, told, custom>>

\* loadInstances starts the container anew: no client is connected, and the hosts
\* file is the old one.
Restart ==
    /\ ~up
    /\ up' = TRUE
    /\ hostnames' = saved
    /\ address' = [c \in Clients |-> Gone]
    /\ UNCHANGED <<saved, hosts, op, told, custom>>

Next ==
    \/ \E part \in SUBSET Connected :
         \/ GetInstanceClients(part)
         \/ \E c \in Clients, raw \in Tried : SetHostname(c, raw, part)
    \/ Proceed
    \/ \E c \in Clients : ClientChanges(c)
    \/ Crash
    \/ Restart

Spec == Init /\ [][Next]_vars

\* Operations proceed, the backend is restarted, and among the polls of a dashboard
\* that is open there is again and again one that OpenVPN answers in full.
FairSpec ==
    /\ Spec
    /\ WF_vars(Proceed)
    /\ WF_vars(Restart)
    /\ SF_vars(GetInstanceClients(Connected))

----------------------------------------------------------------------------
(* Properties.                                                             *)

\* A name that a SetHostname has reported as set (manager.go:598), or that a poll has
\* given and saved (541-545), is the client's until another SetHostname for it: wherever
\* the process ends, and whatever is not saved afterwards.  Nothing is promised by a
\* SetHostname that has failed, by a poll whose save has (542), nor by the list of
\* instances, which shows names before they are saved (handler.go:404-434).
NamesKept ==
    Idle => \A c \in Clients : told[c] # NoName => hostnames[c] = told[c]

\* Two clients only have one name if a user named one of them
\* (uniqueFriendlyName, manager.go:635-647), or 50 draws have failed: not by a client
\* that comes back, nor by a restart that forgets half of a poll.
AutoNamesDistinct ==
    \A c, d \in Clients :
        hostnames[c] # NoName /\ hostnames[c] = hostnames[d] =>
            c = d \/ c \in custom \/ d \in custom \/ hostnames[c] \in Fallbacks

\* Every name that DNS is given is a DNS label, although sanitizeHostname may cut a
\* name after a hyphen (manager.go:569-571): the second pass of writeDNSHosts (605)
\* removes it.
HostsAreLabels == \A entry \in hosts : IsLabel(entry[2])

\* What the two passes of sanitizeHostname (manager.go:551-576, 605) make of any text
\* that a user may set first is the longest label that it has at its first letter or
\* digit, or "host".
TextsBecomeLabels ==
    Idle /\ custom = {} /\ Connected = {} /\ saved = [c \in Clients |-> NoName] =>
        \A raw \in RawNames : LongestLabel(raw)

\* While the set of connected clients is not empty and does not change, the file
\* is, again and again, exactly what it should be: whatever was lost by crashes,
\* failed or partial queries and addresses that have moved on is made good by the
\* next full answer (manager.go:534-540).
Current ==
    /\ \A c \in Connected : hostnames[c] # NoName
    /\ hosts = {<<address[c], Safe(hostnames[c])>> :
                  c \in {d \in Connected : address[d] # NoAddress}}
HostsConverge ==
    <>[](up /\ Connected # {}) /\ <>[][FALSE]_address => []<>Current
=============================================================================
