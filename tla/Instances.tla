----------------------------- MODULE Instances -----------------------------
(***************************************************************************)
(* The life of the VPN instances (backend/internal/vpn/manager.go): the    *)
(* map in memory, its copy in instances.json, and one Docker container per *)
(* running instance.  Every operation holds Manager.mu from beginning to   *)
(* end, so at most one is under way; but each is a sequence of Docker      *)
(* calls and file writes, and the process can end between any two of them. *)
(*                                                                         *)
(* Docker keeps names unique, and a container's name is made from its      *)
(* instance's ID: containers are a function of the instance.  What the     *)
(* manager keeps is the container's ID, which names one container for ever.*)
(*                                                                         *)
(* A definition named ...Mutant is a plausible mistake in the definition   *)
(* after it; no specification uses it.                                     *)
(***************************************************************************)
EXTENDS Integers, FiniteSets

CONSTANTS
    Ids,            \* instance IDs
    Cids,           \* container IDs
    NoCid,          \* ContainerID == "", and: no container of that name
    Absent,         \* no such instance
    Missing,        \* no file instances.json
    Subnets,        \* number of subnets: 10.8.0.0, 10.9.0.0, ... (247)
    FaultKinds,     \* "removal": Docker fails to remove a container, unnoticed;
                    \* "crash": the process ends in the middle of an operation
    MaxFaults       \* bound on the faults of these kinds

Record == [status : {"running", "stopped"}, cid : Cids \cup {NoCid},
           subnet : 1..Subnets, locked : BOOLEAN]

ASSUME NullsDistinct ==
    /\ NoCid \notin Cids
    /\ Absent \notin Record
    /\ Missing \notin [Ids -> Record \cup {Absent}]
ASSUME SomeSubnet == Subnets \in Nat \ {0}
ASSUME FaultBound == MaxFaults \in Nat /\ FaultKinds \subseteq {"removal", "crash"}

VARIABLES
    proc,           \* the backend process: "down", "loading" or "serving"
    instances,      \* Manager.instances
    disk,           \* what instances.json says
    torn,           \* instances.json has been truncated and not yet written
    name,           \* the ID of the container that bears the instance's name
    runs,           \* is that container running?
    op,             \* the operation that holds Manager.mu
    todo,           \* instances that loadInstances has yet to restart
    faults          \* history: the number of these faults so far

vars == <<proc, instances, disk, torn, name, runs, op, todo, faults>>

\* step: what the operation does next; inst: the record it works on.
NoOp == [kind |-> "none"]
Work ==
    [kind : {"create", "start", "stop", "delete", "load"}, id : Ids,
     step : {"teardown", "build", "launch", "commit", "fail"}, inst : Record]
Operation == Work \cup [kind : {"save"}] \cup {NoOp}

TypeOK ==
    /\ proc \in {"down", "loading", "serving"}
    /\ instances \in [Ids -> Record \cup {Absent}]
    /\ disk \in [Ids -> Record \cup {Absent}] \cup {Missing}
    /\ torn \in BOOLEAN
    /\ name \in [Ids -> Cids \cup {NoCid}]
    /\ runs \in [Ids -> BOOLEAN]
    /\ op \in Operation
    /\ todo \in SUBSET Ids
    /\ faults \in 0..MaxFaults

Nothing == [i \in Ids |-> Absent]

\* First start, with an empty data directory.
Init ==
    /\ proc = "down"
    /\ instances = Nothing
    /\ disk = Missing
    /\ torn = FALSE
    /\ name = [i \in Ids |-> NoCid]
    /\ runs = [i \in Ids |-> FALSE]
    /\ op = NoOp
    /\ todo = {}
    /\ faults = 0

----------------------------------------------------------------------------

Present(i) == instances[i] # Absent
Saved(i) == disk # Missing /\ disk[i] # Absent

\* allocateSubnet: the first one not in use, or the first one.
AllocateSubnetMutant ==
    LET n == Cardinality({i \in Ids : Present(i)}) + 1
    IN  IF n <= Subnets THEN n ELSE 1
AllocateSubnetOffByOneMutant ==
    LET used == {instances[i].subnet : i \in {j \in Ids : Present(j)}}
    IN  CHOOSE s \in 0..Subnets : s \notin used /\ \A u \in (0..Subnets) \ used : s <= u
AllocateSubnet ==
    LET used == {instances[i].subnet : i \in {j \in Ids : Present(j)}}
        free == (1..Subnets) \ used
    IN  IF free = {} THEN 1 ELSE CHOOSE s \in free : \A u \in free : s <= u

\* A container ID that nothing refers to any more stands for a new one.
Known(c) ==
    \/ \E i \in Ids : name[i] = c
    \/ \E i \in Ids : Present(i) /\ instances[i].cid = c
    \/ \E i \in Ids : Saved(i) /\ disk[i].cid = c

\* One more fault happens, if the bound allows it.
Fault(kind) == kind \in FaultKinds /\ faults < MaxFaults /\ faults' = faults + 1

Idle == proc = "serving" /\ op = NoOp

Begin(kind, i, step, inst) ==
    /\ op' = [kind |-> kind, id |-> i, step |-> step, inst |-> inst]
    /\ UNCHANGED <<proc, instances, disk, torn, name, runs, todo, faults>>

Working == op.kind \notin {"none", "save"}
At(step) == Working /\ op.step = step

Continue(step) == op' = [op EXCEPT !.step = step]

----------------------------------------------------------------------------
(* The operations that take the lock.                                      *)

CreateInstance(i) ==
    /\ Idle
    /\ ~Present(i) /\ name[i] = NoCid
    /\ Begin("create", i, "build",
             [status |-> "stopped", cid |-> NoCid, subnet |-> AllocateSubnet,
              locked |-> FALSE])

StartInstance(i) ==
    /\ Idle
    /\ Present(i)
    /\ instances[i].status # "running"
    /\ Begin("start", i, "build", instances[i])

StopInstance(i) ==
    /\ Idle
    /\ Present(i)
    /\ Begin("stop", i, IF instances[i].cid = NoCid THEN "commit" ELSE "teardown",
             instances[i])

DeleteInstance(i) ==
    /\ Idle
    /\ Present(i)
    /\ Begin("delete", i, IF instances[i].cid = NoCid THEN "commit" ELSE "teardown",
             instances[i])

\* saveInstances, first half: the file is truncated.
StartSave ==
    /\ torn' = TRUE
    /\ op' = [kind |-> "save"]

\* SetLocked, and likewise the other settings of an instance.
SetLocked(i, locked) ==
    /\ Idle
    /\ Present(i)
    /\ instances' = [instances EXCEPT ![i].locked = locked]
    /\ StartSave
    /\ UNCHANGED <<proc, disk, name, runs, todo, faults>>

----------------------------------------------------------------------------
(* Docker calls.                                                           *)

\* ContainerStop and ContainerRemove of the recorded container, errors ignored.
\* They do nothing if that container is gone or the name is now another's.
RemoveContainer(i, c) ==
    \/ /\ name[i] = c
       /\ name' = [name EXCEPT ![i] = NoCid]
       /\ runs' = [runs EXCEPT ![i] = FALSE]
       /\ UNCHANGED faults
    \/ name[i] # c /\ UNCHANGED <<name, runs, faults>>
    \/ name[i] = c /\ Fault("removal") /\ UNCHANGED <<name, runs>>

Teardown ==
    /\ At("teardown")
    /\ RemoveContainer(op.id, op.inst.cid)
    /\ op' = [op EXCEPT !.step = IF op.kind = "load" THEN "build" ELSE "commit",
                        !.inst.cid = NoCid]
    /\ UNCHANGED <<proc, instances, disk, torn, todo>>

\* startContainer: ContainerCreate fails if the name is taken, or for reasons
\* of its own.
Build ==
    /\ At("build")
    /\ \/ /\ name[op.id] = NoCid
          /\ \E c \in Cids : ~Known(c)
          /\ name' = [name EXCEPT ![op.id] = CHOOSE c \in Cids : ~Known(c)]
          /\ Continue("launch")
       \/ /\ UNCHANGED name
          /\ Continue("fail")
    /\ UNCHANGED <<proc, instances, disk, torn, runs, todo, faults>>

\* NetworkConnect and ContainerStart; on an error the container is removed.
DiscardMutant(i) == UNCHANGED <<name, runs, faults>>
Discard(i) == RemoveContainer(i, name[i])

Launch ==
    /\ At("launch")
    /\ \/ /\ runs' = [runs EXCEPT ![op.id] = TRUE]
          /\ op' = [op EXCEPT !.step = "commit", !.inst.cid = name[op.id]]
          /\ UNCHANGED <<name, faults>>
       \/ /\ Discard(op.id)
          /\ Continue("fail")
    /\ UNCHANGED <<proc, instances, disk, torn, todo>>

----------------------------------------------------------------------------
(* What the operations leave behind.                                       *)

\* The record after startContainer, and the record after a stop.
Started == [op.inst EXCEPT !.status = "running"]
Stopped == [op.inst EXCEPT !.status = "stopped"]

\* The operation succeeds: the map is changed and the file rewritten.
SaveChangeMutant == UNCHANGED torn /\ op' = NoOp
SaveChange == StartSave

Commit ==
    /\ At("commit")
    /\ op.kind # "load"
    /\ instances' = [instances EXCEPT ![op.id] =
                       CASE op.kind \in {"create", "start"} -> Started
                         [] op.kind = "stop" -> Stopped
                         [] op.kind = "delete" -> Absent]
    /\ SaveChange
    /\ UNCHANGED <<proc, disk, name, runs, todo, faults>>

\* startContainer has failed: create and start return the error.
GiveUp ==
    /\ At("fail")
    /\ op.kind # "load"
    /\ op' = NoOp
    /\ UNCHANGED <<proc, instances, disk, torn, name, runs, todo, faults>>

FinishSave ==
    /\ op.kind = "save"
    /\ disk' = instances
    /\ torn' = FALSE
    /\ op' = NoOp
    /\ proc' = "serving"
    /\ UNCHANGED <<instances, name, runs, todo, faults>>

----------------------------------------------------------------------------
(* Starting and ending the process.                                        *)

\* NewManager reads the file; if it does not parse, main ends the process, and
\* if there is none there is nothing to load or to save.
Boot ==
    /\ proc = "down"
    /\ \/ torn /\ UNCHANGED vars
       \/ /\ ~torn
          /\ proc' = IF disk = Missing THEN "serving" ELSE "loading"
          /\ todo' = {i \in Ids : Saved(i)}
          /\ UNCHANGED <<instances, disk, torn, name, runs, op, faults>>

\* loadInstances: every instance gets a new container, whatever its status was.
LoadNext(i) ==
    /\ proc = "loading"
    /\ op = NoOp
    /\ i \in todo
    /\ todo' = todo \ {i}
    /\ op' = [kind |-> "load", id |-> i, inst |-> disk[i],
              step |-> IF disk[i].cid = NoCid THEN "build" ELSE "teardown"]
    /\ UNCHANGED <<proc, instances, disk, torn, name, runs, faults>>

\* An instance whose container does not start is marked stopped.
LoadedMutant == Started
Loaded == IF op.step = "commit" THEN Started ELSE Stopped

LoadDoneMutant ==
    /\ At("commit") \/ At("fail")
    /\ op.kind = "load"
    /\ op' = NoOp
    /\ \/ At("commit") /\ instances' = [instances EXCEPT ![op.id] = Loaded]
                        /\ UNCHANGED <<proc, todo>>
       \/ At("fail") /\ proc' = "down" /\ instances' = Nothing /\ todo' = {}
    /\ UNCHANGED <<disk, torn, name, runs, faults>>
LoadDone ==
    /\ At("commit") \/ At("fail")
    /\ op.kind = "load"
    /\ instances' = [instances EXCEPT ![op.id] = Loaded]
    /\ op' = NoOp
    /\ UNCHANGED <<proc, disk, torn, name, runs, todo, faults>>

LoadSaves ==
    /\ proc = "loading"
    /\ op = NoOp
    /\ todo = {}
    /\ StartSave
    /\ UNCHANGED <<proc, instances, disk, name, runs, todo, faults>>

ProcessEnds ==
    /\ proc' = "down"
    /\ instances' = Nothing
    /\ op' = NoOp
    /\ todo' = {}
    /\ UNCHANGED <<disk, torn>>

\* SIGTERM: the containers are removed, nothing is saved.
Shutdown ==
    /\ Idle
    /\ ProcessEnds
    /\ LET mine == {i \in Ids : Present(i) /\ name[i] # NoCid /\ instances[i].cid = name[i]}
       IN  \E gone \in SUBSET mine :
             /\ IF gone = mine THEN UNCHANGED faults ELSE Fault("removal")
             /\ name' = [i \in Ids |-> IF i \in gone THEN NoCid ELSE name[i]]
             /\ runs' = [i \in Ids |-> i \notin gone /\ runs[i]]

\* The process is killed, between two operations or in the middle of one.
Crash ==
    /\ proc # "down"
    /\ IF Idle THEN UNCHANGED faults ELSE Fault("crash")
    /\ ProcessEnds
    /\ UNCHANGED <<name, runs>>

\* OpenVPN exits; the manager does not notice.
ContainerDies(i) ==
    /\ runs[i]
    /\ runs' = [runs EXCEPT ![i] = FALSE]
    /\ UNCHANGED <<proc, instances, disk, torn, name, op, todo, faults>>

----------------------------------------------------------------------------

Request(i) ==
    \/ CreateInstance(i) \/ StartInstance(i) \/ StopInstance(i) \/ DeleteInstance(i)
    \/ \E locked \in BOOLEAN : SetLocked(i, locked)

\* The steps of whatever is under way, which nobody has to ask for.
Proceed ==
    \/ Teardown \/ Build \/ Launch \/ Commit \/ GiveUp \/ FinishSave
    \/ Boot \/ LoadDone \/ LoadSaves \/ \E i \in Ids : LoadNext(i)

Next ==
    \/ Proceed
    \/ \E i \in Ids : Request(i) \/ ContainerDies(i)
    \/ Shutdown
    \/ Crash

Spec == Init /\ [][Next]_vars

\* Docker calls and file writes return, and the backend is started again.
FairSpec == Spec /\ WF_vars(Proceed)

----------------------------------------------------------------------------
(* Properties.                                                             *)

\* README.md:21: "각 인스턴스는 독립된 Docker 컨테이너로 실행되며 C 클래스 서브넷이 서로
\* 다르다" -- any two instances have different subnets, also after deletions and
\* restarts (allocateSubnet, manager.go:713-725).  Only claimed while there are no
\* more instances than subnets; after that the first subnet is shared.
SubnetsDistinct ==
    \A i, j \in Ids :
        Present(i) /\ Present(j) /\ i # j => instances[i].subnet # instances[j].subnet

\* Between operations, an instance marked running has a container, and it is
\* the one whose ID the manager has: stop, delete and shutdown will reach it.
\* Whatever Docker call failed and wherever the process ended before.
RunningHasContainer ==
    Idle => \A i \in Ids :
        Present(i) /\ instances[i].status = "running" =>
            instances[i].cid = name[i] /\ name[i] # NoCid

\* Between operations the file is intact and says what the map says: a restart
\* forgets nothing that a request was told was done.
DiskAgrees ==
    Idle => ~torn /\ \A i \in Ids : IF Saved(i) THEN instances[i] = disk[i] ELSE ~Present(i)

\* As long as Docker has removed what it was told to and no crash has come in the
\* middle of an operation, a container exists between operations only for an
\* instance marked running: nothing is left over after a failed start
\* (manager.go:304-314), a stop, a delete or a restart, and the name of a stopped
\* instance is free for its next start.
NoLeftovers ==
    Idle /\ faults = 0 => \A i \in Ids :
        ~Present(i) \/ instances[i].status = "stopped" => name[i] = NoCid

\* manager.go:223-224: "Stop and remove any existing container for this
\* instance. On restart we always spin up a fresh container so state is clean."
\* Not so after a crash when a container had been created but its ID not been saved
\* (316, 389, 683): no restart removes it, its name stays taken, and the instance can
\* never start again.  Docker does as told here: the faults are crashes only.
RestartIsClean ==
    Idle => \A i \in Ids :
        Present(i) /\ instances[i].status = "stopped" => name[i] = NoCid

\* The backend comes up again after every end, however many instances fail to
\* start (manager.go:222-243), unless a crash tore the file.
ComesUp == proc = "down" ~> proc = "serving" \/ torn
=============================================================================
