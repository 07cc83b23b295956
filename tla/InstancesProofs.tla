-------------------------- MODULE InstancesProofs --------------------------
(***************************************************************************)
(* Theorems about Instances for any instances and container IDs, whatever  *)
(* fails and wherever the process ends.                                    *)
(***************************************************************************)
EXTENDS Instances, TLAPS, WellFoundedInduction, FiniteSetTheorems

----------------------------------------------------------------------------
(* The subnet that allocateSubnet returns.                                 *)

\* A non-empty set of natural numbers has a least one.
LEMMA Smallest ==
    ASSUME NEW T \in SUBSET Nat, T # {}
    PROVE  \E x \in T : \A y \in T : x <= y
<1> DEFINE R == {ss \in Nat \X Nat : ss[1] < ss[2]}
<1>1. IsWellFoundedOn(R, Nat)
  BY NatLessThanWellFounded DEF OpToRel
<1> HIDE DEF R
<1>2. PICK x \in T : \A y \in T : ~ (<<y, x>> \in R)
  BY <1>1, WFMin
<1>3. ASSUME NEW y \in T
      PROVE  x <= y
  <2>1. y \in Nat /\ x \in Nat
    OBVIOUS
  <2>2. <<y, x>> \in R <=> y < x
    BY <2>1 DEF R
  <2> QED
    BY <1>2, <2>1, <2>2
<1> QED
  BY <1>3

\* allocateSubnet (manager.go:713-725) returns a subnet, and a free one if there is one.
LEMMA AllocateSubnetResult ==
    /\ AllocateSubnet \in 1..Subnets
    /\ (1..Subnets) \ {instances[i].subnet : i \in {j \in Ids : Present(j)}} # {} =>
         \A i \in Ids : Present(i) => instances[i].subnet # AllocateSubnet
<1> DEFINE used == {instances[i].subnet : i \in {j \in Ids : Present(j)}}
           free == (1..Subnets) \ used
<1>1. CASE free = {}
  BY <1>1, SomeSubnet DEF AllocateSubnet
<1>2. CASE free # {}
  <2>1. \E s \in free : \A u \in free : s <= u
    <3>1. free \in SUBSET Nat
      OBVIOUS
    <3> QED
      BY <1>2, <3>1, Smallest
  <2>2. AllocateSubnet \in free
    BY <1>2, <2>1 DEF AllocateSubnet
  <2>3. \A i \in Ids : Present(i) => instances[i].subnet \in used
    OBVIOUS
  <2> QED
    BY <2>2, <2>3
<1> QED
  BY <1>1, <1>2

----------------------------------------------------------------------------
(* Types.                                                                  *)

LEMMA TypeInit == Init => TypeOK
<1>1. 0 \in 0..MaxFaults
  BY FaultBound
<1> QED
  BY <1>1 DEF Init, TypeOK, Nothing, Operation, NoOp

\* What the operation under way has been given to do.  A load takes its record
\* from the file, so even the types depend on this.
KindsAndSteps ==
    Working =>
        /\ op.kind \in {"create", "start"} => op.step \in {"build", "launch", "commit", "fail"}
        /\ op.kind \in {"stop", "delete"} => op.step \in {"teardown", "commit"}
        /\ op.kind \in {"create", "load"} => ~Present(op.id)
        /\ op.kind \in {"start", "stop", "delete"} => Present(op.id)
        /\ op.kind = "start" => instances[op.id].status # "running"

Phases ==
    /\ proc = "down" => instances = Nothing /\ op = NoOp
    /\ proc = "loading" => op.kind \in {"none", "load", "save"}
    /\ proc = "serving" => op.kind # "load"

Loading ==
    /\ proc # "loading" \/ op.kind = "save" => todo = {}
    /\ \A i \in todo : Saved(i) /\ ~Present(i)
    /\ op.kind = "load" => op.id \notin todo /\ Saved(op.id)

ControlInv == KindsAndSteps /\ Phases /\ Loading

LEMMA WorkingType == TypeOK /\ Working => op \in Work
BY DEF TypeOK, Working, Operation, NoOp

LEMMA RecordType ==
    /\ \A r \in Record : r \in [status : {"running", "stopped"}, cid : Cids \cup {NoCid},
                                subnet : 1..Subnets, locked : BOOLEAN]
    /\ \A i \in Ids : TypeOK /\ Present(i) => instances[i] \in Record
    /\ \A i \in Ids : TypeOK /\ Saved(i) => disk[i] \in Record
BY DEF TypeOK, Present, Saved, Record

\* The records that the operations make.
LEMMA WorkTypes ==
    ASSUME TypeOK, Working
    PROVE  /\ Started \in Record
           /\ Stopped \in Record
           /\ \A step \in {"teardown", "build", "launch", "commit", "fail"} :
                [op EXCEPT !.step = step] \in Work
           /\ \A step \in {"teardown", "build", "launch", "commit", "fail"},
                 c \in Cids \cup {NoCid} :
                [op EXCEPT !.step = step, !.inst.cid = c] \in Work
BY WorkingType DEF Work, Record, Started, Stopped

LEMMA RemoveTypes ==
    ASSUME TypeOK, NEW i, NEW c, RemoveContainer(i, c)
    PROVE  /\ name' \in [Ids -> Cids \cup {NoCid}]
           /\ runs' \in [Ids -> BOOLEAN]
           /\ faults' \in 0..MaxFaults
<1>1. faults' \in 0..MaxFaults
  BY FaultBound DEF RemoveContainer, Fault, TypeOK
<1>2. name' \in [Ids -> Cids \cup {NoCid}] /\ runs' \in [Ids -> BOOLEAN]
  BY DEF RemoveContainer, Fault, TypeOK
<1> QED
  BY <1>1, <1>2

LEMMA TypeStep == TypeOK /\ ControlInv /\ [Next]_vars => TypeOK'
<1> SUFFICES ASSUME TypeOK, ControlInv, [Next]_vars
             PROVE  TypeOK'
  OBVIOUS
<1>1. ASSUME NEW i \in Ids, CreateInstance(i)
      PROVE  TypeOK'
  <2>1. op' \in Work
    BY <1>1, AllocateSubnetResult DEF CreateInstance, Begin, Work, Record
  <2> QED
    BY <1>1, <2>1 DEF CreateInstance, Begin, TypeOK, Operation
<1>2. ASSUME NEW i \in Ids, StartInstance(i) \/ StopInstance(i) \/ DeleteInstance(i)
      PROVE  TypeOK'
  <2>1. op' \in Work
    BY <1>2, RecordType DEF StartInstance, StopInstance, DeleteInstance, Begin, Work
  <2> QED
    BY <1>2, <2>1 DEF StartInstance, StopInstance, DeleteInstance, Begin, TypeOK, Operation
<1>3. ASSUME NEW i \in Ids, NEW locked \in BOOLEAN, SetLocked(i, locked)
      PROVE  TypeOK'
  <2>1. [instances[i] EXCEPT !.locked = locked] \in Record
    BY <1>3, RecordType DEF SetLocked, Record
  <2> QED
    BY <1>3, <2>1 DEF SetLocked, StartSave, TypeOK, Operation
<1>4. ASSUME Teardown
      PROVE  TypeOK'
  <2>1. op' \in Work
    BY <1>4, WorkTypes DEF Teardown, At
  <2> QED
    BY <1>4, <2>1, RemoveTypes DEF Teardown, TypeOK, Operation
<1>5. ASSUME Build
      PROVE  TypeOK'
  <2>1. op' \in Work
    BY <1>5, WorkTypes DEF Build, Continue, At
  <2> QED
    BY <1>5, <2>1 DEF Build, TypeOK, Operation
<1>6. ASSUME Launch
      PROVE  TypeOK'
  <2>1. op \in Work
    BY <1>6, WorkingType DEF Launch, At
  <2>2. name[op.id] \in Cids \cup {NoCid}
    BY <2>1 DEF Work, TypeOK
  <2>3. op' \in Work
    BY <1>6, <2>2, WorkTypes DEF Launch, Continue, At
  <2> QED
    BY <1>6, <2>3, RemoveTypes DEF Launch, Discard, TypeOK, Operation
<1>7. ASSUME Commit
      PROVE  TypeOK'
  <2>1. op \in Work /\ Started \in Record /\ Stopped \in Record
    BY <1>7, WorkingType, WorkTypes DEF Commit, At
  <2>2. instances' \in [Ids -> Record \cup {Absent}]
    BY <1>7, <2>1 DEF Commit, TypeOK, Work
  <2> QED
    BY <1>7, <2>2 DEF Commit, SaveChange, StartSave, TypeOK, Operation
<1>8. ASSUME GiveUp \/ FinishSave \/ Boot \/ LoadSaves
      PROVE  TypeOK'
  <2>1. CASE GiveUp \/ FinishSave
    BY <2>1 DEF GiveUp, FinishSave, TypeOK, Operation
  <2>2. CASE Boot
    BY <2>2 DEF Boot, TypeOK, vars
  <2>3. CASE LoadSaves
    BY <2>3 DEF LoadSaves, StartSave, TypeOK, Operation
  <2> QED
    BY <1>8, <2>1, <2>2, <2>3
<1>9. ASSUME NEW i \in Ids, LoadNext(i)
      PROVE  TypeOK'
  <2>1. disk[i] \in Record
    BY <1>9, RecordType DEF LoadNext, ControlInv, Loading
  <2>2. op' \in Work
    BY <1>9, <2>1 DEF LoadNext, Work
  <2> QED
    BY <1>9, <2>2 DEF LoadNext, TypeOK, Operation
<1>10. ASSUME LoadDone
       PROVE  TypeOK'
  <2>1. op \in Work /\ Loaded \in Record
    BY <1>10, WorkingType, WorkTypes DEF LoadDone, At, Loaded
  <2>2. instances' \in [Ids -> Record \cup {Absent}]
    BY <1>10, <2>1 DEF LoadDone, TypeOK, Work
  <2> QED
    BY <1>10, <2>2 DEF LoadDone, TypeOK, Operation
<1>11. ASSUME Shutdown \/ Crash
       PROVE  TypeOK'
  <2>1. faults' \in 0..MaxFaults
    BY <1>11, FaultBound DEF Shutdown, Crash, Fault, TypeOK
  <2>2. name' \in [Ids -> Cids \cup {NoCid}] /\ runs' \in [Ids -> BOOLEAN]
    BY <1>11 DEF Shutdown, Crash, TypeOK
  <2> QED
    BY <1>11, <2>1, <2>2 DEF Shutdown, Crash, ProcessEnds, Nothing, TypeOK, Operation
<1>12. ASSUME NEW i \in Ids, ContainerDies(i)
       PROVE  TypeOK'
  BY <1>12 DEF ContainerDies, TypeOK
<1>13. ASSUME UNCHANGED vars
       PROVE  TypeOK'
  BY <1>13 DEF vars, TypeOK
<1> QED
  BY <1>1, <1>2, <1>3, <1>4, <1>5, <1>6, <1>7, <1>8, <1>9, <1>10, <1>11, <1>12, <1>13
  DEF Next, Proceed, Request

----------------------------------------------------------------------------
(* The order of the steps.                                                 *)

LEMMA ControlInit == Init => ControlInv
BY DEF Init, ControlInv, KindsAndSteps, Phases, Loading, Working, NoOp

LEMMA ControlStep == TypeOK /\ ControlInv /\ [Next]_vars => ControlInv'
<1> SUFFICES ASSUME TypeOK, ControlInv, [Next]_vars
             PROVE  ControlInv'
  OBVIOUS
<1> USE DEF ControlInv, KindsAndSteps, Phases, Loading
<1>1. ASSUME NEW i \in Ids, Request(i)
      PROVE  ControlInv'
  <2>1. CASE CreateInstance(i)
    BY <2>1 DEF CreateInstance, Idle, Begin, Working, NoOp, Present, Saved
  <2>2. CASE StartInstance(i)
    BY <2>2 DEF StartInstance, Idle, Begin, Working, NoOp, Present, Saved
  <2>3. CASE StopInstance(i) \/ DeleteInstance(i)
    BY <2>3 DEF StopInstance, DeleteInstance, Idle, Begin, Working, NoOp, Present, Saved
  <2>4. ASSUME NEW locked \in BOOLEAN, SetLocked(i, locked)
        PROVE  ControlInv'
    BY <2>4 DEF SetLocked, StartSave, Idle, Working, NoOp, Present, Saved
  <2> QED
    BY <1>1, <2>1, <2>2, <2>3, <2>4 DEF Request
<1>2. ASSUME Teardown \/ Build \/ Launch
      PROVE  ControlInv'
  <2>1. op \in Work
    BY <1>2, WorkingType DEF Teardown, Build, Launch, At
  <2>2. /\ op'.kind = op.kind
        /\ op'.id = op.id
        /\ op'.step \in {"build", "launch", "commit", "fail"}
        /\ op.kind \in {"stop", "delete"} => op'.step = "commit"
    BY <1>2, <2>1 DEF Teardown, Build, Launch, Continue, At, Work, Working
  <2>3. UNCHANGED <<proc, instances, disk, todo>>
    BY <1>2 DEF Teardown, Build, Launch
  <2> QED
    BY <1>2, <2>1, <2>2, <2>3
    DEF Working, Present, Saved, Work, NoOp, Teardown, Build, Launch, At
<1>3. ASSUME Commit
      PROVE  ControlInv'
  BY <1>3 DEF Commit, At, SaveChange, StartSave, Working, NoOp, Present, Saved
<1>4. ASSUME GiveUp \/ FinishSave
      PROVE  ControlInv'
  BY <1>4 DEF GiveUp, FinishSave, At, Working, NoOp, Present, Saved
<1>5. ASSUME Boot
      PROVE  ControlInv'
  BY <1>5 DEF Boot, Working, NoOp, Present, Saved, Nothing, vars
<1>6. ASSUME NEW i \in Ids, LoadNext(i)
      PROVE  ControlInv'
  BY <1>6 DEF LoadNext, Working, NoOp, Present, Saved
<1>7. ASSUME LoadDone
      PROVE  ControlInv'
  <2>1. op \in Work
    BY <1>7, WorkingType DEF LoadDone, At
  <2>2. \A i \in Ids : i # op.id => instances'[i] = instances[i]
    BY <1>7, <2>1 DEF LoadDone, TypeOK, Work
  <2> QED
    BY <1>7, <2>1, <2>2 DEF LoadDone, Working, NoOp, Present, Saved, TypeOK
<1>8. ASSUME LoadSaves
      PROVE  ControlInv'
  BY <1>8 DEF LoadSaves, StartSave, Working, NoOp, Present, Saved
<1>9. ASSUME Shutdown \/ Crash
      PROVE  ControlInv'
  BY <1>9 DEF Shutdown, Crash, ProcessEnds, Working, NoOp
<1>10. ASSUME NEW i \in Ids, ContainerDies(i)
       PROVE  ControlInv'
  BY <1>10 DEF ContainerDies, Working, Present, Saved
<1>11. ASSUME UNCHANGED vars
       PROVE  ControlInv'
  BY <1>11 DEF vars, Working, Present, Saved
<1> QED
  BY <1>1, <1>2, <1>3, <1>4, <1>5, <1>6, <1>7, <1>8, <1>9, <1>10, <1>11
  DEF Next, Proceed

\* Every variable keeps its type, for any instances and subnets, and whatever
\* fails or ends.
THEOREM TypeCorrect == Spec => []TypeOK
<1>1. Init => TypeOK /\ ControlInv
  BY TypeInit, ControlInit
<1>2. TypeOK /\ ControlInv /\ [Next]_vars => (TypeOK /\ ControlInv)'
  BY TypeStep, ControlStep
<1> QED
  BY <1>1, <1>2, PTL DEF Spec

----------------------------------------------------------------------------
(* Running instances and their containers.                                 *)

Backed(i) ==
    Present(i) /\ instances[i].status = "running" =>
        instances[i].cid = name[i] /\ name[i] # NoCid

\* RunningHasContainer in the middle of an operation: it holds of the other
\* instances, and the operation knows the container that it has started.
BackedInv ==
    /\ \A i \in Ids : (Working => op.id # i) => Backed(i)
    /\ op.kind \in {"create", "start", "load"} =>
         /\ At("launch") => name[op.id] # NoCid
         /\ At("commit") => op.inst.cid = name[op.id] /\ name[op.id] # NoCid

LEMMA BackedInit == Init => BackedInv
BY DEF Init, BackedInv, Backed, Present, Nothing, Working, At, NoOp

LEMMA BackedStep == TypeOK /\ ControlInv /\ BackedInv /\ [Next]_vars => BackedInv'
<1> SUFFICES ASSUME TypeOK, ControlInv, BackedInv, [Next]_vars
             PROVE  BackedInv'
  OBVIOUS
<1>1. ASSUME NEW i \in Ids, CreateInstance(i) \/ StartInstance(i) \/ StopInstance(i)
                               \/ DeleteInstance(i)
      PROVE  BackedInv'
  BY <1>1 DEF CreateInstance, StartInstance, StopInstance, DeleteInstance, Idle, Begin,
              BackedInv, Backed, Present, Working, At, NoOp
<1>2. ASSUME NEW i \in Ids, NEW locked \in BOOLEAN, SetLocked(i, locked)
      PROVE  BackedInv'
  <2>1. \A j \in Ids : Backed(j)
    BY <1>2 DEF SetLocked, Idle, BackedInv, Working, NoOp
  <2>2. \A j \in Ids : /\ Present(j)' <=> Present(j)
                       /\ Present(j) => /\ instances'[j].status = instances[j].status
                                        /\ instances'[j].cid = instances[j].cid
    <3> SUFFICES ASSUME NEW j \in Ids
                 PROVE  /\ Present(j)' <=> Present(j)
                        /\ Present(j) => /\ instances'[j].status = instances[j].status
                                         /\ instances'[j].cid = instances[j].cid
      OBVIOUS
    <3>1. Present(j) => instances[j] \in Record
      BY RecordType
    <3>2. instances'[j] = IF j = i THEN [instances[i] EXCEPT !.locked = locked]
                          ELSE instances[j]
      BY <1>2 DEF SetLocked, TypeOK
    <3>3. \A r \in Record : LET s == [r EXCEPT !.locked = locked]
                           IN  s \in Record /\ s.status = r.status /\ s.cid = r.cid
      BY DEF Record
    <3>4. Present(i)
      BY <1>2 DEF SetLocked
    <3> QED
      BY <3>1, <3>2, <3>3, <3>4, NullsDistinct DEF Present
  <2> QED
    BY <1>2, <2>1, <2>2 DEF SetLocked, StartSave, BackedInv, Backed, Working, At
<1>3. ASSUME Teardown \/ Build \/ Launch
      PROVE  BackedInv'
  <2>1. op \in Work
    BY <1>3, WorkingType DEF Teardown, Build, Launch, At
  <2>2. \A i \in Ids : i # op.id => name'[i] = name[i]
    BY <1>3, <2>1
    DEF Teardown, Build, Launch, Discard, RemoveContainer, TypeOK, Work
  <2>3. op'.kind = op.kind /\ op'.id = op.id
    BY <1>3, <2>1 DEF Teardown, Build, Launch, Continue, Work
  <2>4. \A i \in Ids : (Working' => op'.id # i) => Backed(i)'
    BY <1>3, <2>1, <2>2, <2>3
    DEF BackedInv, Backed, Present, Working, Work, Teardown, Build, Launch
  <2>5. op'.kind \in {"create", "start", "load"} =>
          /\ At("launch")' => name'[op'.id] # NoCid
          /\ At("commit")' => op'.inst.cid = name'[op'.id] /\ name'[op'.id] # NoCid
    <3>1. CASE Teardown
      <4>1. op.kind \in {"load", "stop", "delete"}
        BY <2>1, <3>1 DEF Teardown, At, Working, Work, ControlInv, KindsAndSteps
      <4>2. op'.step = IF op.kind = "load" THEN "build" ELSE "commit"
        BY <2>1, <3>1 DEF Teardown, Work
      <4> QED
        BY <2>3, <4>1, <4>2 DEF At
    <3>2. CASE Build
      <4>1. name'[op.id] = name[op.id] \/ op'.step # "launch" \/ name'[op.id] \in Cids
        BY <2>1, <3>2 DEF Build, Continue, TypeOK, Work
      <4> QED
        BY <2>1, <3>2, <4>1, NullsDistinct
        DEF Build, Continue, At, Working, Work, TypeOK
    <3>3. CASE Launch
      <4>1. CASE op'.step = "fail"
        BY <4>1 DEF At
      <4>2. CASE op'.step # "fail"
        <5>1. op' = [op EXCEPT !.step = "commit", !.inst.cid = name[op.id]] /\ name' = name
          BY <2>1, <3>3, <4>2 DEF Launch, Continue, Work
        <5>2. op'.step = "commit" /\ op'.inst.cid = name[op.id]
          BY <2>1, <5>1 DEF Work, Record
        <5> QED
          BY <2>3, <3>3, <5>1, <5>2 DEF Launch, At, BackedInv
      <4> QED
        BY <4>1, <4>2
    <3> QED
      BY <1>3, <3>1, <3>2, <3>3
  <2> QED
    BY <2>4, <2>5 DEF BackedInv
<1>4. ASSUME Commit \/ LoadDone
      PROVE  BackedInv'
  <2>1. op \in Work
    BY <1>4, WorkingType DEF Commit, LoadDone, At
  <2>2. \A i \in Ids : i # op.id => Backed(i)'
    BY <1>4, <2>1
    DEF Commit, LoadDone, BackedInv, Backed, Present, TypeOK, Work
  <2>3. ASSUME NEW d \in Ids, d = op.id
        PROVE  Backed(d)'
    <3>1. op.inst \in Record /\ Started \in Record /\ Stopped \in Record
      BY <2>1, <1>4, WorkTypes DEF Commit, LoadDone, At, Work
    <3>2. /\ Started.status = "running" /\ Started.cid = op.inst.cid
          /\ Stopped.status = "stopped"
      BY <3>1 DEF Started, Stopped, Record
    <3>3. instances'[d] \in {Started, Stopped, Absent}
      BY <1>4, <2>1, <2>3 DEF Commit, LoadDone, Loaded, Work, TypeOK
    <3>4. instances'[d] = Started =>
            op.kind \in {"create", "start", "load"} /\ At("commit")
      <4>1. CASE Commit
        <5>1. op.kind = "stop" => instances'[d] = Stopped
          BY <2>1, <2>3, <4>1 DEF Commit, TypeOK, Work
        <5>2. op.kind = "delete" => instances'[d] = Absent
          BY <2>1, <2>3, <4>1 DEF Commit, TypeOK, Work
        <5> QED
          BY <2>1, <3>1, <3>2, <4>1, <5>1, <5>2, NullsDistinct DEF Commit, Work
      <4>2. CASE LoadDone
        <5>1. instances'[d] = Loaded
          BY <2>1, <2>3, <4>2 DEF LoadDone, TypeOK
        <5> QED
          BY <2>1, <3>2, <4>2, <5>1 DEF LoadDone, Loaded, At
      <4> QED
        BY <1>4, <4>1, <4>2
    <3>5. name' = name
      BY <1>4 DEF Commit, LoadDone
    <3> QED
      BY <2>3, <3>2, <3>3, <3>4, <3>5 DEF BackedInv, Backed, Present
  <2>4. op' \in {NoOp, [kind |-> "save"]}
    BY <1>4 DEF Commit, LoadDone, SaveChange, StartSave
  <2> QED
    BY <2>2, <2>3, <2>4 DEF BackedInv, At, Working, NoOp
<1>5. ASSUME GiveUp
      PROVE  BackedInv'
  <2>1. op \in Work /\ op' = NoOp /\ UNCHANGED <<instances, name>>
    BY <1>5, WorkingType DEF GiveUp, At
  <2>2. op.kind \in {"create", "start"}
    BY <1>5, <2>1 DEF GiveUp, At, Work, ControlInv, KindsAndSteps
  <2>3. ~Present(op.id) \/ instances[op.id].status # "running"
    BY <1>5, <2>2 DEF GiveUp, At, ControlInv, KindsAndSteps
  <2> QED
    BY <2>1, <2>3 DEF BackedInv, Backed, Present, At, Working, NoOp
<1>6. ASSUME FinishSave \/ Boot \/ LoadSaves
      PROVE  BackedInv'
  BY <1>6 DEF FinishSave, Boot, LoadSaves, StartSave, vars, BackedInv, Backed, Present,
              At, Working, NoOp
<1>7. ASSUME NEW i \in Ids, LoadNext(i)
      PROVE  BackedInv'
  BY <1>7 DEF LoadNext, BackedInv, Backed, Present, At, Working, NoOp
<1>8. ASSUME Shutdown \/ Crash
      PROVE  BackedInv'
  BY <1>8 DEF Shutdown, Crash, ProcessEnds, Nothing, BackedInv, Backed, Present, At,
              Working, NoOp
<1>9. ASSUME UNCHANGED vars \/ \E i \in Ids : ContainerDies(i)
      PROVE  BackedInv'
  BY <1>9 DEF ContainerDies, vars, BackedInv, Backed, Present, At, Working
<1> QED
  BY <1>1, <1>2, <1>3, <1>4, <1>5, <1>6, <1>7, <1>8, <1>9 DEF Next, Proceed, Request

\* An instance marked running has the container whose ID the manager has,
\* whichever Docker call failed and wherever the process ended before.
THEOREM RunningHasContainerAlways == Spec => []RunningHasContainer
<1> DEFINE Inv == TypeOK /\ ControlInv /\ BackedInv
<1>1. Init => Inv
  BY TypeInit, ControlInit, BackedInit
<1>2. Inv /\ [Next]_vars => Inv'
  BY TypeStep, ControlStep, BackedStep
<1>3. Inv => RunningHasContainer
  BY DEF BackedInv, Backed, RunningHasContainer, Idle, Working, NoOp
<1> QED
  BY <1>1, <1>2, <1>3, PTL DEF Spec

----------------------------------------------------------------------------
(* The map and its file.                                                   *)

Agree == \A i \in Ids : IF Saved(i) THEN instances[i] = disk[i] ELSE ~Present(i)

\* DiskAgrees in the middle of an operation: the map is only changed together
\* with the start of a save.
DiskInv ==
    /\ torn => op.kind = "save" \/ proc = "down"
    /\ proc = "serving" /\ op.kind # "save" => Agree

LEMMA DiskStep == TypeOK /\ ControlInv /\ DiskInv /\ [Next]_vars => DiskInv'
<1> SUFFICES ASSUME TypeOK, ControlInv, DiskInv, [Next]_vars
             PROVE  DiskInv'
  OBVIOUS
<1>1. ASSUME NEW i \in Ids, Request(i)
      PROVE  DiskInv'
  BY <1>1 DEF Request, CreateInstance, StartInstance, StopInstance, DeleteInstance,
              SetLocked, Begin, StartSave, Idle, NoOp, DiskInv, Agree, Saved, Present
<1>2. ASSUME Teardown \/ Build \/ Launch
      PROVE  DiskInv'
  <2>1. op \in Work
    BY <1>2, WorkingType DEF Teardown, Build, Launch, At
  <2>2. op'.kind = op.kind
    BY <1>2, <2>1 DEF Teardown, Build, Launch, Continue, Work
  <2>3. UNCHANGED <<proc, instances, disk, torn>>
    BY <1>2 DEF Teardown, Build, Launch
  <2> QED
    BY <2>2, <2>3 DEF DiskInv, Agree, Saved, Present
<1>3. ASSUME Commit \/ GiveUp \/ LoadDone
      PROVE  DiskInv'
  BY <1>3 DEF Commit, GiveUp, LoadDone, SaveChange, StartSave, At, Working, NoOp,
              DiskInv, Agree, Saved, Present, ControlInv, Phases
<1>4. ASSUME FinishSave
      PROVE  DiskInv'
  BY <1>4, NullsDistinct
  DEF FinishSave, NoOp, DiskInv, Agree, Saved, Present, TypeOK
<1>5. ASSUME Boot
      PROVE  DiskInv'
  BY <1>5 DEF Boot, vars, DiskInv, Agree, Saved, Present, ControlInv, Phases, Nothing
<1>6. ASSUME LoadSaves \/ \E i \in Ids : LoadNext(i)
      PROVE  DiskInv'
  BY <1>6 DEF LoadSaves, LoadNext, StartSave, NoOp, DiskInv, Agree, Saved, Present
<1>7. ASSUME Shutdown \/ Crash
      PROVE  DiskInv'
  BY <1>7 DEF Shutdown, Crash, ProcessEnds, DiskInv
<1>8. ASSUME UNCHANGED vars \/ \E i \in Ids : ContainerDies(i)
      PROVE  DiskInv'
  BY <1>8 DEF ContainerDies, vars, DiskInv, Agree, Saved, Present
<1> QED
  BY <1>1, <1>2, <1>3, <1>4, <1>5, <1>6, <1>7, <1>8 DEF Next, Proceed

\* Between operations the file is intact and says what the map says, wherever
\* the process ended before.
THEOREM DiskAgreesAlways == Spec => []DiskAgrees
<1> DEFINE Inv == TypeOK /\ ControlInv /\ DiskInv
<1>1. Init => Inv
  <2>1. Init => DiskInv
    BY DEF Init, DiskInv
  <2> QED
    BY <2>1, TypeInit, ControlInit
<1>2. Inv /\ [Next]_vars => Inv'
  BY TypeStep, ControlStep, DiskStep
<1>3. Inv => DiskAgrees
  BY DEF DiskInv, Agree, DiskAgrees, Idle, NoOp
<1> QED
  BY <1>1, <1>2, <1>3, PTL DEF Spec

----------------------------------------------------------------------------
(* Nothing is left over while nothing goes wrong.                          *)

Clean(i) == name[i] # NoCid => Present(i) /\ instances[i].status = "running"
Recorded(i) == name[i] # NoCid => Saved(i) /\ disk[i].cid = name[i]

WorkClean ==
    /\ op.step = "teardown" => name[op.id] \in {NoCid, op.inst.cid}
    /\ op.step \in {"build", "fail"} => name[op.id] = NoCid
    /\ op.kind \in {"stop", "delete"} /\ op.step = "commit" => name[op.id] = NoCid

\* NoLeftovers in the middle of an operation and across restarts: a container
\* outlives the process only if the file has its ID.
CleanInv ==
    faults = 0 =>
        /\ \A i \in Ids : (Working => op.id # i) =>
             IF proc = "down" \/ i \in todo THEN Recorded(i) ELSE Clean(i)
        /\ Working => WorkClean

LEMMA CleanStep ==
    TypeOK /\ ControlInv /\ BackedInv /\ DiskInv /\ CleanInv /\ [Next]_vars => CleanInv'
<1> SUFFICES ASSUME TypeOK, ControlInv, BackedInv, DiskInv, CleanInv, [Next]_vars,
                    faults' = 0
             PROVE  /\ \A i \in Ids : (Working' => op'.id # i) =>
                         IF proc' = "down" \/ i \in todo' THEN Recorded(i)' ELSE Clean(i)'
                    /\ Working' => WorkClean'
  BY DEF CleanInv
<1> DEFINE Goal == /\ \A i \in Ids : (Working' => op'.id # i) =>
                        IF proc' = "down" \/ i \in todo' THEN Recorded(i)' ELSE Clean(i)'
                   /\ Working' => WorkClean'
<1>0. faults = 0
  <2>1. faults' >= faults
    BY FaultBound
    DEF TypeOK, Next, Proceed, Request, CreateInstance, StartInstance, StopInstance,
        DeleteInstance, SetLocked, Begin, Teardown, Build, Launch, Discard, RemoveContainer,
        Commit, GiveUp, FinishSave, Boot, LoadNext, LoadDone, LoadSaves, Shutdown, Crash,
        ContainerDies, Fault, vars
  <2> QED
    BY <2>1, FaultBound DEF TypeOK
<1>00. /\ \A i \in Ids : (Working => op.id # i) =>
            IF proc = "down" \/ i \in todo THEN Recorded(i) ELSE Clean(i)
       /\ Working => WorkClean
  BY <1>0 DEF CleanInv
<1> USE <1>0, <1>00
<1>1. ASSUME NEW i \in Ids, CreateInstance(i) \/ StartInstance(i) \/ StopInstance(i)
                               \/ DeleteInstance(i)
      PROVE  Goal
  <2>1. proc = "serving" /\ op = NoOp /\ todo = {} /\ ~Working
    BY <1>1 DEF CreateInstance, StartInstance, StopInstance, DeleteInstance, Idle, Working,
                NoOp, ControlInv, Loading
  <2>2. Clean(i) /\ Backed(i)
    BY <2>1 DEF BackedInv
  <2> QED
    BY <1>1, <2>1, <2>2
    DEF CreateInstance, StartInstance, StopInstance, DeleteInstance, Begin, WorkClean,
        Clean, Backed, Present, Working
<1>2. ASSUME NEW i \in Ids, NEW locked \in BOOLEAN, SetLocked(i, locked)
      PROVE  Goal
  <2>1. \A j \in Ids : /\ Present(j)' <=> Present(j)
                       /\ Present(j) => instances'[j].status = instances[j].status
    <3> SUFFICES ASSUME NEW j \in Ids
                 PROVE  /\ Present(j)' <=> Present(j)
                        /\ Present(j) => instances'[j].status = instances[j].status
      OBVIOUS
    <3>1. instances'[j] = IF j = i THEN [instances[i] EXCEPT !.locked = locked]
                          ELSE instances[j]
      BY <1>2 DEF SetLocked, TypeOK
    <3>2. \A r \in Record : LET s == [r EXCEPT !.locked = locked]
                           IN  s \in Record /\ s.status = r.status
      BY DEF Record
    <3>3. Present(i) /\ (Present(j) => instances[j] \in Record)
      BY <1>2, RecordType DEF SetLocked
    <3> QED
      BY <3>1, <3>2, <3>3, NullsDistinct DEF Present
  <2> QED
    BY <1>2, <2>1 DEF SetLocked, StartSave, Idle, NoOp, Working, Clean, ControlInv, Loading
<1>3. ASSUME Teardown \/ Build \/ Launch
      PROVE  Goal
  <2>1. op \in Work
    BY <1>3, WorkingType DEF Teardown, Build, Launch, At
  <2>2. \A i \in Ids : i # op.id => name'[i] = name[i]
    BY <1>3, <2>1
    DEF Teardown, Build, Launch, Discard, RemoveContainer, TypeOK, Work
  <2>3. op'.kind = op.kind /\ op'.id = op.id /\ op.id \in Ids
    BY <1>3, <2>1 DEF Teardown, Build, Launch, Continue, Work
  <2>4. Working /\ Working'
    BY <1>3, <2>3 DEF Teardown, Build, Launch, At, Working
  <2>5. UNCHANGED <<proc, instances, disk, todo>>
    BY <1>3 DEF Teardown, Build, Launch
  <2>6. WorkClean'
    <3>1. CASE Teardown
      <4>1. name[op.id] \in {NoCid, op.inst.cid}
        BY <2>4, <3>1 DEF Teardown, At, WorkClean
      <4>2. name'[op.id] = NoCid
        BY <2>3, <3>1, <4>1, FaultBound DEF Teardown, RemoveContainer, Fault, TypeOK
      <4>3. op'.step \in {"build", "commit"}
        BY <2>1, <3>1 DEF Teardown, Work
      <4> QED
        BY <2>3, <4>2, <4>3 DEF WorkClean
    <3>2. CASE Build
      <4>1. name[op.id] = NoCid
        BY <2>4, <3>2 DEF Build, At, WorkClean
      <4>2. \/ op'.step = "launch"
            \/ op'.step = "fail" /\ name' = name
        BY <2>1, <3>2 DEF Build, Continue, Work
      <4> QED
        BY <2>3, <4>1, <4>2 DEF WorkClean
    <3>3. CASE Launch
      <4>1. op.kind \notin {"stop", "delete"}
        BY <2>1, <3>3 DEF Launch, At, Working, ControlInv, KindsAndSteps
      <4>2. \/ op'.step = "commit"
            \/ op'.step = "fail" /\ name'[op.id] = NoCid
        <5>1. \/ op'.step = "commit"
              \/ op'.step = "fail" /\ RemoveContainer(op.id, name[op.id])
          BY <2>1, <3>3 DEF Launch, Continue, Discard, Work
        <5>2. RemoveContainer(op.id, name[op.id]) => name'[op.id] = NoCid
          BY <2>3, FaultBound DEF RemoveContainer, Fault, TypeOK
        <5> QED
          BY <5>1, <5>2
      <4> QED
        BY <2>3, <4>1, <4>2 DEF WorkClean
    <3> QED
      BY <1>3, <3>1, <3>2, <3>3
  <2> QED
    BY <2>2, <2>3, <2>4, <2>5, <2>6 DEF Clean, Recorded, Present, Saved
<1>4. ASSUME Commit
      PROVE  Goal
  <2>1. op \in Work /\ Started \in Record
    BY <1>4, WorkingType, WorkTypes DEF Commit, At
  <2>2. /\ op.kind \in {"create", "start", "stop", "delete"}
        /\ Working /\ proc = "serving" /\ todo = {}
    BY <1>4, <2>1 DEF Commit, At, Work, ControlInv, Phases, Loading, NoOp, TypeOK
  <2>3. \A i \in Ids : i # op.id => instances'[i] = instances[i]
    BY <1>4, <2>1 DEF Commit, Work, TypeOK
  <2>4. op.kind \in {"create", "start"} =>
          instances'[op.id] = Started /\ Started.status = "running" /\ Started # Absent
    BY <1>4, <2>1, NullsDistinct DEF Commit, Work, TypeOK, Started, Record
  <2>5. op.kind \in {"stop", "delete"} => name[op.id] = NoCid
    BY <1>4, <2>2 DEF Commit, At, WorkClean
  <2>6. ~Working' /\ UNCHANGED <<proc, todo, name>>
    BY <1>4 DEF Commit, SaveChange, StartSave, Working
  <2> QED
    BY <2>1, <2>2, <2>3, <2>4, <2>5, <2>6 DEF Clean, Present
<1>5. ASSUME GiveUp
      PROVE  Goal
  <2>1. name[op.id] = NoCid /\ Working /\ proc = "serving" /\ todo = {}
    BY <1>5, WorkingType DEF GiveUp, At, WorkClean, ControlInv, Phases, Loading, NoOp, TypeOK,
       Work, Working
  <2> QED
    BY <1>5, <2>1 DEF GiveUp, Working, NoOp, Clean, Present
<1>6. ASSUME FinishSave \/ LoadSaves
      PROVE  Goal
  <2>1. todo = {} /\ proc # "down" /\ ~Working
    BY <1>6 DEF FinishSave, LoadSaves, ControlInv, Loading, Phases, Working, NoOp
  <2> QED
    BY <1>6, <2>1 DEF FinishSave, LoadSaves, StartSave, Working, NoOp, Clean, Present
<1>7. ASSUME Boot
      PROVE  Goal
  <2>1. ~Working /\ proc = "down" /\ op = NoOp
    BY <1>7 DEF Boot, ControlInv, Phases, Working, NoOp
  <2>2. CASE UNCHANGED vars
    BY <2>1, <2>2 DEF vars, Working, Recorded, Saved
  <2>3. CASE ~UNCHANGED vars
    <3>1. /\ todo' = {i \in Ids : Saved(i)}
          /\ proc' # "down"
          /\ UNCHANGED <<name, disk, op>>
      BY <1>7, <2>3 DEF Boot
    <3> QED
      BY <2>1, <3>1 DEF Working, NoOp, Recorded, Clean, Saved
  <2> QED
    BY <2>2, <2>3
<1>8. ASSUME NEW i \in Ids, LoadNext(i)
      PROVE  Goal
  <2>1. Recorded(i) /\ ~Working /\ proc = "loading" /\ i \in todo
    BY <1>8 DEF LoadNext, Working, NoOp
  <2>2. /\ op'.kind = "load" /\ op'.id = i /\ op'.inst = disk[i]
        /\ op'.step = IF disk[i].cid = NoCid THEN "build" ELSE "teardown"
        /\ todo' = todo \ {i}
        /\ UNCHANGED <<proc, instances, disk, name>>
    BY <1>8 DEF LoadNext
  <2> QED
    BY <2>1, <2>2 DEF Working, Recorded, Clean, Present, Saved, WorkClean
<1>9. ASSUME LoadDone
      PROVE  Goal
  <2>1. op \in Work /\ Started \in Record /\ Working
    BY <1>9, WorkingType, WorkTypes DEF LoadDone, At
  <2>2. op.kind = "load" /\ proc = "loading" /\ op.id \notin todo
    BY <1>9, <2>1 DEF LoadDone, ControlInv, Phases, Loading, NoOp, TypeOK
  <2>3. \A j \in Ids : instances'[j] = IF j = op.id THEN Loaded ELSE instances[j]
    BY <1>9, <2>1 DEF LoadDone, Work, TypeOK
  <2>4. name[op.id] # NoCid =>
          Loaded = Started /\ Started.status = "running" /\ Started # Absent
    <3>1. name[op.id] # NoCid => op.step = "commit"
      BY <1>9, <2>1 DEF LoadDone, At, WorkClean
    <3> QED
      BY <2>1, <3>1, NullsDistinct DEF Loaded, Started, Record, Work
  <2>5. ~Working' /\ UNCHANGED <<proc, todo, name, disk>>
    BY <1>9 DEF LoadDone, Working, NoOp
  <2> QED
    BY <2>1, <2>2, <2>3, <2>4, <2>5 DEF Clean, Recorded, Present, Saved
<1>10. ASSUME Shutdown \/ Crash
       PROVE  Goal
  <2>1. Idle
    BY <1>10, FaultBound DEF Shutdown, Crash, Fault, TypeOK
  <2>2. /\ ~Working /\ todo = {} /\ proc = "serving" /\ Agree
        /\ \A i \in Ids : Clean(i) /\ Backed(i)
    BY <2>1 DEF Idle, Working, NoOp, ControlInv, Loading, DiskInv, BackedInv
  <2>3. proc' = "down" /\ op' = NoOp /\ UNCHANGED disk
    BY <1>10 DEF Shutdown, Crash, ProcessEnds
  <2>4. \A i \in Ids : name'[i] \in {name[i], NoCid}
    BY <1>10 DEF Shutdown, Crash
  <2>5. \A i \in Ids : Recorded(i)
    BY <2>2 DEF Clean, Backed, Agree, Recorded, Present
  <2> QED
    BY <2>3, <2>4, <2>5 DEF Recorded, Saved, Working, NoOp
<1>11. ASSUME UNCHANGED vars \/ \E i \in Ids : ContainerDies(i)
       PROVE  Goal
  BY <1>11 DEF ContainerDies, vars, Working, WorkClean, Clean, Recorded, Present, Saved
<1> QED
  BY <1>1, <1>2, <1>3, <1>4, <1>5, <1>6, <1>7, <1>8, <1>9, <1>10, <1>11
  DEF Next, Proceed, Request

\* As long as Docker removes what it is told to and no crash comes in the middle of
\* an operation, no container is left over, however operations fail otherwise and
\* however often the process ends and starts.
THEOREM NoLeftoversAlways == Spec => []NoLeftovers
<1> DEFINE Inv == TypeOK /\ ControlInv /\ BackedInv /\ DiskInv /\ CleanInv
<1>1. Init => Inv
  <2>1. Init => DiskInv
    BY DEF Init, DiskInv
  <2>2. Init => CleanInv
    BY DEF Init, CleanInv, Working, NoOp, Recorded
  <2> QED
    BY <2>1, <2>2, TypeInit, ControlInit, BackedInit
<1>2. Inv /\ [Next]_vars => Inv'
  BY TypeStep, ControlStep, BackedStep, DiskStep, CleanStep
<1>3. Inv => NoLeftovers
  BY DEF CleanInv, Clean, NoLeftovers, Idle, Working, NoOp, ControlInv, Loading
<1> QED
  BY <1>1, <1>2, <1>3, PTL DEF Spec

----------------------------------------------------------------------------
(* Subnets, if there are enough of them.                                   *)

Enough == IsFiniteSet(Ids) /\ Cardinality(Ids) <= Subnets

\* While i is not in the map, some subnet is free.
LEMMA SomeSubnetFree ==
    ASSUME TypeOK, Enough, NEW i \in Ids, ~Present(i)
    PROVE  (1..Subnets) \ {instances[j].subnet : j \in {k \in Ids : Present(k)}} # {}
<1> DEFINE present == {k \in Ids : Present(k)}
           used == {instances[j].subnet : j \in present}
<1>1. /\ IsFiniteSet(Ids \ {i})
      /\ Cardinality(Ids \ {i}) = Cardinality(Ids) - 1
      /\ Cardinality(Ids) \in Nat
  BY FS_RemoveElement, FS_CardinalityType DEF Enough
<1>2. present \subseteq Ids \ {i}
  OBVIOUS
<1>3. IsFiniteSet(present) /\ Cardinality(present) <= Cardinality(Ids) - 1
  BY <1>1, <1>2, FS_Subset
<1>4. IsFiniteSet(used) /\ Cardinality(used) <= Cardinality(present)
  <2> DEFINE f == [j \in present |-> instances[j].subnet]
  <2>1. f \in Surjection(present, used)
    BY DEF Surjection
  <2> QED
    BY <1>3, <2>1, FS_Surjection
<1>5. IsFiniteSet(1..Subnets) /\ Cardinality(1..Subnets) = Subnets
  BY FS_Interval, SomeSubnet
<1>6. CASE (1..Subnets) \subseteq used
  <2> HIDE DEF used
  <2>1. Cardinality(1..Subnets) <= Cardinality(used)
    BY <1>4, <1>6, FS_Subset
  <2>2. Cardinality(used) \in Nat /\ Cardinality(present) \in Nat
    BY <1>3, <1>4, FS_CardinalityType
  <2> QED
    BY <1>1, <1>3, <1>4, <1>5, <2>1, <2>2, SomeSubnet DEF Enough
<1> QED
  BY <1>6

SavedDistinct ==
    \A i, j \in Ids : Saved(i) /\ Saved(j) /\ i # j => disk[i].subnet # disk[j].subnet

\* The record that an operation works on has the subnet that it had; a created
\* one has a subnet that no other has.
WorkSubnet ==
    Working =>
        /\ op.kind = "create" =>
             \A i \in Ids : Present(i) => instances[i].subnet # op.inst.subnet
        /\ op.kind \in {"start", "stop", "delete"} =>
             op.inst.subnet = instances[op.id].subnet
        /\ op.kind = "load" => op.inst.subnet = disk[op.id].subnet

SubnetInv ==
    /\ SubnetsDistinct
    /\ SavedDistinct
    /\ WorkSubnet
    /\ proc = "loading" =>
         \A i \in Ids : Present(i) => Saved(i) /\ instances[i].subnet = disk[i].subnet

LEMMA SubnetStep == Enough /\ TypeOK /\ ControlInv /\ SubnetInv /\ [Next]_vars => SubnetInv'
<1> SUFFICES ASSUME Enough, TypeOK, ControlInv, SubnetInv, [Next]_vars
             PROVE  SubnetInv'
  OBVIOUS
<1> USE DEF SubnetInv, SubnetsDistinct, SavedDistinct, WorkSubnet
<1>1. ASSUME NEW i \in Ids, CreateInstance(i)
      PROVE  SubnetInv'
  <2>1. \A j \in Ids : Present(j) => instances[j].subnet # AllocateSubnet
    BY <1>1, SomeSubnetFree, AllocateSubnetResult DEF CreateInstance
  <2> QED
    BY <1>1, <2>1 DEF CreateInstance, Begin, Idle, Working, Present, Saved
<1>2. ASSUME NEW i \in Ids, StartInstance(i) \/ StopInstance(i) \/ DeleteInstance(i)
      PROVE  SubnetInv'
  BY <1>2 DEF StartInstance, StopInstance, DeleteInstance, Begin, Idle, Working, Present,
              Saved
<1>3. ASSUME NEW i \in Ids, NEW locked \in BOOLEAN, SetLocked(i, locked)
      PROVE  SubnetInv'
  <2>1. ASSUME NEW j \in Ids
        PROVE  /\ Present(j)' <=> Present(j)
               /\ Present(j) => instances'[j].subnet = instances[j].subnet
    <3>1. instances'[j] = IF j = i THEN [instances[i] EXCEPT !.locked = locked]
                          ELSE instances[j]
      BY <1>3 DEF SetLocked, TypeOK
    <3>2. \A r \in Record : LET s == [r EXCEPT !.locked = locked]
                           IN  s \in Record /\ s.subnet = r.subnet
      BY DEF Record
    <3>3. Present(i) /\ (Present(j) => instances[j] \in Record)
      BY <1>3, RecordType DEF SetLocked
    <3> QED
      BY <3>1, <3>2, <3>3, NullsDistinct DEF Present
  <2> QED
    BY <1>3, <2>1 DEF SetLocked, StartSave, Idle, Working, Saved
<1>4. ASSUME Teardown \/ Build \/ Launch
      PROVE  SubnetInv'
  <2>1. op \in Work
    BY <1>4, WorkingType DEF Teardown, Build, Launch, At
  <2>2. /\ op'.kind = op.kind
        /\ op'.id = op.id
        /\ op'.inst.subnet = op.inst.subnet
    <3>1. op.inst \in Record
      BY <2>1 DEF Work
    <3>2. CASE Teardown
      <4>1. /\ op'.kind = op.kind /\ op'.id = op.id
            /\ op'.inst = [op.inst EXCEPT !.cid = NoCid]
        BY <2>1, <3>2 DEF Teardown, Work
      <4> QED
        BY <3>1, <4>1 DEF Record
    <3>3. CASE Build
      BY <2>1, <3>3 DEF Build, Continue, Work
    <3>4. CASE Launch
      <4>1. /\ op'.kind = op.kind /\ op'.id = op.id
            /\ \/ op'.inst = [op.inst EXCEPT !.cid = name[op.id]]
               \/ op'.inst = op.inst
        BY <2>1, <3>4 DEF Launch, Continue, Work
      <4> QED
        BY <3>1, <4>1 DEF Record
    <3> QED
      BY <1>4, <3>2, <3>3, <3>4
  <2>3. UNCHANGED <<proc, instances, disk>>
    BY <1>4 DEF Teardown, Build, Launch
  <2> QED
    <3>1. Working /\ Working'
      BY <1>4, <2>2 DEF Teardown, Build, Launch, At, Working
    <3>2. WorkSubnet'
      BY <2>2, <2>3, <3>1 DEF Present
    <3>3. SubnetsDistinct' /\ SavedDistinct'
      BY <2>3 DEF Present, Saved
    <3> QED
      BY <2>3, <3>2, <3>3 DEF Present, Saved
<1>5. ASSUME Commit
      PROVE  SubnetInv'
  <2>1. op \in Work /\ Started \in Record /\ Stopped \in Record
    BY <1>5, WorkingType, WorkTypes DEF Commit, At
  <2>2. Started.subnet = op.inst.subnet /\ Stopped.subnet = op.inst.subnet
    BY <2>1 DEF Started, Stopped, Work, Record
  <2>3. instances'[op.id] \in {Started, Stopped, Absent}
    BY <1>5, <2>1 DEF Commit, Work, TypeOK
  <2>4. \A i \in Ids : i # op.id => instances'[i] = instances[i]
    BY <1>5, <2>1 DEF Commit, Work, TypeOK
  <2>5. op.kind \in {"create", "start", "stop", "delete"}
    BY <1>5, <2>1 DEF Commit, Work
  <2>6. \A i \in Ids : i # op.id /\ Present(i) => instances[i].subnet # op.inst.subnet
    BY <2>1, <2>5 DEF Work, Working, ControlInv, KindsAndSteps
  <2>7. SubnetsDistinct'
    <3> SUFFICES ASSUME NEW i \in Ids, NEW j \in Ids, Present(i)', Present(j)', i # j
                 PROVE  instances'[i].subnet # instances'[j].subnet
      OBVIOUS
    <3>1. CASE i = op.id
      BY <2>2, <2>3, <2>4, <2>6, <3>1 DEF Present
    <3>2. CASE j = op.id
      BY <2>2, <2>3, <2>4, <2>6, <3>2 DEF Present
    <3>3. CASE i # op.id /\ j # op.id
      BY <2>4, <3>3 DEF Present
    <3> QED
      BY <3>1, <3>2, <3>3
  <2>8. proc # "loading" /\ UNCHANGED <<proc, disk>>
    BY <1>5, <2>5 DEF Commit, ControlInv, Phases
  <2>9. ~Working'
    BY <1>5 DEF Commit, SaveChange, StartSave, Working
  <2> QED
    BY <2>7, <2>8, <2>9 DEF Saved
<1>6. ASSUME GiveUp \/ LoadSaves
      PROVE  SubnetInv'
  BY <1>6 DEF GiveUp, LoadSaves, StartSave, Working, NoOp, Present, Saved
<1>7. ASSUME FinishSave
      PROVE  SubnetInv'
  BY <1>7 DEF FinishSave, Working, NoOp, Present, Saved
<1>8. ASSUME Boot
      PROVE  SubnetInv'
  BY <1>8 DEF Boot, vars, Working, NoOp, Nothing, Present, Saved, ControlInv, Phases
<1>9. ASSUME NEW i \in Ids, LoadNext(i)
      PROVE  SubnetInv'
  BY <1>9 DEF LoadNext, Working, Present, Saved
<1>10. ASSUME LoadDone
       PROVE  SubnetInv'
  <2>1. op \in Work /\ Started \in Record /\ Stopped \in Record
    BY <1>10, WorkingType, WorkTypes DEF LoadDone, At
  <2>2. Loaded \in Record /\ Loaded.subnet = op.inst.subnet
    BY <2>1 DEF Loaded, Started, Stopped, Work, Record
  <2>3. \A i \in Ids : instances'[i] = IF i = op.id THEN Loaded ELSE instances[i]
    BY <1>10, <2>1 DEF LoadDone, Work, TypeOK
  <2>4. Saved(op.id) /\ op.inst.subnet = disk[op.id].subnet /\ proc = "loading"
    <3>1. op.kind = "load" /\ Working /\ op.id \in Ids
      BY <1>10, <2>1 DEF LoadDone, At, Work
    <3> QED
      BY <3>1 DEF ControlInv, Loading, Phases, TypeOK, NoOp
  <2>5. \A i \in Ids : Present(i)' => Saved(i) /\ instances'[i].subnet = disk[i].subnet
    BY <2>2, <2>3, <2>4 DEF Present
  <2>6. ~Working' /\ UNCHANGED <<proc, disk>>
    BY <1>10 DEF LoadDone, Working, NoOp
  <2> QED
    BY <2>5, <2>6 DEF Saved
<1>11. ASSUME Shutdown \/ Crash
       PROVE  SubnetInv'
  BY <1>11 DEF Shutdown, Crash, ProcessEnds, Nothing, NoOp, Working, Present, Saved
<1>12. ASSUME UNCHANGED vars \/ \E i \in Ids : ContainerDies(i)
       PROVE  SubnetInv'
  BY <1>12 DEF ContainerDies, vars, Working, Present, Saved
<1> QED
  BY <1>1, <1>2, <1>3, <1>4, <1>5, <1>6, <1>7, <1>8, <1>9, <1>10, <1>11, <1>12
  DEF Next, Proceed, Request

\* With no more instances than subnets, no two instances ever share one,
\* in whatever order they are created, deleted and restarted.
THEOREM SubnetsDistinctAlways == Enough => (Spec => []SubnetsDistinct)
<1> SUFFICES ASSUME Enough
             PROVE  Spec => []SubnetsDistinct
  OBVIOUS
<1> DEFINE Inv == TypeOK /\ ControlInv /\ SubnetInv
<1>1. Init => Inv
  <2>1. Init => SubnetInv
    BY DEF Init, SubnetInv, SubnetsDistinct, SavedDistinct, WorkSubnet, Nothing, NoOp,
           Working, Present, Saved
  <2> QED
    BY <2>1, TypeInit, ControlInit
<1>2. Inv /\ [Next]_vars => Inv'
  BY TypeStep, ControlStep, SubnetStep
<1>3. Inv => SubnetsDistinct
  BY DEF SubnetInv
<1> QED
  BY <1>1, <1>2, <1>3, PTL DEF Spec
=============================================================================
