------------------------- MODULE PersistenceProofs -------------------------
(***************************************************************************)
(* Theorems about the two parts of the backend that keep their state in    *)
(* files over crashes and restarts: IPBlocker, for any addresses and any   *)
(* threshold, and Startup, for any number of crashes and changes.          *)
(***************************************************************************)
EXTENDS IPBlocker, Startup, TLAPS

----------------------------------------------------------------------------
(* The IP blocker.                                                         *)

LEMMA TypeInit == Init => TypeOK
  BY ThresholdIsPositive DEF Init, TypeOK

LEMMA TypeStep == TypeOK /\ [Next]_vars => TypeOK'
<1> SUFFICES ASSUME TypeOK, [Next]_vars PROVE TypeOK'
  OBVIOUS
<1>0. calm' \in BOOLEAN
  BY DEF Next, OneAtATime, TypeOK, vars
<1> USE <1>0, ThresholdIsPositive DEF TypeOK
<1>1. ASSUME NEW t \in Threads, Arrives(t) PROVE TypeOK'
  BY <1>1 DEF Arrives, Arrive, Snapshot, Goto, blockerVars
<1>2. ASSUME NEW t \in Threads, Synchronise(t) PROVE TypeOK'
  <2>1. CASE Apply(t)
    BY <2>1 DEF Apply, Goto
  <2>2. CASE Dump(t)
    BY <2>2 DEF Dump, Truncate, Goto
  <2>3. CASE DumpWritten(t)
    BY <2>3 DEF DumpWritten, Write, Goto
  <2>4. CASE Check(t)
    BY <2>4 DEF Check, Goto, blockerVars
  <2> QED
    BY <1>2, <2>1, <2>2, <2>3, <2>4 DEF Synchronise
<1>3. ASSUME NEW t \in Threads, ServeOther(t) PROVE TypeOK'
  BY <1>3 DEF ServeOther, Goto, blockerVars
<1>4. ASSUME NEW t \in Threads, LoginSucceeds(t) PROVE TypeOK'
  BY <1>4 DEF LoginSucceeds, Goto
<1>5. ASSUME NEW t \in Threads, NEW ip \in IPs, BlockAndSave(t, ip) PROVE TypeOK'
  BY <1>5 DEF BlockAndSave, Truncate, Goto
<1>6. ASSUME NEW t \in Threads, LoginFails(t) PROVE TypeOK'
  <2>1. CASE BlockAndSave(t, client[t])
    BY <1>5, <2>1
  <2>2. CASE ~BlockAndSave(t, client[t])
    BY <1>6, <2>2 DEF LoginFails, LastStrike, Goto
  <2> QED
    BY <2>1, <2>2
<1>7. ASSUME NEW t \in Threads, NEW ip \in IPs, Unblock(t, ip) PROVE TypeOK'
  BY <1>7 DEF Unblock, Truncate, Goto
<1>8. ASSUME NEW t \in Threads, SaveWritten(t) PROVE TypeOK'
  BY <1>8 DEF SaveWritten, Write, Goto
<1>9. CASE DeleteFile
  BY <1>9 DEF DeleteFile, threadVars
<1>10. CASE CrashAndRestart
  BY <1>10 DEF CrashAndRestart
<1>11. CASE UNCHANGED vars
  BY <1>11 DEF vars, codeVars, blockerVars, threadVars
<1> QED
  BY <1>1, <1>2, <1>3, <1>4, <1>5, <1>6, <1>7, <1>8, <1>9, <1>10, <1>11
     DEF Next, Changes, Block

(* Type correctness; in particular a failure counter never reaches the     *)
(* threshold, also when requests overlap.                                  *)
THEOREM TypeCorrect == Spec => []TypeOK
  BY TypeInit, TypeStep, PTL DEF Spec

----------------------------------------------------------------------------
(* While calm: the set in memory is the list, a request's snapshot is the  *)
(* list, and a torn file is the sign of a save by the one request there is.*)

CalmParts ==
    /\ blocked = Listed
    /\ file = "missing" => saved = {}
    /\ OneAtATime
    /\ file = "torn" => \E t \in Threads : pc[t] = "saving"
    /\ \A t \in Threads :
        /\ pc[t] \notin {"dump", "dumping"}
        /\ pc[t] = "saving" => file = "torn"
        /\ pc[t] = "apply" => snap[t] = blocked
        /\ pc[t] = "serve" => client[t] \notin blocked

CalmInv == TypeOK /\ (calm => CalmParts)

LEMMA CalmInit == Init => CalmInv /\ Promised!Init
  BY TypeInit DEF Init, CalmInv, CalmParts, OneAtATime, Listed, Promised!Init

\* While calm, a step of a request keeps the invariant and is a step of the list, or none.
LEMMA CalmStep ==
    ASSUME TypeOK, TypeOK', CalmParts, OneAtATime', NEW t \in Threads,
           \/ Arrives(t) \/ Synchronise(t)
           \/ ServeOther(t) \/ LoginSucceeds(t) \/ Changes(t) \/ SaveWritten(t)
    PROVE  CalmParts' /\ [Promised!Next]_<<Listed, failures>>
<1> DEFINE Goal == CalmParts' /\ [Promised!Next]_<<Listed, failures>>
<1> USE DEF CalmParts, Listed
<1>1. ASSUME pc[t] # "idle", NEW u \in Threads, u # t PROVE pc[u] = "idle"
  BY <1>1 DEF OneAtATime
<1>2. ASSUME pc'[t] # "idle", NEW u \in Threads, u # t PROVE pc'[u] = "idle"
  BY <1>2 DEF OneAtATime
<1>3. CASE Arrives(t)
  <2>1. file # "torn"
    BY <1>2, <1>3 DEF Arrives, Arrive, Goto, TypeOK
  <2> QED
    BY <1>2, <1>3, <2>1 DEF Arrives, Arrive, Snapshot, Goto, blockerVars, TypeOK
<1>4. CASE Apply(t)
  BY <1>1, <1>4 DEF Apply, Goto, TypeOK
<1>5. CASE Dump(t) \/ DumpWritten(t)
  BY <1>5 DEF Dump, DumpWritten
<1>6. CASE Check(t)
  BY <1>1, <1>6 DEF Check, Refused, Goto, blockerVars, TypeOK
<1>7. CASE ServeOther(t)
  BY <1>1, <1>7 DEF ServeOther, Goto, blockerVars, TypeOK
<1>8. CASE LoginSucceeds(t)
  <2>1. client[t] \in IPs /\ Promised!RightPassword(client[t])
    BY <1>8 DEF LoginSucceeds, TypeOK, Promised!RightPassword
  <2> QED
    BY <1>1, <1>8, <2>1 DEF LoginSucceeds, Goto, TypeOK, Promised!Next
<1>9. ASSUME NEW ip \in IPs, pc[t] = "serve", BlockAndSave(t, ip)
      PROVE  CalmParts' /\ Promised!Block(ip)
  BY <1>1, <1>9 DEF BlockAndSave, Truncate, Goto, TypeOK, Promised!Block
<1>10. CASE LoginFails(t)
  <2>1. client[t] \in IPs /\ client[t] \notin Listed /\ pc[t] = "serve"
    BY <1>1, <1>10 DEF LoginFails, TypeOK
  <2>2. CalmParts' /\ Promised!WrongPassword(client[t])
    <3>1. CASE LastStrike(client[t])
      BY <1>9, <1>10, <2>1, <3>1 DEF LoginFails, LastStrike, Promised!WrongPassword
    <3>2. CASE ~LastStrike(client[t])
      <4>1. /\ failures[client[t]] \in Nat /\ Threshold \in Nat
            /\ ~(failures[client[t]] + 1 >= Threshold)
        BY <2>1, <3>2, ThresholdIsPositive DEF LastStrike, TypeOK
      <4>2. failures[client[t]] + 1 < Threshold
        BY <4>1
      <4>3. /\ failures' = [failures EXCEPT ![client[t]] = @ + 1]
            /\ Goto(t, "idle")
            /\ UNCHANGED <<blocked, file, saved, client, snap>>
        BY <1>10, <3>2 DEF LoginFails
      <4>4. Promised!WrongPassword(client[t])
        BY <2>1, <4>2, <4>3 DEF Promised!WrongPassword
      <4>5. CalmParts'
        BY <1>1, <2>1, <4>3 DEF Goto, TypeOK
      <4> QED
        BY <4>4, <4>5
    <3> QED
      BY <3>1, <3>2
  <2> QED
    BY <2>1, <2>2 DEF Promised!Next
<1>11. ASSUME NEW ip \in IPs, Block(t, ip) PROVE Goal
  BY <1>9, <1>11 DEF Block, Promised!Next
<1>12. ASSUME NEW ip \in IPs, Unblock(t, ip) PROVE Goal
  <2>1. Promised!Unblock(ip)
    BY <1>1, <1>12 DEF Unblock, Truncate, TypeOK, Promised!Unblock
  <2> QED
    BY <1>1, <1>12, <2>1 DEF Unblock, Truncate, Goto, TypeOK, Promised!Next
<1>13. CASE SaveWritten(t)
  BY <1>1, <1>13 DEF SaveWritten, Write, Goto, TypeOK
<1> QED
  BY <1>3, <1>4, <1>5, <1>6, <1>7, <1>8, <1>10, <1>11, <1>12, <1>13
     DEF Synchronise, Changes

LEMMA CalmNext ==
    ASSUME CalmInv, [Next]_vars
    PROVE  CalmInv' /\ [calm' => Promised!Next]_<<Listed, failures>>
<1> USE DEF CalmInv
<1>1. TypeOK'
  BY TypeStep
<1>2. CASE UNCHANGED vars
  BY <1>1, <1>2 DEF vars, codeVars, blockerVars, threadVars, CalmParts, OneAtATime, Listed
<1>3. CASE Next /\ calm'
  <2>1. PICK t \in Threads :
          \/ Arrives(t) \/ Synchronise(t)
          \/ ServeOther(t) \/ LoginSucceeds(t) \/ Changes(t) \/ SaveWritten(t)
    BY <1>3 DEF Next
  <2>2. calm /\ OneAtATime'
    BY <1>3 DEF Next
  <2> QED
    BY CalmStep, <1>1, <2>1, <2>2
<1>4. CASE ~calm'
  BY <1>1, <1>4
<1> QED
  BY <1>2, <1>3, <1>4

(* As long as requests come one at a time the blocker implements the       *)
(* atomic list of BlockList, whatever the addresses and the threshold.     *)
THEOREM CalmActsAsList == Spec => ActsAsList
  BY CalmInit, CalmNext, PTL DEF Spec, ActsAsList

LEMMA CalmUnblocks ==
    ASSUME TypeOK, CalmParts, NEW t \in Threads, NEW ip \in IPs, ip \in Listed, ip \notin Listed',
           \/ Arrives(t) \/ Synchronise(t)
           \/ ServeOther(t) \/ LoginSucceeds(t) \/ Changes(t) \/ SaveWritten(t)
    PROVE  Unblock(t, ip)
<1> USE DEF CalmParts, Listed
<1>1. CASE Arrives(t)
  BY <1>1 DEF Arrives, Arrive, blockerVars
<1>2. CASE Synchronise(t)
  <2>1. ~Dump(t) /\ ~DumpWritten(t)
    BY DEF Dump, DumpWritten
  <2> QED
    BY <1>2, <2>1 DEF Synchronise, Apply, Check, blockerVars
<1>3. CASE ServeOther(t) \/ LoginSucceeds(t)
  BY <1>3 DEF ServeOther, LoginSucceeds, blockerVars
<1>4. CASE SaveWritten(t)
  BY <1>4 DEF SaveWritten, Write
<1>5. ASSUME NEW other \in IPs, BlockAndSave(t, other) PROVE FALSE
  BY <1>5 DEF BlockAndSave, Truncate
<1>6. CASE LoginFails(t)
  BY <1>5, <1>6 DEF LoginFails, TypeOK
<1>7. ASSUME NEW other \in IPs, Unblock(t, other) PROVE other = ip
  BY <1>7 DEF Unblock, Truncate
<1> QED
  BY <1>1, <1>2, <1>3, <1>4, <1>5, <1>6, <1>7 DEF Changes, Block

\* As long as requests come one at a time, an address leaves the list only by being
\* unblocked (README.md:102): what BlocksAreKept says, which overlapping requests refute.
THEOREM CalmKeepsBlocks ==
    Spec => [][calm' => \A ip \in IPs :
                 ip \in Listed /\ ip \notin Listed' => \E t \in Threads : Unblock(t, ip)]_vars
<1>1. CalmInv /\ [Next]_vars =>
        [calm' => \A ip \in IPs :
           ip \in Listed /\ ip \notin Listed' => \E t \in Threads : Unblock(t, ip)]_vars
  BY CalmUnblocks DEF Next, CalmInv
<1> QED
  BY <1>1, CalmInit, CalmNext, PTL DEF Spec

----------------------------------------------------------------------------
(* Overlapping requests.                                                   *)

\* Memory and file agree, and no request is about to replace the set by an older list.
Agreed == blocked = Listed /\ \A t \in Threads : pc[t] = "apply" => snap[t] = Listed

LEMMA AgreementStep ==
    ASSUME TypeOK, Next, Agreed, ~Disturbs
    PROVE  Agreed' /\ UNCHANGED Listed
<1> USE DEF Agreed, Listed
<1>1. PICK t \in Threads : \/ Arrives(t) \/ Synchronise(t)
                           \/ ServeOther(t) \/ LoginSucceeds(t) \/ SaveWritten(t)
  BY DEF Next, Disturbs
<1>2. CASE Arrives(t)
  BY <1>2 DEF Arrives, Arrive, Snapshot, Goto, blockerVars, TypeOK
<1>3. CASE Apply(t)
  BY <1>3 DEF Apply, Goto, TypeOK
<1>4. CASE Dump(t)
  BY <1>4 DEF Dump, Truncate, Goto, TypeOK
<1>5. CASE DumpWritten(t) \/ SaveWritten(t)
  BY <1>5 DEF DumpWritten, SaveWritten, Write, Goto, TypeOK
<1>6. CASE Check(t) \/ ServeOther(t)
  BY <1>6 DEF Check, ServeOther, Goto, blockerVars, TypeOK
<1>7. CASE LoginSucceeds(t)
  BY <1>7 DEF LoginSucceeds, Goto, TypeOK
<1> QED
  BY <1>1, <1>2, <1>3, <1>4, <1>5, <1>6, <1>7 DEF Synchronise

\* Once memory and file agree and no request has read an older list, they agree until
\* somebody is blocked or unblocked, fails to log in, deletes the file, or the process ends,
\* whatever requests overlap: reading, rewriting and saving by themselves change neither
\* the set nor the list (ipblock.go:45-79).  This is what CacheSettles settles into.
THEOREM AgreementStays == Spec => [][Agreed /\ ~Disturbs => Agreed' /\ UNCHANGED Listed]_vars
<1>1. TypeOK /\ [Next]_vars => [Agreed /\ ~Disturbs => Agreed' /\ UNCHANGED Listed]_vars
  BY AgreementStep
<1> QED
  BY <1>1, TypeCorrect, PTL DEF Spec

----------------------------------------------------------------------------
(* The backend's start.                                                    *)

LEMMA StartupTypeInit == StartupInit => StartupTypeOK
<1> SUFFICES ASSUME StartupInit PROVE StartupTypeOK
  OBVIOUS
<1>1. issued = {} /\ made = 0 /\ faults = 0
  BY DEF StartupInit
<1>2. issued \subseteq [by : 1..made, with : 1..made] /\ faults \in 0..MaxFaults
  BY <1>1, FaultBound
<1>3. /\ proc \in {"down", "serving", "closing"} \cup Stages
      /\ config \in {"missing", "empty", "cut", "whole"}
      /\ tls \in {"none", "bad", "good"}
      /\ useTLS \in BOOLEAN
      /\ made \in Nat
  BY DEF StartupInit
<1>4. /\ records \in {"missing", "torn", "whole"}
      /\ caKey \in {Torn, Missing} \cup 1..made
      /\ caCert \in {Torn, Missing} \cup 1..made
      /\ ca \in {Missing} \cup 1..made
  BY DEF StartupInit
<1> QED
  BY <1>2, <1>3, <1>4 DEF StartupTypeOK

LEMMA StartupTypeEnd ==
    ASSUME StartupTypeOK, End
    PROVE  /\ proc' = "down" /\ ca' = Missing /\ UNCHANGED <<config, tls, useTLS, caKey, caCert, made, records, issued>>
           /\ faults' \in 0..MaxFaults => StartupTypeOK'
  BY DEF StartupTypeOK, End, EnterStage

LEMMA StartupTypeStep ==
    ASSUME StartupTypeOK, proc = "serving" => ca \in 1..made, [StartupNext]_startupVars
    PROVE  StartupTypeOK'
<1> USE DEF StartupTypeOK, EnterStage, Stages, caVars
<1>1. CASE Fatal
  BY <1>1, StartupTypeEnd DEF Fatal
<1>2. CASE Start
  BY <1>2 DEF Start
<1>3. CASE CheckConfig
  BY <1>3 DEF CheckConfig
<1>4. CASE WriteDefaults
  BY <1>4 DEF WriteDefaults
<1>5. CASE Load
  BY <1>1, <1>5 DEF Load
<1>6. CASE CheckTLS
  BY <1>6 DEF CheckTLS, Valid
<1>7. CASE GenerateCA
  BY <1>7 DEF GenerateCA, Torn
<1>8. CASE WriteKey
  BY <1>8 DEF WriteKey, Torn, Missing
<1>9. CASE WriteCert
  BY <1>9 DEF WriteCert, Missing
<1>10. CASE LoadCA
  <2>1. CASE {caKey, caCert} \cap {Missing, Torn} # {}
    BY <1>1, <1>10, <2>1 DEF LoadCA
  <2>2. CASE {caKey, caCert} \cap {Missing, Torn} = {}
    <3>1. caKey \in 1..made
      BY <2>2
    <3> QED
      BY <1>10, <2>2, <3>1 DEF LoadCA, Loaded
  <2> QED
    BY <2>1, <2>2
<1>11. CASE LoadInstances \/ SaveLoaded \/ SaveInstances
  BY <1>1, <1>11 DEF LoadInstances, SaveLoaded, SaveInstances
<1>12. CASE Issue
  <2>1. ca \in 1..made /\ caCert \in 1..made
    BY <1>12 DEF Issue
  <2> QED
    BY <1>12, <2>1 DEF Issue
<1>13. CASE Listen
  BY <1>1, <1>13 DEF Listen
<1>14. CASE Stop
  BY <1>1, <1>14 DEF Stop
<1>15. CASE Signal
  BY <1>15, FaultBound DEF Signal, MayFault
<1>16. CASE Crash
  BY <1>16, StartupTypeEnd, FaultBound DEF Crash, MayFault
<1>17. CASE ChangeTLS
  BY <1>17, FaultBound DEF ChangeTLS, MayFault
<1>18. CASE UNCHANGED startupVars
  BY <1>18 DEF startupVars
<1> QED
  BY <1>2, <1>3, <1>4, <1>5, <1>6, <1>7, <1>8, <1>9, <1>10, <1>11, <1>12, <1>13, <1>14,
     <1>15, <1>16, <1>17, <1>18 DEF StartupNext, Proceed

----------------------------------------------------------------------------
(* One authority.  Its key is written before its certificate, is kept from *)
(* then on, and is the one in memory whenever certificates are issued.     *)

AfterCA == {"instances", "save", "listen", "serving", "closing"}

CAInv ==
    /\ StartupTypeOK
    /\ caKey \in {Missing, Torn} => caCert = Missing /\ issued = {}
    /\ caCert \in {Missing, Torn} => issued = {}
    /\ caCert \in 1..made => caCert = caKey
    /\ proc \in AfterCA => ca = caKey /\ caKey \in 1..made /\ caCert = caKey
    /\ proc = "key" => ca \in 1..made /\ caKey = Torn
    /\ proc = "cert" => ca \in 1..made /\ caKey = ca /\ caCert = Torn
    /\ OneCA

LEMMA CAInit == StartupInit => CAInv
  BY StartupTypeInit DEF StartupInit, CAInv, OneCA, AfterCA, Missing, Torn

LEMMA CAStep == CAInv /\ [StartupNext]_startupVars => CAInv'
<1> SUFFICES ASSUME CAInv, [StartupNext]_startupVars PROVE CAInv'
  OBVIOUS
<1>0. StartupTypeOK'
  BY StartupTypeStep DEF CAInv, AfterCA
<1> USE <1>0 DEF CAInv, OneCA, StartupTypeOK, EnterStage, AfterCA, caVars, Missing, Torn
<1>1. CASE End
  BY <1>1 DEF End
<1>2. CASE Fatal
  BY <1>1, <1>2 DEF Fatal
<1>3. CASE Start \/ WriteDefaults \/ SaveLoaded \/ SaveInstances \/ Signal \/ ChangeTLS
  BY <1>3 DEF Start, WriteDefaults, SaveLoaded, SaveInstances, Signal, ChangeTLS
<1>4. CASE CheckConfig \/ CheckTLS
  BY <1>4 DEF CheckConfig, CheckTLS
<1>5. CASE Load \/ LoadInstances \/ Listen
  BY <1>2, <1>5 DEF Load, LoadInstances, Listen
<1>6. CASE GenerateCA
  BY <1>6 DEF GenerateCA, HasKey
<1>7. CASE WriteKey
  BY <1>7 DEF WriteKey
<1>8. CASE WriteCert
  BY <1>8 DEF WriteCert
<1>9. CASE LoadCA
  <2>1. CASE {caKey, caCert} \cap {Missing, Torn} # {}
    BY <1>2, <1>9, <2>1 DEF LoadCA
  <2>2. CASE {caKey, caCert} \cap {Missing, Torn} = {}
    <3>1. caKey \in 1..made /\ caCert \in 1..made
      BY <2>2
    <3> QED
      BY <1>9, <2>2, <3>1 DEF LoadCA, Loaded
  <2> QED
    BY <2>1, <2>2
<1>10. CASE Issue
  BY <1>10 DEF Issue
<1>11. CASE Stop \/ Crash
  BY <1>1, <1>2, <1>11 DEF Stop, Crash
<1>12. CASE UNCHANGED startupVars
  BY <1>12 DEF startupVars
<1> QED
  BY <1>3, <1>4, <1>5, <1>6, <1>7, <1>8, <1>9, <1>10, <1>11, <1>12 DEF StartupNext, Proceed

(* Type correctness: in particular nothing is issued without an authority. *)
THEOREM StartupTypeCorrect == StartupSpec => []StartupTypeOK
<1>1. CAInv => StartupTypeOK
  BY DEF CAInv
<1> QED
  BY <1>1, CAInit, CAStep, PTL DEF StartupSpec

(* All that is ever issued, before and after any number of crashes and     *)
(* restarts, is signed by the one authority on disk.                       *)
THEOREM OneCAAlways == StartupSpec => []OneCA
<1>1. CAInv => OneCA
  BY DEF CAInv
<1> QED
  BY <1>1, CAInit, CAStep, PTL DEF StartupSpec
=============================================================================
