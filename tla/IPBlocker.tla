----------------------------- MODULE IPBlocker -----------------------------
(***************************************************************************)
(* The IP blocker (backend/internal/api/ipblock.go) with the requests that *)
(* use it.  Every request first runs blockMiddleware (handler.go:273-282): *)
(* it reads blocked_ips.json without a lock, replaces the blocked set in   *)
(* memory by what it read, and then looks its own address up.  The request *)
(* that is let through may be a login, or an administrator's block or      *)
(* unblock, which change the set and write the file.                       *)
(*                                                                         *)
(* os.WriteFile truncates the file and then writes it: in between, and     *)
(* after a crash in between, the file is torn and does not parse.          *)
(*                                                                         *)
(* A definition named ...Mutant is a plausible mistake in the definition   *)
(* after it; no specification uses it.                                     *)
(***************************************************************************)
EXTENDS Naturals, FiniteSets

CONSTANTS
    Threads,      \* requests being served at the same time
    IPs,          \* client addresses
    Threshold,    \* wrong passwords until an address is blocked (10)
    MayDelete,    \* does the operator delete the file?
    MayCrash      \* does the backend crash and restart?

ASSUME ThresholdIsPositive == Threshold \in Nat \ {0}
ASSUME SwitchesAreBoolean == MayDelete \in BOOLEAN /\ MayCrash \in BOOLEAN

VARIABLES
    blocked,      \* ipBlocker.blocked
    failures,     \* ipBlocker.failures (0: no entry)
    file,         \* blocked_ips.json: "missing", "torn" or "list"
    saved,        \* the addresses in the file, when it is a list
    pc,           \* next step of each request
    client,       \* extractClientIP of each request
    snap,         \* what a request has read from the file
    calm          \* history: never more than one request at a time, deletion or crash

blockerVars == <<blocked, failures, file, saved>>
threadVars == <<pc, client, snap>>
codeVars == <<blockerVars, threadVars>>
vars == <<codeVars, calm>>

TypeOK ==
    /\ blocked \in SUBSET IPs
    /\ failures \in [IPs -> 0..(Threshold - 1)]
    /\ file \in {"missing", "torn", "list"}
    /\ saved \in SUBSET IPs
    /\ pc \in [Threads -> {"idle", "apply", "dump", "dumping", "check", "serve", "saving"}]
    /\ client \in [Threads -> IPs]
    /\ snap \in [Threads -> SUBSET IPs]
    /\ calm \in BOOLEAN

\* A fresh data directory.
Init ==
    /\ blocked = {}
    /\ failures = [ip \in IPs |-> 0]
    /\ file = "missing"
    /\ saved = {}
    /\ pc = [t \in Threads |-> "idle"]
    /\ client \in [Threads -> IPs]
    /\ snap = [t \in Threads |-> {}]
    /\ calm = TRUE

----------------------------------------------------------------------------

Goto(t, label) == pc' = [pc EXCEPT ![t] = label]

\* mu is free: a save holds it from the truncation to the end of the write.
Unlocked == \A t \in Threads : pc[t] \notin {"dumping", "saving"}

\* The first half of save(), by the request that then continues at label.
Truncate(t, label) ==
    /\ file' = "torn"
    /\ saved' = {}
    /\ Goto(t, label)

\* The second half.  If the file was deleted meanwhile, the bytes go nowhere.
Write ==
    /\ file' = IF file = "torn" THEN "list" ELSE file
    /\ saved' = IF file = "torn" THEN blocked ELSE saved

----------------------------------------------------------------------------
(* isBlocked: synchronise with the file, then look the address up.         *)

\* os.ReadFile and json.Unmarshal, without the lock.  A missing file empties
\* the list, as an empty list would; one that does not parse is rewritten.
SnapshotMutant == IF file = "missing" THEN blocked ELSE saved
Snapshot == IF file = "missing" THEN {} ELSE saved

Arrive(t, ip) ==
    /\ pc[t] = "idle"
    /\ client' = [client EXCEPT ![t] = ip]
    /\ \/ /\ file \in {"missing", "list"}
          /\ snap' = [snap EXCEPT ![t] = Snapshot]
          /\ Goto(t, "apply")
       \/ /\ file = "torn"
          /\ UNCHANGED snap
          /\ Goto(t, "dump")
    /\ UNCHANGED blockerVars

Apply(t) ==
    /\ pc[t] = "apply"
    /\ Unlocked
    /\ blocked' = snap[t]
    /\ snap' = [snap EXCEPT ![t] = {}]
    /\ Goto(t, "check")
    /\ UNCHANGED <<failures, file, saved, client>>

Dump(t) ==
    /\ pc[t] = "dump"
    /\ Unlocked
    /\ Truncate(t, "dumping")
    /\ UNCHANGED <<blocked, failures, client, snap>>

DumpWritten(t) ==
    /\ pc[t] = "dumping"
    /\ Write
    /\ Goto(t, "check")
    /\ UNCHANGED <<blocked, failures, client, snap>>

\* 403, or on to the handler.
RefusedMutant(t) == FALSE
Refused(t) == client[t] \in blocked

Check(t) ==
    /\ pc[t] = "check"
    /\ Unlocked
    /\ Goto(t, IF Refused(t) THEN "idle" ELSE "serve")
    /\ UNCHANGED <<blockerVars, client, snap>>

----------------------------------------------------------------------------
(* The handlers.                                                           *)

\* A request that does not touch the blocker.
ServeOther(t) ==
    /\ pc[t] = "serve"
    /\ Goto(t, "idle")
    /\ UNCHANGED <<blockerVars, client, snap>>

\* resetFailures.
LoginSucceeds(t) ==
    /\ pc[t] = "serve"
    /\ Unlocked
    /\ failures' = [failures EXCEPT ![client[t]] = 0]
    /\ Goto(t, "idle")
    /\ UNCHANGED <<blocked, file, saved, client, snap>>

\* block, which is also what the last wrong password does.
BlockAndSave(t, ip) ==
    /\ blocked' = blocked \cup {ip}
    /\ failures' = [failures EXCEPT ![ip] = 0]
    /\ Truncate(t, "saving")
    /\ UNCHANGED <<client, snap>>

\* recordFailure.
LastStrikeMutant(ip) == failures[ip] + 1 > Threshold
LastStrike(ip) == failures[ip] + 1 >= Threshold

LoginFails(t) ==
    /\ pc[t] = "serve"
    /\ Unlocked
    /\ \/ /\ LastStrike(client[t])
          /\ BlockAndSave(t, client[t])
       \/ /\ ~LastStrike(client[t])
          /\ failures' = [failures EXCEPT ![client[t]] = @ + 1]
          /\ Goto(t, "idle")
          /\ UNCHANGED <<blocked, file, saved, client, snap>>

Block(t, ip) ==
    /\ pc[t] = "serve"
    /\ Unlocked
    /\ BlockAndSave(t, ip)

Unblock(t, ip) ==
    /\ pc[t] = "serve"
    /\ Unlocked
    /\ blocked' = blocked \ {ip}
    /\ Truncate(t, "saving")
    /\ UNCHANGED <<failures, client, snap>>

SaveWritten(t) ==
    /\ pc[t] = "saving"
    /\ Write
    /\ Goto(t, "idle")
    /\ UNCHANGED <<blocked, failures, client, snap>>

----------------------------------------------------------------------------

\* The documented way to reset the list.
DeleteFile ==
    /\ MayDelete
    /\ file' = "missing"
    /\ saved' = {}
    /\ UNCHANGED <<blocked, failures, threadVars>>

\* The process ends at any point and load() reads what is on disk; a file that
\* is missing or does not parse counts as an empty list.
CrashAndRestart ==
    /\ MayCrash
    /\ blocked' = IF file = "list" THEN saved ELSE {}
    /\ failures' = [ip \in IPs |-> 0]
    /\ pc' = [t \in Threads |-> "idle"]
    /\ snap' = [t \in Threads |-> {}]
    /\ UNCHANGED <<file, saved, client>>

----------------------------------------------------------------------------

Arrives(t) == \E ip \in IPs : Arrive(t, ip)

Synchronise(t) == Apply(t) \/ Dump(t) \/ DumpWritten(t) \/ Check(t)

Changes(t) ==
    \/ LoginFails(t)
    \/ \E ip \in IPs : Block(t, ip) \/ Unblock(t, ip)

OneAtATime == \A t, u \in Threads : pc[t] # "idle" /\ pc[u] # "idle" => t = u

Next ==
    \/ /\ \E t \in Threads :
           \/ Arrives(t) \/ Synchronise(t)
           \/ ServeOther(t) \/ LoginSucceeds(t) \/ Changes(t) \/ SaveWritten(t)
       /\ calm' = (calm /\ OneAtATime')
    \/ /\ DeleteFile \/ CrashAndRestart
       /\ calm' = FALSE

Spec == Init /\ [][Next]_vars

\* Goroutines run, sync.RWMutex starves nobody, and requests keep coming (the
\* dashboard polls every few seconds).
Fairness ==
    \A t \in Threads :
        /\ WF_codeVars(Arrives(t))
        /\ SF_codeVars(Synchronise(t))
        /\ WF_codeVars(SaveWritten(t))
        /\ SF_codeVars(ServeOther(t) \/ LoginSucceeds(t) \/ Changes(t))

FairSpec == Spec /\ Fairness

----------------------------------------------------------------------------
(* Properties.                                                             *)

\* The list that a request arriving now would go by.
Listed ==
    CASE file = "list" -> saved
      [] file = "missing" -> {}
      [] file = "torn" -> blocked

Promised == INSTANCE BlockList WITH list <- Listed, strikes <- failures

\* As long as requests come one at a time they meet the promise of BlockList
\* (README.md:95 and 100-102): the set in memory, the file and the failure counters
\* together act as one list that only block, unblock and the last wrong password
\* change, and no address on it gets to try another password.
ActsAsList == Promised!Init /\ [][calm' => Promised!Next]_<<Listed, failures>>

\* README.md:102: an address leaves the list by being unblocked or because the
\* operator deletes the file.  Not so when requests overlap, because the lock is
\* not held from the read of the file (ipblock.go:48) to the replacement of the
\* set (76-78): a block that was saved in between is overwritten.
BlocksAreKept ==
    [][\A ip \in IPs :
        ip \in Listed /\ ip \notin Listed' =>
            DeleteFile \/ \E t \in Threads : Unblock(t, ip)]_vars

\* The set in memory is a cache of the file: when blocks, unblocks, wrong
\* passwords, deletions and crashes cease, the requests that go on arriving bring
\* memory and file to agree for good (syncFromFile, ipblock.go:45-79), whatever
\* snapshots and rewrites were still under way.
Disturbs ==
    \/ \E t \in Threads : Changes(t)
    \/ DeleteFile
    \/ CrashAndRestart

CacheSettles == <>[][~Disturbs]_vars => <>[](blocked = Listed)
=============================================================================
