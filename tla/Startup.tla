------------------------------ MODULE Startup -------------------------------
(***************************************************************************)
(* The backend process from its start to its end (backend/main.go): the    *)
(* configuration file, the TLS certificate, the certificate authority      *)
(* (backend/internal/vpn/pki.go), and what is issued with it while the     *)
(* backend serves, and the file of the instances, which every operation on *)
(* them writes.  Docker restarts a process that ends.  What is in that     *)
(* file, and starting the containers, has a module of its own (Instances). *)
(*                                                                         *)
(* A file that is being written is torn until it is whole.  The keys that  *)
(* the authority makes are numbered.                                       *)
(*                                                                         *)
(* A definition named ...Mutant is a plausible mistake in the definition   *)
(* after it; no specification uses it.                                     *)
(***************************************************************************)
EXTENDS Integers

CONSTANT MaxFaults     \* bound on crashes, signals and changes of the TLS files

ASSUME FaultBound == MaxFaults \in Nat

VARIABLES
    proc,       \* where the process is
    config,     \* config.yaml; "cut" does not parse, "empty" does
    tls,        \* cert.pem and key.pem, which the operator may provide
    useTLS,
    caKey,      \* ca.key and ca.crt: the number of the key, or
    caCert,     \*   Missing or Torn
    ca,         \* PKI: the authority in memory
    made,       \* number of keys made
    records,    \* instances.json
    issued,     \* history: who signed each certificate, and the authority given with it
    faults

caVars == <<caKey, caCert, ca, made>>
startupVars == <<proc, config, tls, useTLS, caVars, records, issued, faults>>

Missing == 0
Torn == -1

Stages == {"config", "defaults", "load", "tls", "pki", "key", "cert", "instances", "save", "listen"}

StartupTypeOK ==
    /\ proc \in {"down", "serving", "closing"} \cup Stages
    /\ config \in {"missing", "empty", "cut", "whole"}
    /\ tls \in {"none", "bad", "good"}
    /\ useTLS \in BOOLEAN
    /\ made \in Nat
    /\ records \in {"missing", "torn", "whole"}
    /\ caKey \in {Torn, Missing} \cup 1..made
    /\ caCert \in {Torn, Missing} \cup 1..made
    /\ ca \in {Missing} \cup 1..made
    /\ issued \subseteq [by : 1..made, with : 1..made]
    /\ faults \in 0..MaxFaults

\* An empty data directory, in which the operator may have put TLS files.
StartupInit ==
    /\ proc = "down"
    /\ config = "missing"
    /\ tls \in {"none", "bad", "good"}
    /\ useTLS = FALSE
    /\ caKey = Missing /\ caCert = Missing /\ ca = Missing /\ made = 0
    /\ records = "missing"
    /\ issued = {}
    /\ faults = 0

----------------------------------------------------------------------------

EnterStage(label) == proc' = label

\* The process ends.
End ==
    /\ EnterStage("down")
    /\ ca' = Missing
    /\ UNCHANGED <<config, tls, useTLS, caKey, caCert, made, records, issued>>
Fatal == End /\ UNCHANGED faults

Start ==
    /\ proc = "down"
    /\ EnterStage("config")
    /\ UNCHANGED <<config, tls, useTLS, caVars, records, issued, faults>>

\* A missing file is written; that this fails is only a warning.
CheckConfig ==
    /\ proc = "config"
    /\ \/ config # "missing" /\ EnterStage("load") /\ UNCHANGED config
       \/ config = "missing" /\ EnterStage("load") /\ UNCHANGED config
       \/ config = "missing" /\ EnterStage("defaults") /\ config' \in {"empty", "cut"}
    /\ UNCHANGED <<tls, useTLS, caVars, records, issued, faults>>

WriteDefaults ==
    /\ proc = "defaults"
    /\ config' = "whole"
    /\ EnterStage("load")
    /\ UNCHANGED <<tls, useTLS, caVars, records, issued, faults>>

\* config.Load: a file that is missing or empty stands for the defaults.
Load ==
    /\ proc = "load"
    /\ \/ config = "cut" /\ Fatal
       \/ /\ config # "cut"
          /\ EnterStage("tls")
          /\ UNCHANGED <<config, tls, useTLS, caVars, records, issued, faults>>

\* validateCertChain: HTTP if there is no certificate or it is not valid.
ValidMutant == tls # "none"
Valid == tls = "good"

CheckTLS ==
    /\ proc = "tls"
    /\ useTLS' = Valid
    /\ EnterStage("pki")
    /\ UNCHANGED <<config, tls, caVars, records, issued, faults>>

\* NewPKI looks for the key only.
HasKeyMutant == FALSE
HasKey == caKey # Missing

\* generateCA, up to the first of its two files.
GenerateCA ==
    /\ proc = "pki" /\ ~HasKey
    /\ made' = made + 1
    /\ ca' = made + 1
    /\ caKey' = Torn
    /\ EnterStage("key")
    /\ UNCHANGED <<config, tls, useTLS, caCert, records, issued, faults>>

WriteKey ==
    /\ proc = "key"
    /\ caKey' = ca
    /\ caCert' = Torn
    /\ EnterStage("cert")
    /\ UNCHANGED <<config, tls, useTLS, ca, made, records, issued, faults>>

WriteCert ==
    /\ proc = "cert"
    /\ caCert' = ca
    /\ EnterStage("instances")
    /\ UNCHANGED <<config, tls, useTLS, caKey, ca, made, records, issued, faults>>

\* loadCA: both files must be there and parse.
Loaded == caKey

LoadCA ==
    /\ proc = "pki" /\ HasKey
    /\ \/ {caKey, caCert} \cap {Missing, Torn} # {} /\ Fatal
       \/ /\ {caKey, caCert} \cap {Missing, Torn} = {}
          /\ ca' = Loaded
          /\ EnterStage("instances")
          /\ UNCHANGED <<config, tls, useTLS, caKey, caCert, made, records, issued, faults>>

\* loadInstances: nothing to do without the file, and the end of the process if it
\* does not parse.  Otherwise it is written anew at the end, if it can be opened.
LoadInstances ==
    /\ proc = "instances"
    /\ \/ records = "torn" /\ Fatal
       \/ /\ records # "torn"
          /\ EnterStage("listen")
          /\ UNCHANGED <<config, tls, useTLS, caVars, records, issued, faults>>
       \/ /\ records = "whole"
          /\ records' = "torn"
          /\ EnterStage("save")
          /\ UNCHANGED <<config, tls, useTLS, caVars, issued, faults>>

\* Nobody looks at whether the write has succeeded.
SaveLoaded ==
    /\ proc = "save"
    /\ records' \in {"torn", "whole"}
    /\ EnterStage("listen")
    /\ UNCHANGED <<config, tls, useTLS, caVars, issued, faults>>

\* ListenAndServeTLS reads the TLS files again.
Listen ==
    /\ proc = "listen"
    /\ \/ useTLS /\ tls # "good" /\ Fatal
       \/ /\ ~useTLS \/ tls = "good"
          /\ EnterStage("serving")
          /\ UNCHANGED <<config, tls, useTLS, caVars, records, issued, faults>>

\* A certificate for an instance (CreateInstance) or a client (GenerateClientConfig):
\* signed with the key in memory, and delivered with the authority's certificate on disk.
Issue ==
    /\ proc = "serving" /\ caCert \notin {Missing, Torn}
    /\ issued' = issued \cup {[by |-> ca, with |-> caCert]}
    /\ UNCHANGED <<proc, config, tls, useTLS, caVars, records, faults>>

\* saveInstances on behalf of a request, in two steps.  Shutdown leaves requests
\* that wait for Manager.mu behind.
SaveInstances ==
    /\ proc \in {"serving", "closing"}
    /\ records' = IF records = "torn" THEN "whole" ELSE "torn"
    /\ UNCHANGED <<proc, config, tls, useTLS, caVars, issued, faults>>

Stop ==
    /\ proc = "closing"
    /\ Fatal

----------------------------------------------------------------------------
(* From outside.                                                           *)

MayFault == faults < MaxFaults /\ faults' = faults + 1

\* SIGTERM: the server is shut down.  Until signal.Notify it kills, as a crash does.
Signal ==
    /\ MayFault
    /\ proc = "serving"
    /\ EnterStage("closing")
    /\ UNCHANGED <<config, tls, useTLS, caVars, records, issued>>

\* Also a port that is taken.
Crash ==
    /\ MayFault
    /\ proc # "down"
    /\ End

ChangeTLS ==
    /\ MayFault
    /\ tls' \in {"none", "bad", "good"} \ {tls}
    /\ UNCHANGED <<proc, config, useTLS, caVars, records, issued>>

Proceed ==
    \/ Start \/ CheckConfig \/ WriteDefaults \/ Load \/ CheckTLS
    \/ GenerateCA \/ WriteKey \/ WriteCert \/ LoadCA \/ LoadInstances \/ SaveLoaded \/ Listen \/ Stop

StartupNext == Proceed \/ Issue \/ SaveInstances \/ Signal \/ Crash \/ ChangeTLS

StartupSpec == StartupInit /\ [][StartupNext]_startupVars

\* The process runs, and Docker restarts it when it ends (docker-compose.yml:2).
StartupFairSpec == StartupSpec /\ WF_startupVars(Proceed)

----------------------------------------------------------------------------
(* Properties.                                                             *)

\* Whatever was issued, in whichever run of the process, is signed by the authority
\* that is on disk and delivered with its certificate: clients and instances of
\* different runs trust each other (pki.go:31-34).
OneCA == \A c \in issued : c.by = caKey /\ c.with = caKey /\ caCert = caKey

\* A process that is down comes to serve, over HTTP if need be (config.go:111-112),
\* or ends again and leaves a file half-written: a configuration or an instances.json
\* that does not parse, or one of the authority's two files, is never written again
\* (main.go:27, 37-40, 67-70; pki.go:31), and no later start succeeds.
HalfWritten ==
    \/ config = "cut"
    \/ caKey # Missing /\ {caKey, caCert} \cap {Missing, Torn} # {}
    \/ records = "torn"
Recovers == proc = "down" ~> proc = "serving" \/ (proc = "down" /\ HalfWritten)
=============================================================================
