------------------------------- MODULE Client -------------------------------
(***************************************************************************)
(* Runs of the command-line client on one machine: connect, which listens, *)
(* downloads a configuration, starts OpenVPN and waits for it, and proxy,  *)
(* which only listens (client/cmd/otiv-client/main.go).  The runs share    *)
(* the machine's ports, so that an OpenVPN may reach the listener of       *)
(* another run.                                                            *)
(*                                                                         *)
(* Each run goes through main once.  log.Fatalf ends it without the        *)
(* deferred calls, and so does a signal before signal.Notify; kill -9 may  *)
(* end it anywhere.                                                        *)
(*                                                                         *)
(* A definition named ...Mutant is a plausible mistake in the definition   *)
(* after it; no specification uses it.                                     *)
(***************************************************************************)
EXTENDS CommandLine

CONSTANTS
    Runs,            \* invocations of the client
    Nobody,          \* the owner of a free port
    Ports,
    CommandLines,    \* what a user may type: sequences of arguments
    Tried,           \* bound: those of them that runs are started with
    OvpnPort,        \* the port that each .ovpn file of the user's names
    MaxSignals       \* bound on signals and kills, for all runs together

ASSUME NobodyIsNoRun == Nobody \notin Runs
ASSUME TriedAreCommandLines == Tried \subseteq CommandLines
ASSUME DefaultsArePorts == {"11194", "8080"} \subseteq Ports
ASSUME RemotesArePorts == \A file \in DOMAIN OvpnPort : OvpnPort[file] \in Ports
\* Where a port is expected a user types a port, and where a file is expected, a file.
ASSUME CommandLinesAreTyped ==
    \A args \in CommandLines :
        /\ Sensible(args)
        /\ \A k \in DOMAIN args :
             /\ args[k].name = "port" => Value(args, k) \in Ports
             /\ args[k].name = "http-port" => Value(args, k) \in Ports \cup {"0"}
             /\ args[k].name = "config" => Value(args, k) \in DOMAIN OvpnPort
ASSUME FilesAreTyped ==
    \A file \in DOMAIN Files :
        Files[file] \in [url : STRING, port : {Nothing} \cup Ports, config : {Nothing} \cup DOMAIN OvpnPort]
ASSUME SignalBound == MaxSignals \in Nat

VARIABLES
    pc,        \* the main goroutine
    set,       \* its settings
    ready,     \* proxyReady, vpnReady or httpReady: "" while empty
    bound,     \* the run that listens on each port
    temp,      \* the downloaded file: "none", "part" or "full"
    sig,       \* the first signal: not there, in the channel, or taken from it
    why,       \* history: how the run ended
    vpn,       \* the OpenVPN process that the run has started
    peer,      \* the run through whose listener its tunnel goes
    signals    \* number of signals and kills

fileVars == <<temp, why>>
vpnVars == <<vpn, peer>>
vars == <<pc, set, ready, bound, fileVars, sig, vpnVars, signals>>

Settings ==
    {[cmd |-> "usage"]} \cup
    [cmd : {"connect", "proxy"}, url : STRING, port : Ports, config : {Nothing} \cup DOMAIN OvpnPort,
     http : Ports \cup {"0"}]

Starting == {"listen", "listen http", "download", "copy", "openvpn", "notify"}
Handling == {"wait", "remove"}

TypeOK ==
    /\ pc \in [Runs -> {"idle", "gone"} \cup Starting \cup Handling]
    /\ set \in [Runs -> Settings]
    /\ ready \in [Runs -> {"", "nil", "error"}]
    /\ bound \in [Ports -> Runs \cup {Nobody}]
    /\ temp \in [Runs -> {"none", "part", "full"}]
    /\ sig \in [Runs -> {"none", "queued", "taken"}]
    /\ why \in [Runs -> {"", "usage", "fatal", "no openvpn", "killed", "done"}]
    /\ vpn \in [Runs -> {"none", "dial", "up", "term", "dead"}]
    /\ peer \in [Runs -> Runs \cup {Nobody}]
    /\ signals \in 0..MaxSignals

Init ==
    /\ pc = [r \in Runs |-> "idle"]
    /\ set = [r \in Runs |-> Usage]
    /\ ready = [r \in Runs |-> ""]
    /\ bound = [n \in Ports |-> Nobody]
    /\ temp = [r \in Runs |-> "none"]
    /\ sig = [r \in Runs |-> "none"]
    /\ why = [r \in Runs |-> ""]
    /\ vpn = [r \in Runs |-> "none"]
    /\ peer = [r \in Runs |-> Nobody]
    /\ signals = 0

----------------------------------------------------------------------------
(* Ends of a run.                                                          *)

Alive(r) == pc[r] \notin {"idle", "gone"}
Goto(r, label) == pc' = [pc EXCEPT ![r] = label]

\* The kernel closes the run's listeners and connections; an OpenVPN that loses its tunnel
\* dials again.  state: that of every OpenVPN before.
Exit(r, reason, state) ==
    /\ Goto(r, "gone")
    /\ why' = [why EXCEPT ![r] = reason]
    /\ bound' = [n \in Ports |-> IF bound[n] = r THEN Nobody ELSE bound[n]]
    /\ ready' = [ready EXCEPT ![r] = ""]
    /\ vpn' = [o \in Runs |-> IF peer[o] = r /\ state[o] = "up" THEN "dial" ELSE state[o]]
    /\ peer' = [o \in Runs |-> IF peer[o] = r THEN Nobody ELSE peer[o]]

Fatal(r, reason) == Exit(r, reason, vpn) /\ UNCHANGED <<set, sig, signals>>

----------------------------------------------------------------------------
(* The start of a run.                                                     *)

Start(r, args) ==
    /\ pc[r] = "idle"
    /\ set' = [set EXCEPT ![r] = Interpret(args)]
    /\ IF Interpret(args) = Usage
         THEN Goto(r, "gone") /\ why' = [why EXCEPT ![r] = "usage"]
         ELSE Goto(r, "listen") /\ UNCHANGED why
    /\ UNCHANGED <<ready, bound, temp, sig, vpnVars, signals>>

\* ListenAndProxy and ServeHTTPConnect, in a goroutine: net.Listen, and its error to
\* the channel.
Bind(r, port) ==
    /\ ready[r] = ""
    /\ IF bound[port] = Nobody
         THEN bound' = [bound EXCEPT ![port] = r] /\ ready' = [ready EXCEPT ![r] = "nil"]
         ELSE ready' = [ready EXCEPT ![r] = "error"] /\ UNCHANGED bound
    /\ UNCHANGED <<pc, set, fileVars, sig, vpnVars, signals>>

Listen(r) ==
    \/ pc[r] = "listen" /\ Bind(r, set[r].port)
    \/ pc[r] = "listen http" /\ Bind(r, set[r].http)

\* The main goroutine waits for the channel, and an error is fatal.
ListensMutant(r) == ready[r] # ""
Listens(r) == ready[r] = "nil"

AfterListen(r) ==
    IF set[r].cmd = "proxy"
      THEN IF pc[r] = "listen" /\ set[r].http # "0" THEN "listen http" ELSE "notify"
      ELSE IF set[r].config = Nothing THEN "download" ELSE "openvpn"

Proceed(r) ==
    /\ pc[r] \in {"listen", "listen http"}
    /\ ready[r] # ""
    /\ \/ /\ Listens(r)
          /\ ready' = [ready EXCEPT ![r] = ""]
          /\ Goto(r, AfterListen(r))
          /\ UNCHANGED <<set, bound, fileVars, sig, vpnVars, signals>>
       \/ ~Listens(r) /\ Fatal(r, "fatal") /\ UNCHANGED temp

\* downloadConfig: the answer's status, and os.CreateTemp.
Download(r) ==
    /\ pc[r] = "download"
    /\ \/ Fatal(r, "fatal") /\ UNCHANGED temp
       \/ /\ temp' = [temp EXCEPT ![r] = "part"]
          /\ Goto(r, "copy")
          /\ UNCHANGED <<set, ready, bound, why, sig, vpnVars, signals>>

\* io.Copy; what a failed one has written is removed.
DiscardMutant(r) == temp
Discard(r) == [temp EXCEPT ![r] = "none"]

Copy(r) ==
    /\ pc[r] = "copy"
    /\ \/ temp' = Discard(r) /\ Fatal(r, "fatal")
       \/ /\ temp' = [temp EXCEPT ![r] = "full"]
          /\ Goto(r, "openvpn")
          /\ UNCHANGED <<set, ready, bound, why, sig, vpnVars, signals>>

\* cmd.Start; log.Fatalf skips the deferred os.Remove.
StartOpenVPN(r) ==
    /\ pc[r] = "openvpn"
    /\ \/ Fatal(r, "no openvpn") /\ UNCHANGED temp
       \/ /\ vpn' = [vpn EXCEPT ![r] = "dial"]
          /\ Goto(r, "notify")
          /\ UNCHANGED <<set, ready, bound, fileVars, sig, peer, signals>>

Notify(r) ==
    /\ pc[r] = "notify"
    /\ Goto(r, "wait")
    /\ UNCHANGED <<set, ready, bound, fileVars, sig, vpnVars, signals>>

----------------------------------------------------------------------------
(* The end of a run.                                                       *)

\* SIGTERM for the OpenVPN that a run has started, if it still runs.
Told(r) == [vpn EXCEPT ![r] = IF @ \in {"dial", "up"} THEN "term" ELSE @]

\* The goroutine that passes the first signal on.
ForwardMutant(r) == vpn
Forward(r) == Told(r)

TakeSignal(r) ==
    /\ set[r].cmd = "connect" /\ pc[r] = "wait" /\ sig[r] = "queued"
    /\ sig' = [sig EXCEPT ![r] = "taken"]
    /\ vpn' = Forward(r)
    /\ UNCHANGED <<pc, set, ready, bound, fileVars, peer, signals>>

\* cmd.Wait returns; then the deferred os.Remove.
WaitReturnsMutant(r) == vpn[r] = "term"
WaitReturns(r) == vpn[r] = "dead"

Wait(r) ==
    /\ set[r].cmd = "connect" /\ pc[r] = "wait" /\ WaitReturns(r)
    /\ Goto(r, "remove")
    /\ UNCHANGED <<set, ready, bound, fileVars, sig, vpnVars, signals>>

RemoveFile(r) ==
    /\ pc[r] = "remove"
    /\ temp' = [temp EXCEPT ![r] = "none"]
    /\ Fatal(r, "done")

\* proxy: s := <-sig, and the end of main.
StopProxy(r) ==
    /\ set[r].cmd = "proxy" /\ pc[r] = "wait" /\ sig[r] = "queued"
    /\ Fatal(r, "done")
    /\ UNCHANGED temp

----------------------------------------------------------------------------
(* Signals.                                                                *)

\* SIGINT or SIGTERM to the client; Ctrl-C reaches the OpenVPN it has started, too.
\* Until signal.Notify a signal kills; afterwards the first one is kept, and those
\* that follow have nobody to take them.
Interrupt(r, ctrlC) ==
    /\ Alive(r) /\ signals < MaxSignals
    /\ signals' = signals + 1
    /\ LET state == IF ctrlC THEN Told(r) ELSE vpn
       IN  \/ /\ pc[r] \in Starting
              /\ Exit(r, "killed", state)
              /\ UNCHANGED <<set, temp, sig>>
           \/ /\ pc[r] \in Handling
              /\ sig' = [sig EXCEPT ![r] = IF @ = "none" THEN "queued" ELSE @]
              /\ vpn' = state
              /\ UNCHANGED <<pc, set, ready, bound, fileVars, peer>>

Kill(r) ==
    /\ Alive(r) /\ signals < MaxSignals
    /\ signals' = signals + 1
    /\ Exit(r, "killed", vpn)
    /\ UNCHANGED <<set, temp, sig>>

----------------------------------------------------------------------------
(* OpenVPN.                                                                *)

\* The port that the configuration names: the backend writes 11194 into every one it
\* hands out (manager.go:752).
Remote(r) == IF set[r].config = Nothing THEN "11194" ELSE OvpnPort[set[r].config]

\* Is port n the bridge of its owner, and not its HTTP proxy?
IsBridge(n) == bound[n] # Nobody /\ set[bound[n]].port = n

Dial(r) ==
    /\ vpn[r] = "dial" /\ IsBridge(Remote(r))
    /\ vpn' = [vpn EXCEPT ![r] = "up"]
    /\ peer' = [peer EXCEPT ![r] = bound[Remote(r)]]
    /\ UNCHANGED <<pc, set, ready, bound, fileVars, sig, signals>>

\* The server, the network or a bridge ends the tunnel: OpenVPN dials again.
Drop(r) ==
    /\ vpn[r] = "up"
    /\ vpn' = [vpn EXCEPT ![r] = "dial"]
    /\ peer' = [peer EXCEPT ![r] = Nobody]
    /\ UNCHANGED <<pc, set, ready, bound, fileVars, sig, signals>>

\* It ends when told to, and may end otherwise (connect-retry-max 1).
Ends(r) ==
    /\ vpn' = [vpn EXCEPT ![r] = "dead"]
    /\ peer' = [peer EXCEPT ![r] = Nobody]
    /\ UNCHANGED <<pc, set, ready, bound, fileVars, sig, signals>>
Obeys(r) == vpn[r] = "term" /\ Ends(r)
GivesUp(r) == vpn[r] \in {"dial", "up"} /\ Ends(r)

----------------------------------------------------------------------------

Main(r) ==
    \/ Listen(r) \/ Proceed(r) \/ Download(r) \/ Copy(r) \/ StartOpenVPN(r) \/ Notify(r)
    \/ TakeSignal(r) \/ Wait(r) \/ RemoveFile(r) \/ StopProxy(r)

Signals(r) == Kill(r) \/ \E ctrlC \in BOOLEAN : Interrupt(r, ctrlC)
OpenVPN(r) == Dial(r) \/ Drop(r) \/ Obeys(r) \/ GivesUp(r)

Next ==
    \E r \in Runs :
        \/ \E args \in Tried : Start(r, args)
        \/ Main(r)
        \/ Signals(r)
        \/ OpenVPN(r)

Spec == Init /\ [][Next]_vars

\* Goroutines run, requests are answered or time out, and OpenVPN obeys SIGTERM.
FairSpec ==
    /\ Spec
    /\ \A r \in Runs : WF_vars(Main(r)) /\ WF_vars(Obeys(r))

----------------------------------------------------------------------------
(* Properties.                                                             *)

\* The OpenVPN of a connect that listens where the configuration says goes through
\* its own listener, never through that of another run, since it is started after
\* the listener is there (main.go:216) and a port has one owner.
OwnTunnel ==
    \A r \in Runs :
        Alive(r) /\ set[r].cmd = "connect" /\ Remote(r) = set[r].port => peer[r] \in {r, Nobody}

\* A downloaded configuration, which holds a private key, is left on disk only if the
\* client was killed, or could not start OpenVPN (main.go:228, 238, 670).
NoKeyLeft ==
    \A r \in Runs :
        pc[r] = "gone" /\ temp[r] # "none" => why[r] \in {"killed", "no openvpn"}

\* An OpenVPN outlives its client only if the client was killed (main.go:244-252).
NoOrphan ==
    \A r \in Runs :
        pc[r] = "gone" /\ vpn[r] \in {"dial", "up", "term"} => why[r] = "killed"

\* For a user who has started nothing yet the places of the arguments make no
\* difference: a flag given before or after the URL means the same, and wins over the
\* file, which wins over the default (reorderArgs, main.go:541-559).
OrderIsFree ==
    (\A r \in Runs : pc[r] = "idle") =>
        \A args \in CommandLines : Interpret(args) = Meant(args)

\* Once a client has taken a signal in, or its OpenVPN has ended, it comes to an end
\* and its ports are free.
Finishes ==
    \A r \in Runs :
        sig[r] # "none" \/ vpn[r] = "dead" ~> pc[r] = "gone" /\ \A n \in Ports : bound[n] # r
=============================================================================
