# A TLA+ verification of OTIV

OTIV runs OpenVPN servers in Docker containers and lets clients reach them through
WebSockets. This directory holds TLA+ models of its backend, its command-line client and
its dashboard's sessions, the TLC configurations that check them on small instances, and
TLAPS proofs of their main invariants for every value of the constants. Line numbers
refer to the repository; `handler.go`, `ipblock.go`, `ws_proxy.go`, `manager.go`,
`instance.go`, `pki.go` and `config.go` are in `backend/internal/`, `bridge.go` in
`client/internal/bridge/`, the client's `main.go` in `client/cmd/otiv-client/`, `App.tsx`
and `client.ts` in `frontend/src/`.

## 1. The system

| Component | State | Operations | Talks to |
| --- | --- | --- | --- |
| Tunnels (`handler.go`, `ws_proxy.go`) | `Handler.conns` (source port → tunnel) under `connsMu`; per request: WebSocket, TCP connection, two channels, a registrar goroutine | `vpnProxy`, `BridgeWSToTCP`, `countConns`, `fillHTTPClientIPs`, `closeWSForCN` | reads instances without the manager's lock while it works; dials the containers |
| IP blocker (`ipblock.go`) | `blocked` and `failures` under `mu`; `blocked_ips.json` | `isBlocked` → `syncFromFile`, `recordFailure`, `resetFailures`, `block`, `unblock`, `list`, `load` | called by `blockMiddleware` for every request, by `login` and by the admin's handlers |
| VPN instances (`manager.go`) | `instances` under `mu`; `instances.json`; one container per running instance | create, start, stop, delete, settings, load at start, shutdown | Docker; the HTTP handlers; `main.go` |
| Kicks, timeouts, bans (`manager.go`, `instance.go`, `handler.go`) | CCD files; sessions in OpenVPN; ticker | `timeoutEnforcer`, `DisableCN`, `closeWSForCN`, `KickClient`, `kickVPNClientsByHTTPIP` | tunnels (by port), OpenVPN's management interface, instances |
| Hostnames and DNS (`manager.go`) | `Hostnames`, its copy in `instances.json`, `dnsmasq.hosts` | `GetInstanceClients`, `SetHostname`, `sanitizeHostname`, `uniqueFriendlyName`, `writeDNSHosts`, `reloadDNS` | instances, OpenVPN, dnsmasq |
| Bridge (`bridge.go`, `ws_proxy.go`, `wsTCPRelay`) | per connection and side: two pumps, `errc`, `prefixConn` | `ListenAndProxy`, `pipe`, `handleConnect`, `BridgeConnToWS`, `BridgeWSToTCP` | programs on the client's machine, the server behind the backend |
| Command-line client (`client/cmd`) | settings, `proxyReady`, a temporary file, a child process, a signal channel | `connect`, `proxy`, `dns list`, `dns apply` | backend, OpenVPN, the machine's ports |
| Start-up, TLS, configuration (`main.go`, `config.go`) | `config.yaml`, `cert.pem`, `key.pem` | write defaults, load, choose HTTP or HTTPS, listen, shut down | everything |
| PKI (`pki.go`) | `ca.key`, `ca.crt`, and the CA in memory | create, load, sign | instances, downloads of client configurations |
| Access (`handler.go`) | token store: token → role, no expiry, gone with the process | `login`, `authMiddleware`, `adminMiddleware`, `sanitizeClients` | all handlers |
| Dashboard (`App.tsx`, `client.ts`) | `sessionStorage`; `authenticated`, `isAdmin`, `showAdminModal`; calls under way | log in, become administrator, poll, the administrator's actions | the API |
| Downloads, reverse proxy, OpenVPN image | none that changes | | |

What is hard about it: every HTTP request is a goroutine, and several of them read
fields or files without the lock under which others write them; a tunnel is known to
three parties (handler, registrar, OpenVPN) that learn of it and forget it at different
times; four files are rewritten in place, so a crash can tear them; Docker calls fail and
their errors are often ignored; the process may end between any two of them; two pumps
share a connection that either may end; the client waits for a listener, a child and a
signal at once; and the dashboard's calls are answered when its session is already
another. `PROJECT.json` lists each hazard at its line, with the property that covers it,
or the reason why there is none: some the code is not protected against, and says nothing
of; they are observations (section 3).

What makes each component correct:

- *Tunnels*: the map names live tunnels only and each by its own port; the limit and
  the lock of an instance take effect; every tunnel ends when one of its sides does.
- *IP blocker*: memory, file and counters act as one list, and agree again after
  deletions and crashes.
- *Instances*: file, map and containers agree between operations; subnets differ; a
  failed step leaves nothing behind; the backend always comes up again.
- *Kicks*: a kicked client does not come back, whoever is cut off is kept out first, and a
  limit takes effect.
- *Hostnames*: a name that was set or saved is kept, names are distinct DNS labels, and the hosts
  file converges to the clients that are connected.
- *Bridge*: each program sees a growing prefix of what the other has sent, all of it if
  only the sender ends; an end on one side reaches the other and leaves nothing behind.
- *Client*: a tunnel goes through the client's own listener; no private key and no
  OpenVPN is left behind but after a kill; a signal ends it.
- *Start-up and PKI*: all certificates are of one authority, and the backend comes to serve.
- *Access and dashboard*: each operation is reached with the role it requires; the page
  shows its session's role and does not outlive it.

## 2. The modules

| Module | Models | Runs | Proofs |
| --- | --- | --- | --- |
| `Tunnels` | `vpnProxy` with its registrar, the bridge's ends, and the instance fields they read | 2 (`MCTunnels*`) | `TunnelsProofs` |
| `BlockList` | the promise of the IP blocker: one atomic list | through `IPBlocker` | |
| `IPBlocker` | the IP blocker and the requests that use it; implements `BlockList` while requests do not overlap | 2 (`MCIPBlocker*`) | `PersistenceProofs` |
| `Instances` | the manager's operations, its file, its containers, restarts | 2 (`MCInstances*`) | `InstancesProofs` |
| `Kick` | kicks, bans and the timeout enforcer, over clients that come and go and an OpenVPN that may not answer | 1 (`MCKick`) | `KickProofs` |
| `Labels` | what `sanitizeHostname` makes of a text | through `Hostnames` | `HostnamesProofs` |
| `Hostnames` | names in memory and on disk, and the hosts file, over polls, settings, crashes | 1 (`MCHostnames`) | `HostnamesProofs` |
| `Pipe` | the promise of a bridge: a stream in each direction | through `Bridge` | `BridgeProofs` |
| `Bridge` | both halves of a bridged connection; implements `Pipe` | 1 (`MCBridge`) | `BridgeProofs` |
| `CommandLine` | what the client makes of its arguments and its YAML file | through `Client` | `ClientProofs` |
| `Client` | runs of `connect` and `proxy` on one machine | 1 (`MCClient`) | `ClientProofs` |
| `Startup` | the backend's process from its start to its end: configuration, TLS, authority | 1 (`MCStartup.cfg`) | `PersistenceProofs` |
| `Access` | tokens and roles, and the dashboards that hold them | 1 (`MCAccess`) | `AccessProofs` |

How they fit together. `Tunnels` and `Instances` both have the manager's operations, at
two grains: `Tunnels` keeps what a request can see of them (status, lock, limit, whether
the container answers) and takes each as one step, because each holds `Manager.mu`;
`Instances` keeps what survives a failure (file, containers) and takes each Docker call as
one step. `Kick` sees a tunnel from outside: its port, and whether `conns` has it. The two
facts it takes from `Tunnels` are the theorems about that module: an entry of `conns` goes
when its tunnel does (`NoStaleEntry`), and names that tunnel if ports are distinct
(`PortIdentifiesTunnel`). `Tunnels` sees of a bridge what ends it; `Bridge` has the bytes.
`Hostnames` takes the save of `instances.json`, which `Instances` opens up, as one step
that succeeds or fails, and a restart as what `loadInstances` leaves; `Startup` has of
`loadInstances` whether the file parses and the save at its end; `Access` takes the
process as up or down. `Client` meets the backend only through the port that its
configurations name.

Definitions called `...Mutant` are mistakes a programmer could make in the definition
that follows. No specification uses them; putting one in the place of its definition
must break the property named in `PROJECT.json`, which shows that the property depends
on the code.

### Tunnels

A member of `Handlers` is a slot for one request of `GET /vpn/{id}`; it is used again
when the request has returned, so any number of requests come one after another and
`Cardinality(Handlers)` of them at once. `pc` follows `vpnProxy`:

| `pc` | next | code |
| --- | --- | --- |
| `idle` | `Lookup` | `handler.go:589-594` |
| `locked` | `CheckLocked` | 597-600 |
| `limit` | `CheckLimit` | 601-606 |
| `resolve` | `Resolve` | 608-612 |
| `upgrade` | `Upgrade` | 614-637 |
| `dial` | `DialOk`, `DialFail` | `ws_proxy.go:14-29` |
| `bridge` | `BridgeEnds` | `ws_proxy.go:31-71` |
| `cleanup` | `Cleanup` | `handler.go:643-649` |

`reg` is the registrar and its two channels: `waiting` for `portCh`, `sent` when the
port is in the channel, `registered` when the port is in the second channel. `ws` is
what a read on the WebSocket will do (`lost`: block for ever; `closed`: fail), `tcp` the
same for the container's side. The limit and the count are read in one step
(601-602): nothing in between depends on both. `EffectiveMaxClients` is the code's, with
its 0 for "use the global one".

The kernel chooses the source port. With `PortReuse = FALSE` a port that a live tunnel
has is not given out again; with `TRUE` it may be, to another container, which is what
Linux guarantees and no more. `peak` is a history variable and no part of the program: of the
requests that passed the limit check, it has the largest sum of the limit they were checked
against and of the handlers that were between check and entry.

`container` is what bears the instance's name in Docker: nothing, a container that is up,
or one that has exited. A stop or a deletion changes the record whether or not Docker does
as told (`RemoveContainer`: `manager.go:424-425`, 659-660), so the container may have gone,
have exited or run on. `DeletedDrains` is therefore about deleted instances whose
container is not up. The read of an instance's fields after its deletion sees the old
record, as a Go pointer does.

### IPBlocker and BlockList

A member of `Threads` is a request. `Arrive` is `os.ReadFile` and `json.Unmarshal`, without
the lock; `Apply` replaces the set (and stands for the empty set when the file is
missing); `Dump` and `DumpWritten` are the two halves of rewriting a file that did not
parse; `Check` is the look-up. A request that is let through is then a login, an admin's
block or unblock, or one that does not touch the blocker. `os.WriteFile` is two steps,
`Truncate` and `Write`, between which the lock is held and the file is `torn`; `Write`
after a deletion writes to the unlinked file and changes nothing. Errors of
`os.WriteFile` itself (a full disk) are not modelled.

`BlockList` is the promise, read off `README.md:95` and `100-102`. The refinement
mapping takes the list to be what the next request would go by: the file, and memory
while the file is torn. `calm` is a history variable: there has never been more than one
request at a time, a deletion or a crash. As long as it is true, every step is one of
`BlockList` or none (`ActsAsList`); with overlapping requests this is false, and
`BlocksAreKept` shows how.

### Instances

`op` is the operation that holds `Manager.mu`, with the record it works on and its next
step: `teardown` (stop and remove the recorded container), `build` (`ContainerCreate`),
`launch` (`NetworkConnect`, `ContainerStart`), `commit`, or `fail`. `name[i]` is the ID of
the container that has the name of instance `i`: Docker allows one, so a create with a
taken name fails. An ID no variable refers to may be given out again and stands for a
fresh one. `torn` is the moment between truncating `instances.json` and writing it. If the
file is torn when the process starts, `Boot` stutters: `main` ends the process each time
(`main.go:67-70`).

Two kinds of fault count towards `MaxFaults`: a removal that Docker refuses (or whose
request is cancelled), and a process that ends in the middle of an operation. `faults` has
their number, so that `NoLeftovers` can say what holds as long as there was none, and
`FaultKinds` says which of them happen: only crashes in the run of finding 3, so that what
it shows is not a removal that has failed. Failures
of every other Docker call, ends between operations, and containers that exit are not
bounded. `SetLocked` stands for the settings; the
others change another field in the same way. A stop is committed at its end, where the
code clears `ContainerID` a little earlier: nothing reads the record in between but
requests that do not look at that field.

### Kick

A member of `Kickers` is an administrator's request (a kick, or the goroutine that a ban
starts) or the timeout enforcer. All three loop over clients and do the same to each:

| `pc` | next | code |
| --- | --- | --- |
| `idle` | `Kick`, `Ban`, `Tick` | `handler.go:511-515`, 318-348; `manager.go:86-98` |
| `scan` | `Scan`: ask an instance for its clients | `handler.go:350-358`; `manager.go:107-125` |
| `next` | `TakeNext`: the next client, and `DisableCN` | `handler.go:359-368`; `manager.go:128-131` |
| `query` | `Query`: `closeWSForCN` asks for the client's port | `handler.go:113-134` |
| `close` | `Close`: the WebSocket that `conns` has for it | `handler.go:135-141` |
| `kill` | `Kill`, `KillUnanswered`: `KickClient` | `manager.go:484-503`, `instance.go:87-115` |

A kick starts at `query`, with the file written. `list` is what OpenVPN reports or as much
of it as arrives before the deadline, because `GetClients` does not look at the scanner's
error (`instance.go:49-81`) and its callers ignore the one of a failed dial. The reply to
`kill` is likewise not looked at when there is none (`instance.go:105-114`), so
`KillUnanswered` goes on as `Kill` does. `late` is what a comparison of `ConnectedAt` with
the client's limit says; no clock is needed. Everything about OpenVPN is external: it
admits a client unless its CCD file says `disable`, keeps one session per name, and
notices the end of a connection later. A client connects to its own instance; instances
do not start, stop or go away here, the CCD file can be written, and the race of
`DisableCN` on the map of instances (`manager.go:474`, read without the lock) is left out.

`killed` is a history variable: whom OpenVPN was told to kill, and was.

The kernel gives out a port again as soon as the connections that had it have ended at both
ends, and for another server even before (`PortFree`, `Owns`). So a port that a ban has
collected, or that `closeWSForCN` has looked up, may be another client's when it is used.
`DisabledFirst` is about each connection that is ended: its client is kept out by then, but
for one case, which `Astray` spells out. That a ban disables and kicks whoever has one of
the collected ports by the time of the scan, and the enforcer whom it has collected, does
not violate it, and is an observation below.

### Hostnames and Labels

`op` is the request that holds `Manager.mu`: a poll of `getClients` (`GetInstanceClients`,
`manager.go:507-546`) or a name that a user sets (`SetHostname`, 579-599). Its steps are
the two halves of writing `dnsmasq.hosts` (`truncate`, `write`, 601-611), the save of
`instances.json` (`save`), which may fail, and the answer. `list` is what OpenVPN has
reported, or as much of it as arrived. A crash forgets the table of names and keeps both
files; a restart takes the table from `instances.json` and leaves the hosts file, which
the mounted directory keeps. `Crash` also stands for the runtime's end of the process when
two requests meet in the map of names without the lock. `Labels` has `sanitizeHostname`
over classes of characters, with `MaxLabel` for its 63 bytes. `told` and `custom` are
history: the name that a client has been promised, and whose name a user has set. A
promise is made by a `SetHostname` that returns no error (598) and by a poll that has
given names and saved them. None is made where the code cannot keep it: by a poll whose
save has failed (542 ignores it), and by `listInstances`, which encodes the table without
the lock (`handler.go:404-434`) and so may show a name before it is saved. A failed save
leaves the file as it was here; that it may leave it cut, so that no later start succeeds,
is in `Startup`. dnsmasq is external; the model ends at the file it reads.

### Bridge and Pipe

A connection is a wire in each direction, holding up to `Capacity` chunks, with an end
(`fin`) and a reader that may have gone (`deaf`). There are three of them: from the program
to the client's bridge, the WebSocket, and from the backend's bridge to the server.

| Definition | Code |
| --- | --- |
| `ReadRequest`, `ClientDials`, `DialFails("client")` | `bridge.go:78-94`, 170-215 |
| `BackendDials`, `DialFails("backend")` | `ws_proxy.go:13-31`, `handler.go:674-706` |
| `Read`, `ReadFails`, `Write`, `PumpEnds` | `bridge.go:110-142`, `ws_proxy.go:33-67` |
| `ReadPrefix` | `prefixConn.Read`, `bridge.go:217-231` |
| `CloseFirst`, `CloseSecond` | `<-errc` and the deferred closes, `bridge.go:97-104`, 144-147; `ws_proxy.go:21`, 69 |

The backend's half is `BridgeWSToTCP` in both of its uses (`vpnProxy`, `wsTCPRelay`). TCP
is external and what it does is written out: a close with unread data resets the
connection, a reset may cut off what is on its way, and a write to an end that is gone is
lost and may report it only later. `Pipe` promises less: two streams of which the receiver
sees a growing prefix. `Bridge` is shown to implement it (`ActsAsPipe`), and
`EofComplete` and `Delivered` say when the prefix is all.

### CommandLine and Client

`CommandLine` computes what a command line stands for: `TakeFile` (`main.go:590-607`),
`Reorder` (541-559), the `flag` package (external), and the order of flag, file and default
(`Interpret`, 178-206, 263-292, 609-646). The loops over the arguments are all `Loop` of a
step: `Take`, `Sort` and `Read` have what happens to one argument. `Meant` says what a
command line means without any pass over it: a flag's value is the word after it or its
own, the last use counts, and the words that are nobody's value are the subcommand and the
URL. `OrderIsFree` compares the two. `Client` then runs what a command line stands for:

| `pc` | next | code (`main.go`) |
| --- | --- | --- |
| `idle` | `Start` | 590-627 |
| `listen`, `listen http` | `Listen` in its goroutine, `Proceed` | 209-218, 298-322; `bridge.go:78-85` |
| `download`, `copy` | `Download`, `Copy` | 651-674 |
| `openvpn` | `StartOpenVPN` | 228-240 |
| `notify` | `Notify` | 242-244, 325-326 |
| `wait` | `TakeSignal`, `Wait`, `StopProxy` | 244-252, 324-329 |
| `remove` | `RemoveFile` | 228 |

`Exit` is what the kernel does with a process that ends: its listeners are free, and an
OpenVPN whose tunnel went through it dials again. `log.Fatalf` and a signal before
`signal.Notify` end the process without its deferred calls. OpenVPN is external: it dials
the port that its configuration names, and finds whichever run listens there.

### Startup

`proc` follows the backend's `main` (`main.go:22-106`): configuration (`CheckConfig`,
`WriteDefaults`, `Load`), TLS (`CheckTLS`), the authority (`GenerateCA`, `WriteKey`,
`WriteCert`, `LoadCA`), the instances (`LoadInstances`, `SaveLoaded`), `Listen`, and the
shutdown. A file that is being written is torn until it is whole. `records` is
`instances.json`, which requests write while the backend serves (`SaveInstances`), and still
while it shuts down; if it does not parse, `loadInstances` fails and `main` ends
(`manager.go:77-80`, `main.go:67-70`). `ca` is the authority in memory, and `issued` a history
of who signed each certificate and which authority went with it: `GenerateClientConfig`
reads `ca.crt` again for every client. The operator may change the TLS files at any time.
`Recovers` says that a process that is down comes to serve, or is down again over a file
that has been left half-written; a file that is merely being written is no exception.

### Access

`tokens` is the token store and `origin` its history: the password that each token was
given for. A dashboard has what is in `sessionStorage` (`stored`), the state of the page
(`page`, `isAdmin`, `modal`) and its calls under way, each with the token it was sent with
and the answer that it has got so far. `Serve` is the middleware and `sanitizeClients`;
`Answered` is `request` in `client.ts`, which clears the storage on a 401 (59-62), and
`Expired` the catch block of `load` (`App.tsx:308-318`), a step later, because the body of
the answer is read in between. `BecameAdmin` is the dialog's answer (137-149), which
arrives even when the page has gone. Three calls stand for the routes, one per role and
one for the poll that reacts to a 401; the routes without a token belong to other modules.
`ServeOther` is any other HTTP client, which may make each of the three calls with each
token or none: a user's token on an administrator's route, which no dashboard sends, is what
`adminMiddleware` is for. `served` is a history of the tokens for which something was done,
or shown, that is for administrators.

## 3. The runs

| Run | Question | Bounds | Result |
| --- | --- | --- | --- |
| `tunnels` | Does the map keep an entry of a tunnel that is gone? Does a port name its tunnel, how far is the limit exceeded, does every tunnel end, do delete and lock take effect, whatever Docker does? | 2 requests at a time, 1 instance, 2 ports used once at a time, limits 1 and 2 | hold |
| `tunnels_port_clash` | Is the port "a precise 1:1 mapping"? | 2 requests, 2 instances, ports reused | no: finding 1 |
| `ipblocker` | Does the blocker keep its promise one request at a time, and do memory and file end up equal whatever happened? | 2 requests at a time, 2 addresses, threshold 3, crashes, deletions | hold |
| `ipblocker_overlap` | Is a block kept when requests overlap? | the same, without crashes and deletions | no: finding 2 |
| `instances` | Do map, file and containers agree, is anything left over, does the backend come up? | 2 instances, 2 subnets, 2 faults | hold |
| `instances_orphan` | Is the state clean after any restart? | the same, 1 crash in mid-operation and no failed removal | no: finding 3 |
| `kick` | Do kicks, bans and timeouts take effect, and who is cut off that may come back? | 2 clients with an address each, 1 instance, 2 ports, 1 request and the enforcer | hold |
| `hostnames` | Are promised names kept, are names distinct, are they labels, does the hosts file converge? | 2 clients, 1 address, 2 texts that are typed (`Tried`), 1 friendly and 1 fallback name, labels of 3; for `TextsBecomeLabels` all 340 texts of up to 4 characters (`RawNames`) | hold |
| `bridge` | Are the streams in order, when are they complete, is anything left behind? | 2 chunks up, 1 down, 1 chunk per wire | hold |
| `client` | Whose listener does a tunnel use, what is left behind, does order matter, does a client end? | 2 runs, 3 ports, 6 command lines to start with (`Tried`), 3 signals or kills; for `OrderIsFree` a subcommand, a URL, `-f`, `-port` and a second flag in every form, any of them in every order, with and without a second `-port` (`CommandLines`) | hold |
| `startup` | Is there one authority, does the backend come to serve, and what stops it? | 3 crashes, signals or changes of the TLS files | hold |
| `access` | Do roles hold, does the page show its session, which sessions end, does a dead one stay open? | 1 dashboard, other clients with any token, 1 restart, 3 tokens, 2 polls and 1 other call under way | hold |

Why the bounds are enough. The tunnels interact through one map entry per port and one
count per instance, so two tunnels on one port, or a second that passes the check while
the first is not entered, are the interesting cases; the proofs then remove the bound.
Threshold 3 has a first, a middle and a last failure. Two requests suffice for every race
on the list, as each race is between one that reads and one that writes. Two instances
suffice for Docker failures, which concern one name each, and two subnets for two
instances leave no spare; two faults are a failed removal and a crash in the same
operation or in successive ones. The pool of container IDs is larger than the number that
can be referred to at one time, so that a fresh one never lacks. In `kick`, two clients
and two ports let a port pass from one client to the other, and the enforcer works beside
a request; that clients of two servers share a port, the other exception of
`DisabledFirst`, is covered by its theorem. In `hostnames`, of the two texts one is cut
after a hyphen and the other becomes a name that a draw may also give, and an address
passes from one client to the other. In `bridge`, with room for one chunk every write can
block, two chunks one way are enough for one to be held by a pump while the other is on
the wire, and the other direction has one to be lost. In `client`, the command lines have
two runs on one port, a run whose HTTP proxy and another's bridge meet, and a
configuration whose port is its own. Three faults let a start be cut at one file, then at
the other, and once more while serving. Two polls can be answered in either order, and
three tokens are an old session, its successor and an administrator's.

Deadlock is checked where the system cannot stop. In `bridge` a connection ends, in
`client` all runs do, and in `access` the tokens are used up.

`TypeOK` is in the runs of the two modules where it is part of the question (`ipblocker`:
the range of the counters, `instances`: that of the subnets). That of the others is a
theorem (`TypeCorrect`), for every value of the constants.

### Fairness

- `Tunnels`: each handler's own steps and its registrar run (goroutines are scheduled;
  locks are held for a few instructions). A dial ends, at the latest with an error: a
  `net.Dial` without timeout is bounded by the kernel. OpenVPN drops a peer that has
  stopped answering: the server's configuration says `keepalive 10 120`
  (`manager.go:738`). No fairness for clients, kicks, operators, or a container's death.
- `IPBlocker`: requests keep arriving and proceed; a waiting `Lock` of `sync.RWMutex` is
  not overtaken for ever, which is strong fairness, as the lock is free again and again.
- `Instances`, `Startup`: what is under way proceeds (Docker calls and file writes
  return), and the process is started again when it has ended (`docker-compose.yml:2`,
  `restart: always`). Nobody has to send requests.
- `Kick`: the ticker ticks and the enforcer proceeds, because every query and command has
  a deadline (`instance.go:37`, 42, 94, 99). An OpenVPN that is asked for its list again
  and again answers once in full, and one that is told again and again to kill a client
  answers once: strong fairness, and the weakest assumption under which a timeout can
  take effect. No fairness for clients or administrators.
- `Hostnames`: an operation proceeds, the process is restarted, and of the polls that an
  open dashboard sends every few seconds again and again one is answered in full (strong
  fairness, as the poll has to find the lock free and the backend up).
- `Bridge`: goroutines run, a dial succeeds or fails, and the programs read what arrives.
  Nobody has to send or to close. `Delivered` and `BridgesEnd` need no strong fairness.
- `Client`: the goroutines of a run proceed, and an OpenVPN that was sent SIGTERM ends.
- `Access`: the process is restarted. A page that is open polls (`App.tsx:323-328`), and
  the user neither reloads it before every answer nor meets a refusal every time.

### Findings

1. A source port may be shared by tunnels to two containers: the second overwrites the
   first's entry in `conns` and its end removes it, so a kick or a ban does not find the
   first, and the shown address is wrong (`handler.go:632`, against 72-73).
2. A block is lost when another request read the file before the block was saved and
   replaces the set afterwards (`ipblock.go:77`, against `README.md:102`). The file still
   has it, so the next request restores it, unless a save comes first, which makes the
   loss permanent.
3. The ID of a container is known once it has been created (`manager.go:316`) and saved only
   at the end of the operation (389, 683). After a crash in between, `loadInstances` has no
   ID to remove; it cannot create a container of the same name either, and marks the instance
   stopped. The container stays, and the instance can never start again (against 223-224).

Observations that no run is spent on. Backend:

- The connection limit is checked before the upgrade but a request is counted only after
  its dial, so requests that race exceed it (`handler.go:602`, against `README.md:104`).
  `OvershootBounded` says by how much.
- When all 247 subnets are in use the next instance shares the first one
  (`manager.go:724`, against `README.md:21`), which is why the theorem about subnets has
  its assumption.
- A crash while `blocked_ips.json` is rewritten empties the list (`ipblock.go:132`, 142),
  which by `README.md:147` only a deletion of the file should do.
- With overlapping requests, a request that reads the block list while another dumps it
  starts a dump of its own. The rewriting may go on as long as requests keep coming at
  that moment; memory and file agree all the same.
- Closing the WebSocket needs an answer of the management interface too
  (`handler.go:118`), so while OpenVPN does not answer, a kick does no more than write the
  CCD file, and still reports success (`handler.go:522`, `instance.go:105-114`). The
  enforcer tries again at the next tick; a kick or a ban does not.
- A ban reaches the tunnels that are in `conns` and in OpenVPN's list at that moment: one
  that is still being set up (`handler.go:614-637`) stays connected after the ban.
- A ban asks for the clients after it has collected the ports. A client that has been given
  one of them meanwhile is taken for the banned one: it is disabled, for good, and kicked
  (`handler.go:336-373`). Likewise `closeWSForCN` cuts off whoever has the port that it has
  just looked up.
- The enforcer kicks whom it has collected, also if the limit has been raised, or the client
  has reconnected, since (`manager.go:107-136`); the CCD file then keeps the client out.
- When Docker does not stop or remove a container, the record goes or changes all the same
  (`manager.go:424-425`, 659-660): the tunnels of a deleted instance stay open as long as
  its container runs, and a stopped one can never be started again, as its name is taken.
- A file that a crash has cut is never repaired: `config.yaml`, `ca.key` or `ca.crt`, and
  `instances.json`, which each operation rewrites, keep every later start from succeeding.
  `Recovers` and `ComesUp` name these states. `docker-compose.yml` restarts in vain.
- The comment above `timeoutEnforcer` says 30 seconds, the ticker 5 (`manager.go:86-88`).
- `README.md:114-115` gives delete and stop to users; the routes want an administrator.
- The certificates of instances and clients end after a year (`pki.go:135`) and are not renewed.

Names:

- Names are given by polls: a client has none until somebody asks for the list.
- A poll ignores that its save has failed (`manager.go:542`), and `listInstances` shows the
  table without the lock: a name that a user has seen may be another after a restart.
- The comment in `manager.go:534` says "always sync"; with no client connected the hosts
  file keeps its last entries (537).
- A fallback name is not compared with the names in use, and a stored name may end in a
  hyphen where it was cut; the hosts file has it without (605).
- dnsmasq runs with `--no-daemon` (`openvpn/entrypoint.sh:30`). Where it then writes no
  pid file, the command of `reloadDNS` (`manager.go:618`) finds none and sends no signal,
  so that dnsmasq goes on with the hosts file it started with.

Client and dashboard:

- The configuration that the backend hands out names port 11194 (`manager.go:752`), so
  `connect -port X` starts an OpenVPN that dials another port, where another run may
  listen. `OwnTunnel` has the case in which it does not.
- A failed start of OpenVPN leaves the downloaded file, which has a private key
  (`main.go:238`); a client that is killed leaves an OpenVPN that goes on dialling.
- `dns list` and `dns apply` send no token, and their routes require one
  (`main.go:112-135`, against `handler.go:195-211`).
- `connect <host:port> -url` of the head comment (`main.go:6`) does not exist. A trailing
  slash of the URL is removed for `dns` but not for the configuration (82, 701).
- One side's half-close ends the whole bridge, so an answer still on its way is cut.
- A late 401 to a call of an old session clears the storage of a new one
  (`client.ts:59-62`); `OwnCallsKeepSession` says that nothing else does. After a 401 to
  any other call than the poll the page stays until the next poll (`NoGhost`).

## 4. The proofs

All proofs are for any sets of constants that satisfy the named assumptions of the
modules (`ASSUME`; TLC evaluates them in the runs).

`TunnelsProofs`
- `TypeCorrect`: `TypeOK` is inductive.
- `NoStaleEntryAlways`: the invariant adds `Bookkeeping`, which ties the channels to the
  program counter (a registered tunnel is in `bridge` or `cleanup`, a port is set from
  the dial on). Needed because the property is about a removal that waits for the
  registrar, not about the map alone. No assumption about ports.
- `PortIdentifiesTunnelAlways`: assuming `PortReuse = FALSE`, with `SinglePort`: no two
  handlers have the same source port.
- `OvershootBoundedAlways`: same assumption. An inductive count: only `CheckLimit` adds to
  the handlers that an instance has admitted (`OnlyCheckLimitAdmits`, `SizesShrink`), and
  when it lets a request through, fewer than the limit are registered, because
  `CountConns` equals the number of registered tunnels (`CountedHandlers`, a bijection
  between ports and handlers that needs `PortIdentifiesTunnel`); the others are in the
  window that `peak` has counted.
- `DeletedDwindles`, `DrainedStays` and `QuietStays`, from `EntriesInv` and what any step of
  a handler (`HandlersAreCareful`) and of the manager (`ManagerKeeps`) may do: the safety
  halves of `DeletedDrains` and `LockQuiesces`, which say that what is reached stays. The
  first does not depend on what Docker does: the requests at a deleted instance become
  fewer, its container does not come back, and once it is down none of them has an open
  connection to it.

`PersistenceProofs`, on what is kept on disk by `IPBlocker` and `Startup`
- `TypeCorrect`: in particular no counter reaches the threshold, so every tenth failure
  resets it. For overlapping requests, crashes and deletions.
- `CalmActsAsList`: as long as `calm`, every step maps to a step of `BlockList` or leaves
  it unchanged; `CalmInv` says that memory and every snapshot equal the list, and that a
  torn file is the sign of a save under way. `CalmKeepsBlocks` states the claim of finding 2
  for those behaviours: an address leaves the list only by being unblocked.
- `AgreementStays`, for requests that overlap: once memory and file agree and no request has
  read an older list, only those who mean to change something can part them. It is the
  safety half of `CacheSettles`.
- `StartupTypeCorrect`, and `OneCAAlways` with `CAInv`: the key is written before the
  certificate, neither is ever written again, and whenever certificates are issued the one
  in memory is the one on disk. For any bound on the faults.

`InstancesProofs`
- `AllocateSubnetResult`: the first free subnet exists and is returned (from the
  well-foundedness of the natural numbers).
- `TypeCorrect`: with `ControlInv`, what each operation has been given to do; a load takes
  its record from the file, so types depend on it.
- `RunningHasContainerAlways`: with `BackedInv`, which exempts the instance that is being
  worked on and says what its operation knows of the container it has started.
- `DiskAgreesAlways`: with `DiskInv`: the map changes only together with the start of a save.
- `NoLeftoversAlways`: with `CleanInv`: while the process is down or has not yet come to an
  instance, a container with its name is the one in the file, otherwise the one in the map.
  It rests on `BackedInv` and `DiskInv`.
- `SubnetsDistinctAlways`: assuming no more instances than subnets, by counting
  (`SomeSubnetFree`), with `SubnetInv` for the file and for the record under work.

`KickProofs`
- `TypeCorrect`: with `Busy`, which says that a kick past its scan has a client, and one
  that closes a WebSocket has a port.
- `KilledStayOutAlways`: a killed client is in `ccd` and has no session (`Dead`); neither
  can change. No assumption about ports.
- `DisabledFirstAlways`: no assumption about ports either. `KInv` adds that two clients of
  one server never own a port and that an entry of `conns` is of the tunnel that has the port
  (`OnePort`), and that the client a kick is after is in `ccd` (`Aimed`).

`HostnamesProofs`
- `TypeCorrect`: in particular, what is in the hosts file went through `sanitizeHostname`.
- `NamesKeptAlways`: with `Settled`: what was promised is on disk and in the table, but for
  the client whose name is being set, whether later saves succeed or fail.
- `AutoNamesDistinctAlways`: distinctness of the table and of the file together, as a
  restart makes the one the other.
- `HostsAreLabelsAlways`, for texts and labels of any length: one pass of `sanitizeHostname`
  leaves a label but for hyphens at its end (`FirstPass`), and another pass takes just
  those away (`SecondPass`). `LongestLabelKept`: of what `strings.Map` leaves, it is the
  longest label that begins with the first letter or digit, or `host` if there is none;
  hence `TextsBecomeLabelsAlways`, which the run checks for short texts. `Mapped` is a
  recursive function along the text; that it exists (`StepsExist`), what it leaves
  (`MappedIsClean`) and what it leaves alone (`MappedKeeps`) are inductions from the
  well-foundedness of the natural numbers (`Smallest`, `Induction`). Assumed: the names that
  are drawn are labels (`DrawnNamesAreLabels`: two words of the lists in
  `manager.go:626-627`, and hexadecimal digits).

`BridgeProofs`
- `TypeCorrect` and `ActsAsPipeAlways`, from `PathInv`. What is on its way in a direction is
  one sequence: what was received, the last wire, the pump of the second bridge, the
  WebSocket, the pump of the first bridge (with what `handleConnect` has read ahead), the
  first wire. It counts 1, 2, 3 and so on as long as nothing is lost. A close or a reset
  loses chunks anywhere along it, so that this is not inductive; what is (`InOrder`) is that
  a wire that loses anything is never written to again, and that the sequence still counts
  from the receiver as far as the first such wire. The receiver's part is then a prefix of
  what was sent, and every step is a step of `Pipe` or leaves it unchanged. For any
  `Capacity` and `MaxSend`, with the failures, closes and half-closes of all six goroutines.
- `EofCompleteAlways`, from `DrainInv` in addition: if only the sender of a direction has
  ended anything and the other one is silent, the parts of the path end one after the
  other, each when it has passed on everything and the part before it has ended
  (`StopsLast`, `ClosesAfter`, `ClosedBy`), so nothing is lost, although each bridge closes
  both its connections as soon as one pump has ended.
- The prover's encoding of `Len` gives every value a length, which is inconsistent with a
  function whose domain is, say, 0..n. The proofs about sequences (here, in
  `ClientProofs` and in `HostnamesProofs`) keep the two apart: a step that names a length
  is never given such a function.

`AccessProofs`
- `TypeCorrect`, `AdminOnlyAlways`, `RoleShownAlways`, `OwnCallsKeep`, all from
  `SessionInv`: a stored role is the one its token was given for, and (`CallInv`) an answer
  given to a role was given for a token of that role, while a 401 was given for a token
  that is dead and stays so.

`ClientProofs`
- `InterpretsAsMeant` and `OrderIsFreeAlways`, for command lines of any length in which every
  flag has its value (`Sensible`): the client's passes agree with `Meant`. Each loop is a
  recursive function along the arguments, which exists (`StatesExist`) and is what its
  invariant says by induction (`Smallest`, `Induction`). The invariants are about the first
  n arguments: `TakeInv` (what main has taken out), `RestInv` (what `reorderArgs` and the
  flag package would make of what main has left so far), and `Says` (the last value that a
  flag has been given). The three passes are proved together, in one induction along the
  command line as it was typed (`LineStep`): an argument more at the end of the line is at
  most an argument more at the end of each pass (`SortedAppend`, `ParseAppend`), except
  that a word that is nobody's value goes behind all flags, where the flag package only
  keeps it (`ReadWords`).
- `Understood`: each command line stands for settings, given that users type ports where
  ports are expected (`CommandLinesAreTyped`, `FilesAreTyped`).
- `TypeCorrect`, `OwnTunnelAlways`, `NoKeyLeftAlways`, `NoOrphanAlways`, from `ClientInv`:
  `StageInv` says of each stage of a run who listens, which file there is, and which
  OpenVPN.
- `EndedStays`: only a run that goes on has listeners (`PortsAreOfTheLiving`), and a run that
  has ended does not come back (`RunsAreMortal`). The safety half of `Finishes`.

Only model-checked: the liveness properties, since liveness under fairness is out of the
prover's reach; where a theorem has their safety half, it says so above. The claims that
runs refute have no theorem as they stand: `PortIdentifiesTunnelAlways` and
`CalmKeepsBlocks` have them under the conditions that the counterexamples break.

## 5. Not modelled, and what may follow

- The client's `dns` commands: a request and a sequence of external commands, of which a
  later one may fail when an earlier one has taken effect. No state of the program.
- The dashboard's list of instances and its forms; rendering.
- Downloads and the reverse proxy: no state that changes.
- The values of the configuration: a table that is read once. What `Load` does with a
  missing, cut or whole file is in `Startup`.
- The OpenVPN image, dnsmasq and Docker are external; the models have what the code sees
  of them. Cryptography is left out.
- Kicks over instances that stop, start or go away meanwhile, a CCD file that cannot be
  written, and the race of `DisableCN` on the map of instances (`manager.go:474`).

What may follow: `Kick` with instances that come and go; instances that are deleted while
`Hostnames` has their names.
