------------------------------- MODULE Bridge -------------------------------
(***************************************************************************)
(* One connection through the client's and the backend's bridge: from a    *)
(* program on the client's machine (OpenVPN, or one that uses the HTTP     *)
(* CONNECT proxy), over TCP, a WebSocket and TCP again, to a server.       *)
(* client/internal/bridge/bridge.go has the client's half (pipe, and       *)
(* handleConnect with BridgeConnToWS), backend/internal/proxy/ws_proxy.go  *)
(* the backend's (BridgeWSToTCP).  Each half is three goroutines: a pump   *)
(* for each direction, and the main one, which waits for the first pump    *)
(* that ends and then closes both connections.                             *)
(*                                                                         *)
(* A connection has a wire in each direction: what has been written and    *)
(* not yet read.  A chunk is a number, its position in the stream; how     *)
(* reads group bytes does not matter here.                                 *)
(*                                                                         *)
(* A definition named ...Mutant is a plausible mistake in the definition   *)
(* after it; no specification uses it.                                     *)
(***************************************************************************)
EXTENDS Integers, Sequences

CONSTANTS
    MaxSend,     \* bound on the chunks a program sends, for each direction
    Capacity     \* chunks that a wire holds

Directions == {"up", "down"}    \* up: from the program to the server
Links == {"local", "ws", "remote"}
Bridges == {"client", "backend"}

ASSUME BoundsAreNatural ==
    MaxSend \in [Directions -> Nat] /\ Capacity \in Nat \ {0}

VARIABLES
    phase,     \* the main goroutine of each bridge
    wire,      \* chunks in transit
    fin,       \* has the writer of a wire ended it: "none", "fin" or "reset"
    deaf,      \* has the reader of a wire closed its end?
    prefix,    \* what handleConnect has read beyond the request
    pump,      \* the pumps of each bridge
    errc,      \* how many results are in the channel errc, or were received
    sent,      \* number of chunks the programs have sent
    got,       \* chunks the programs have received
    ended      \* history: the direction that its sender has ended, "none", or "more" than that

linkVars == <<wire, fin, deaf>>
mainVars == <<phase, prefix>>
endVars == <<sent, got, ended>>
vars == <<mainVars, linkVars, pump, errc, endVars>>

Chunk(d) == 1..MaxSend[d]
Pump(d) ==
    [at : {"off", "read", "write", "fail", "done"}, held : Seq(Chunk(d)), last : BOOLEAN]

TypeOK ==
    /\ phase \in [Bridges -> {"none", "request", "dial", "bridge", "closing", "closed"}]
    /\ \A k \in Links, d \in Directions :
         /\ wire[k][d] \in Seq(Chunk(d)) /\ Len(wire[k][d]) <= Capacity
         /\ fin[k][d] \in {"none", "fin", "reset"}
         /\ deaf[k][d] \in BOOLEAN
    /\ prefix \in Seq(Chunk("up"))
    /\ \A b \in Bridges, d \in Directions : pump[b][d] \in Pump(d)
    /\ errc \in [Bridges -> 0..2]
    /\ \A d \in Directions : sent[d] \in 0..MaxSend[d] /\ got[d] \in Seq(Chunk(d))
    /\ ended \in {"none", "more"} \cup Directions

ForEach(value) == [k \in Links |-> [d \in Directions |-> value]]

\* A program has connected to one of the client's listeners: the HTTP proxy (handleConnect
\* first reads a request) or the port (pipe dials at once).
Init ==
    /\ phase \in [client : {"request", "dial"}, backend : {"none"}]
    /\ wire = ForEach(<<>>)
    /\ fin = ForEach("none")
    /\ deaf = ForEach(FALSE)
    /\ prefix = <<>>
    /\ pump = [b \in Bridges |->
                 [d \in Directions |-> [at |-> "off", held |-> <<>>, last |-> FALSE]]]
    /\ errc = [b \in Bridges |-> 0]
    /\ sent = [d \in Directions |-> 0]
    /\ got = [d \in Directions |-> <<>>]
    /\ ended = "none"

----------------------------------------------------------------------------
(* Connections.                                                            *)

Reverse(d) == IF d = "up" THEN "down" ELSE "up"

\* The connections a pump reads from and writes to, and those a bridge closes, in
\* the order of its deferred calls.
From(b, d) == CASE b = "client" /\ d = "up" -> "local"
                [] b = "backend" /\ d = "down" -> "remote"
                [] OTHER -> "ws"
To(b, d) == From(b, Reverse(d))
First(b) == IF b = "client" THEN "ws" ELSE "remote"
Second(b) == IF b = "client" THEN "local" ELSE "ws"

\* The direction in which bridge b receives on connection k.
Inward(b, k) == IF From(b, "up") = k THEN "up" ELSE "down"

\* A write waits while what was written is not taken.
Room(k, d) == Len(wire[k][d]) < Capacity

\* The end of connection k that receives in direction d is closed: what it has not
\* read is gone, what it has written is followed by the end of the stream, or cut
\* short by a reset if something was unread.
CloseEnd(k, d) ==
    LET out == Reverse(d)
        reset == wire[k][d] # <<>>
    IN  /\ deaf' = [deaf EXCEPT ![k][d] = TRUE]
        /\ fin' = [fin EXCEPT ![k][out] = IF reset THEN "reset" ELSE IF @ = "none" THEN "fin" ELSE @]
        /\ \E n \in 0..Len(wire[k][out]) :
             /\ reset \/ n = Len(wire[k][out])
             /\ wire' = [wire EXCEPT ![k][d] = <<>>, ![k][out] = SubSeq(@, 1, n)]

\* A chunk written to an end that is closed is lost, and answered by a reset.
LostOn(k, d) ==
    LET out == Reverse(d)
    IN  /\ fin' = [fin EXCEPT ![k][out] = "reset"]
        /\ \E n \in 0..Len(wire[k][out]) : wire' = [wire EXCEPT ![k][out] = SubSeq(@, 1, n)]
        /\ UNCHANGED deaf

PutOn(k, d, chunk) ==
    /\ wire' = [wire EXCEPT ![k][d] = Append(@, chunk)]
    /\ UNCHANGED <<fin, deaf>>

----------------------------------------------------------------------------
(* The programs at the two ends.                                           *)

Ends(cause) == ended' = IF ended \in {"none", cause} THEN cause ELSE "more"

Near(d) == IF d = "up" THEN "local" ELSE "remote"
Far(d) == IF d = "up" THEN "remote" ELSE "local"

\* The connection of direction d's sender exists.
Made(d) == d = "up" \/ pump["backend"]["up"].at # "off"

Sends(d) ==
    /\ Made(d) /\ fin[Near(d)][d] = "none"
    /\ sent[d] < MaxSend[d]
    /\ sent' = [sent EXCEPT ![d] = @ + 1]
    /\ IF deaf[Near(d)][d]
         THEN LostOn(Near(d), d)
         ELSE Room(Near(d), d) /\ PutOn(Near(d), d, sent[d] + 1)
    /\ UNCHANGED <<mainVars, pump, errc, got, ended>>

Receives(d) ==
    /\ wire[Far(d)][d] # <<>>
    /\ got' = [got EXCEPT ![d] = Append(@, Head(wire[Far(d)][d]))]
    /\ wire' = [wire EXCEPT ![Far(d)][d] = Tail(@)]
    /\ UNCHANGED <<mainVars, fin, deaf, pump, errc, sent, ended>>

\* shutdown(SHUT_WR): no more is sent, more may be received.
HalfCloses(d) ==
    /\ Made(d) /\ fin[Near(d)][d] = "none"
    /\ fin' = [fin EXCEPT ![Near(d)][d] = "fin"]
    /\ Ends(d)
    /\ UNCHANGED <<mainVars, wire, deaf, pump, errc, sent, got>>

Closes(d) ==
    /\ Made(d) /\ ~deaf[Near(d)][Reverse(d)]
    /\ CloseEnd(Near(d), Reverse(d))
    /\ Ends(d)
    /\ UNCHANGED <<mainVars, pump, errc, sent, got>>

\* The WebSocket's connection breaks.
Breaks ==
    /\ phase["backend"] # "none" /\ fin["ws"] # [d \in Directions |-> "reset"]
    /\ fin' = [fin EXCEPT !["ws"] = [d \in Directions |-> "reset"]]
    /\ \E n \in [Directions -> 0..Capacity] :
         wire' = [wire EXCEPT !["ws"] =
                    [d \in Directions |-> SubSeq(@[d], 1, IF n[d] < Len(@[d]) THEN n[d] ELSE Len(@[d]))]]
    /\ Ends("more")
    /\ UNCHANGED <<mainVars, deaf, pump, errc, sent, got>>

----------------------------------------------------------------------------
(* The pumps.                                                              *)

Pumping(b) == pump' = [pump EXCEPT ![b] = [d \in Directions |-> [@[d] EXCEPT !.at = "read"]]]
SetPump(b, d, next) == pump' = [pump EXCEPT ![b][d] = next]
At(label) == [at |-> label, held |-> <<>>, last |-> FALSE]

\* prefixConn.Read: what was read ahead comes first.
TakesPrefixMutant(b, d) == FALSE
TakesPrefix(b, d) == b = "client" /\ d = "up" /\ prefix # <<>>

\* What follows a read that brought data and an error: the data is written first.
HoldMutant(chunk, last) ==
    IF last THEN At("fail") ELSE [at |-> "write", held |-> <<chunk>>, last |-> FALSE]
Hold(chunk, last) == [at |-> "write", held |-> <<chunk>>, last |-> last]

ReadPrefix(b, d) ==
    /\ pump[b][d].at = "read"
    /\ TakesPrefix(b, d)
    /\ SetPump(b, d, Hold(Head(prefix), FALSE))
    /\ prefix' = Tail(prefix)
    /\ UNCHANGED <<phase, linkVars, errc, endVars>>

\* A read of a TCP connection may return the last bytes together with the end.
Read(b, d) ==
    LET k == From(b, d)
    IN  /\ pump[b][d].at = "read"
        /\ ~TakesPrefix(b, d)
        /\ ~deaf[k][d] /\ wire[k][d] # <<>>
        /\ \E last \in {FALSE, k # "ws" /\ Len(wire[k][d]) = 1 /\ fin[k][d] # "none"} :
             SetPump(b, d, Hold(Head(wire[k][d]), last))
        /\ wire' = [wire EXCEPT ![k][d] = Tail(@)]
        /\ UNCHANGED <<mainVars, fin, deaf, errc, endVars>>

\* The end of the stream, an error, or a connection that this bridge has closed.
ReadFails(b, d) ==
    LET k == From(b, d)
    IN  /\ pump[b][d].at = "read"
        /\ ~TakesPrefix(b, d)
        /\ deaf[k][d] \/ (wire[k][d] = <<>> /\ fin[k][d] # "none")
        /\ SetPump(b, d, At("fail"))
        /\ UNCHANGED <<mainVars, linkVars, errc, endVars>>

\* A write blocks while the wire is full.  If the other end has closed, the chunk is
\* lost, and the error may come now or later.
Write(b, d) ==
    LET k == To(b, d)
        more == At(IF pump[b][d].last THEN "fail" ELSE "read")
    IN  /\ pump[b][d].at = "write"
        /\ \/ /\ deaf[k][Reverse(d)]
              /\ SetPump(b, d, At("fail"))
              /\ UNCHANGED linkVars
           \/ /\ ~deaf[k][Reverse(d)] /\ (deaf[k][d] \/ fin[k][d] = "reset")
              /\ SetPump(b, d, At("fail")) \/ SetPump(b, d, more)
              /\ LostOn(k, d)
           \/ /\ ~deaf[k][Reverse(d)] /\ ~deaf[k][d] /\ fin[k][d] # "reset"
              /\ Room(k, d)
              /\ PutOn(k, d, pump[b][d].held[1])
              /\ SetPump(b, d, more)
        /\ UNCHANGED <<mainVars, errc, endVars>>

\* errc has room for the results of both pumps.
ErrcRoomMutant(b) == errc[b] = 0
ErrcRoom(b) == errc[b] < 2

PumpEnds(b, d) ==
    /\ pump[b][d].at = "fail"
    /\ ErrcRoom(b)
    /\ errc' = [errc EXCEPT ![b] = @ + 1]
    /\ SetPump(b, d, At("done"))
    /\ UNCHANGED <<mainVars, linkVars, endVars>>

PumpStep(b, d) ==
    ReadPrefix(b, d) \/ Read(b, d) \/ ReadFails(b, d) \/ Write(b, d) \/ PumpEnds(b, d)

----------------------------------------------------------------------------
(* The main goroutines.                                                    *)

Enter(b, label) == phase' = [phase EXCEPT ![b] = label]

\* handleConnect reads the request, and with it some of what follows.
ReadRequest ==
    /\ phase["client"] = "request"
    /\ \E n \in 0..Len(wire["local"]["up"]) :
         /\ prefix' = SubSeq(wire["local"]["up"], 1, n)
         /\ wire' = [wire EXCEPT !["local"]["up"] = SubSeq(@, n + 1, Len(@))]
    /\ Enter("client", "dial")
    /\ UNCHANGED <<fin, deaf, pump, errc, endVars>>

\* The WebSocket is there on both sides: the pumps start at the client, and the
\* backend dials the server.
ClientDials ==
    /\ phase["client"] = "dial"
    /\ phase' = [client |-> "bridge", backend |-> "dial"]
    /\ Pumping("client")
    /\ UNCHANGED <<prefix, linkVars, errc, endVars>>

BackendDials ==
    /\ phase["backend"] = "dial"
    /\ Enter("backend", "bridge")
    /\ Pumping("backend")
    /\ UNCHANGED <<prefix, linkVars, errc, endVars>>

\* No CONNECT request, no WebSocket, or no connection to the server: what there is
\* is closed.
DialFails(b) ==
    /\ phase[b] \in {"request", "dial"}
    /\ Enter(b, "closed")
    /\ CloseEnd(Second(b), Inward(b, Second(b)))
    /\ Ends("more")
    /\ UNCHANGED <<prefix, pump, errc, sent, got>>

\* <-errc, and the two deferred calls.
CloseFirst(b) ==
    /\ phase[b] = "bridge"
    /\ errc[b] > 0
    /\ Enter(b, "closing")
    /\ CloseEnd(First(b), Inward(b, First(b)))
    /\ UNCHANGED <<prefix, pump, errc, endVars>>

CloseSecond(b) ==
    /\ phase[b] = "closing"
    /\ Enter(b, "closed")
    /\ CloseEnd(Second(b), Inward(b, Second(b)))
    /\ UNCHANGED <<prefix, pump, errc, endVars>>

MainStep(b) == CloseFirst(b) \/ CloseSecond(b)
Dials == ReadRequest \/ ClientDials \/ BackendDials

----------------------------------------------------------------------------

Next ==
    \/ \E d \in Directions : Sends(d) \/ Receives(d) \/ HalfCloses(d) \/ Closes(d)
    \/ Breaks
    \/ \E b \in Bridges : (\E d \in Directions : PumpStep(b, d)) \/ DialFails(b) \/ MainStep(b)
    \/ Dials

Spec == Init /\ [][Next]_vars

\* Goroutines run, dials return, and the programs read what arrives.
FairSpec ==
    /\ Spec
    /\ \A b \in Bridges :
         /\ WF_vars(MainStep(b))
         /\ \A d \in Directions : WF_vars(PumpStep(b, d))
    /\ WF_vars(Dials \/ \E b \in Bridges : DialFails(b))
    /\ \A d \in Directions : WF_vars(Receives(d))

----------------------------------------------------------------------------
(* Properties.                                                             *)

\* Both programs see a growing prefix of what the other has sent, whatever closes or
\* breaks, and also what came with the CONNECT request (bridge.go:206-211).
P == INSTANCE Pipe
ActsAsPipe == P!Spec

\* If the sender of one direction is the only one that has ended anything, and the
\* other direction was not used, a receiver that sees the orderly end of the stream
\* has everything: each pump writes what it has read before it reports the end
\* (bridge.go:110-128, ws_proxy.go:48-67).
SawEnd(d) ==
    /\ fin[Far(d)][d] = "fin" /\ wire[Far(d)][d] = <<>> /\ ~deaf[Far(d)][d]
EofComplete ==
    \A d \in Directions :
        SawEnd(d) /\ ended = d /\ sent[Reverse(d)] = 0 => Len(got[d]) = sent[d]

\* What is sent arrives, unless something ends.
Delivered ==
    \A d \in Directions, n \in 1..2 :
        n <= MaxSend[d] => (sent[d] = n ~> Len(got[d]) >= n \/ ended # "none")

\* Once one side has ended or something has failed, both bridges end: no goroutine
\* and no connection is left (errc has room for both pumps, bridge.go:108, 144).
Over(b) ==
    /\ phase[b] \in {"none", "closed"}
    /\ \A d \in Directions : pump[b][d].at \in {"off", "done"}
BridgesEnd == ended # "none" ~> \A b \in Bridges : Over(b)
=============================================================================
