------------------------------- MODULE P2pNet -------------------------------
(***************************************************************************)
(* A network of sprawl nodes running the p2p layer of src/p2p/main.go      *)
(* (type P2p, lines 1-200).                                               *)
(*                                                                         *)
(* Each node runs Run(): it creates its host and Kademlia DHT, installs    *)
(* handleStream for the protocol, bootstraps the DHT, connects to its      *)
(* bootstrap peers from one goroutine each and waits for all of them,     *)
(* advertises the rendezvous string, issues one FindPeers query and then   *)
(* ranges over the returned peer channel in listenPeers, opening a stream  *)
(* to every peer and reading it; finally it blocks in select {}.          *)
(* SendToPeers(input), called from another goroutine, ranges over the     *)
(* same channel, opens a fresh stream to every peer it receives and writes *)
(* input to it.  Every stream is read by readData, which panics on a read  *)
(* error, taking the whole process down.                                   *)
(*                                                                         *)
(* Data is abstracted: a peer identity is a model value, an input is a     *)
(* model value, and the only thing the framing tells apart is whether an   *)
(* input ends with the '\n' that ReadBytes waits for (the set Lines).     *)
(* Every panic, the kill of a process and the reset of a connection by the *)
(* network are faults, at most MaxFaults of them in a behaviour; a read   *)
(* error is not a fault of its own but the consequence of one.            *)
(***************************************************************************)
EXTENDS Naturals, FiniteSets

CONSTANTS
    Node,           \* peer identities
    BootstrapPeers, \* BootstrapPeers[n]: the bootstrap peers in n's config
    Msg,            \* inputs given to SendToPeers
    Lines,          \* the inputs that end with '\n'
    NoMsg,          \* the stream carries no input
    Senders,        \* the nodes whose application calls SendToPeers
    MaxSends,       \* bound on SendToPeers calls per node
    MaxFaults       \* bound on faults per behaviour

ASSUME BootstrapAssumption == BootstrapPeers \in [Node -> SUBSET Node]
ASSUME SendersAssumption == Senders \subseteq Node
ASSUME MsgAssumption == Lines \subseteq Msg /\ NoMsg \notin Msg
ASSUME BoundsAssumption == MaxSends \in Nat /\ MaxFaults \in Nat

VARIABLES
    pc,         \* pc[n]: the step of Run() node n is at (kept after a crash)
    crash,      \* crash[n]: "none" while n's process runs, else the cause
    dialing,    \* dialing[n]: bootstrap peers whose connect goroutine runs
    conns,      \* open libp2p connections, as sets {n, q}
    ads,        \* nodes whose rendezvous advertisement is in the DHT
    chan,       \* chan[n]: peers still buffered in n's FindPeers channel
    found,      \* history: found[n] is what n's FindPeers query returned
    snd,        \* snd[n]: the SendToPeers goroutine of n
    sent,       \* sent[n]: number of SendToPeers calls made on n
    streams,    \* every stream opened so far, by StreamKey
    faults      \* number of faults so far

vars == <<pc, crash, dialing, conns, ads, chan, found, snd, sent, streams,
          faults>>

RunStep == {"start", "handler", "connect", "find", "listen", "serving"}

Cause == {"none", "setup", "write", "killed", "read"}

SendState == {"idle", "ranging", "blocked"}

Stream == [src : Node, dst : Node, kind : {"listen", "send"},
           msg : Msg \cup {NoMsg}, flushed : BOOLEAN, got : BOOLEAN,
           reset : BOOLEAN]

(* A stream is named by its source, destination and the call that opened *)
(* it: 0 for listenPeers, c for the c-th SendToPeers call of the source.   *)
(* Each of them opens at most one stream per peer.                        *)
StreamKey == Node \X Node \X (0..MaxSends)

Alive(n) == crash[n] = "none"

(* The host exists once createHost has returned. *)
HostUp(n) == Alive(n) /\ pc[n] # "start"

(* SetStreamHandler has run, so an inbound stream gets handleStream. *)
HasHandler(n) == pc[n] \notin {"start", "handler"}

(* p2p.peerChan is no longer nil once findPeers has assigned it. *)
ChanMade(n) == pc[n] \in {"listen", "serving"}

(* n has a live DHT peer to publish to and query. *)
Connected(n) == \E q \in Node : {n, q} \in conns /\ Alive(q)

(* host.NewStream(ctx, p, ProtocolID) from n succeeds: p is not n (the    *)
(* swarm refuses to dial itself) and p runs with its handler installed.   *)
NewStreamOk(n, p) == p # n /\ Alive(p) /\ HasHandler(p)

(* The endpoints that run readData on a stream: listenPeers reads its own  *)
(* streams, and handleStream reads every inbound one.                      *)
Readers(s) == IF s.kind = "listen" THEN {s.src, s.dst} ELSE {s.dst}

(* A stream whose connection is gone: reset, or an endpoint's process died. *)
Broken(s) == s.reset \/ ~Alive(s.src) \/ ~Alive(s.dst)

OpenStream(n, p, kind) ==
    [src |-> n, dst |-> p, kind |-> kind, msg |-> NoMsg, flushed |-> FALSE,
     got |-> FALSE, reset |-> FALSE]

(* The stream s is opened under key k. *)
AddStream(k, s) ==
    [x \in DOMAIN streams \cup {k} |-> IF x = k THEN s ELSE streams[x]]

(* Mutant: writeData writes into the bufio.Writer but never flushes it. *)
writeDataNoFlush(s, input) == [s EXCEPT !.msg = input]

(* writeData: writer.Write(input) then writer.Flush(); the bytes are on    *)
(* the wire.                                                              *)
writeData(s, input) == [s EXCEPT !.msg = input, !.flushed = TRUE]

(* A fault takes node n down with the given cause. *)
Fail(n, cause) ==
    /\ faults < MaxFaults
    /\ crash' = [crash EXCEPT ![n] = cause]
    /\ faults' = faults + 1

(* Node n's Run goroutine moves from step from to step to. *)
Step(n, from, to) ==
    /\ Alive(n)
    /\ pc[n] = from
    /\ pc' = [pc EXCEPT ![n] = to]

Init ==
    /\ pc = [n \in Node |-> "start"]
    /\ crash = [n \in Node |-> "none"]
    /\ dialing = [n \in Node |-> {}]
    /\ conns = {}
    /\ ads = {}
    /\ chan = [n \in Node |-> {}]
    /\ found = [n \in Node |-> {}]
    /\ snd = [n \in Node |-> [st |-> "idle", msg |-> NoMsg, tried |-> {}]]
    /\ sent = [n \in Node |-> 0]
    /\ streams = [k \in {} |-> OpenStream(k[1], k[2], "listen")]
    /\ faults = 0

-----------------------------------------------------------------------------
(* Run: createConfig, createContext, createHost, createKademliaDHT; a    *)
(* flag-parsing, listen or DHT error panics.  The host exists from here.  *)
Start(n) ==
    \/ /\ Step(n, "start", "handler")
       /\ UNCHANGED <<crash, faults>>
    \/ /\ Alive(n) /\ pc[n] = "start"
       /\ Fail(n, "setup")
       /\ UNCHANGED pc
    /\ UNCHANGED <<dialing, conns, ads, chan, found, snd, sent, streams>>

(* Run: host.SetStreamHandler(ProtocolID, handleStream); bootstrapDHT,    *)
(* whose error panics; then getPeerAddresses starts one connect goroutine *)
(* per configured bootstrap peer (wg.Add(1) each).                        *)
Bootstrap(n) ==
    \/ /\ Step(n, "handler", "connect")
       /\ dialing' = [dialing EXCEPT ![n] = BootstrapPeers[n]]
       /\ UNCHANGED <<crash, faults>>
    \/ /\ Alive(n) /\ pc[n] = "handler"
       /\ Fail(n, "setup")
       /\ UNCHANGED <<pc, dialing>>
    /\ UNCHANGED <<conns, ads, chan, found, snd, sent, streams>>

(* Mutant: the error path of the connect goroutine returns without       *)
(* wg.Done(), so p stays in dialing.                                      *)
ConnectNoDone(n, p) ==
    /\ Alive(n)
    /\ pc[n] = "connect"
    /\ p \in dialing[n]
    /\ p # n /\ HostUp(p)
    /\ dialing' = [dialing EXCEPT ![n] = @ \ {p}]
    /\ conns' = conns \cup {{n, p}}
    /\ UNCHANGED <<pc, crash, ads, chan, found, snd, sent, streams, faults>>

(* The connect goroutine of bootstrap peer p: host.Connect either succeeds *)
(* (p's host is up) or fails and is printed; either way wg.Done().        *)
Connect(n, p) ==
    /\ Alive(n)
    /\ pc[n] = "connect"
    /\ p \in dialing[n]
    /\ dialing' = [dialing EXCEPT ![n] = @ \ {p}]
    /\ \/ /\ p # n /\ HostUp(p)
          /\ conns' = conns \cup {{n, p}}
       \/ UNCHANGED conns
    /\ UNCHANGED <<pc, crash, ads, chan, found, snd, sent, streams, faults>>

(* Run: wg.Wait() returns once every connect goroutine is done; then      *)
(* createRoutingDiscovery and advertise, which starts the background      *)
(* advertising goroutine and returns at once.                             *)
Advertise(n) ==
    /\ dialing[n] = {}
    /\ Step(n, "connect", "find")
    /\ UNCHANGED <<crash, dialing, conns, ads, chan, found, snd, sent,
                   streams, faults>>

(* The advertising goroutine publishes n under the rendezvous string,     *)
(* which needs a live DHT peer.                                           *)
Publish(n) ==
    /\ Alive(n)
    /\ pc[n] \in {"find", "listen", "serving"}
    /\ n \notin ads
    /\ Connected(n)
    /\ ads' = ads \cup {n}
    /\ UNCHANGED <<pc, crash, dialing, conns, chan, found, snd, sent,
                   streams, faults>>

(* Run: findPeers.  The query returns the peers advertised by then (none *)
(* without a live DHT peer, possibly n itself) on p2p.peerChan, which     *)
(* closes after the last one.  Which peers have published by the time of  *)
(* the query is left to the interleaving of Publish.  An error panics.    *)
Discovered(n) == IF Connected(n) THEN ads ELSE {}

FindPeers(n) ==
    \/ /\ Step(n, "find", "listen")
       /\ chan' = [chan EXCEPT ![n] = Discovered(n)]
       /\ found' = [found EXCEPT ![n] = Discovered(n)]
       /\ UNCHANGED <<crash, faults>>
    \/ /\ Alive(n) /\ pc[n] = "find"
       /\ Fail(n, "setup")
       /\ UNCHANGED <<pc, chan, found>>
    /\ UNCHANGED <<dialing, conns, ads, snd, sent, streams>>

(* listenPeers receives peer p from p2p.peerChan: it skips itself, and     *)
(* otherwise opens a stream to p (a failure is skipped) and reads it in a *)
(* readData goroutine; p's handleStream reads the other end.              *)
ListenPeer(n, p) ==
    /\ Alive(n)
    /\ pc[n] = "listen"
    /\ p \in chan[n]
    /\ chan' = [chan EXCEPT ![n] = @ \ {p}]
    /\ \/ /\ p # n
          /\ NewStreamOk(n, p)
          /\ streams' = AddStream(<<n, p, 0>>, OpenStream(n, p, "listen"))
          /\ conns' = conns \cup {{n, p}}
       \/ UNCHANGED <<streams, conns>>
    /\ UNCHANGED <<pc, crash, dialing, ads, found, snd, sent, faults>>

(* The peer channel is closed and drained: listenPeers returns and Run    *)
(* blocks in select {} for ever.                                          *)
ListenEnd(n) ==
    /\ chan[n] = {}
    /\ Step(n, "listen", "serving")
    /\ UNCHANGED <<crash, dialing, conns, ads, chan, found, snd, sent,
                   streams, faults>>

(* SendToPeers(input) is called on n.  It ranges over the p2p.peerChan it *)
(* was handed at the call: while that is still nil the range blocks for   *)
(* ever.                                                                  *)
SendToPeers(n, input) ==
    /\ n \in Senders
    /\ Alive(n)
    /\ snd[n].st = "idle"
    /\ sent[n] < MaxSends
    /\ snd' = [snd EXCEPT ![n] = [st |-> IF ChanMade(n) THEN "ranging"
                                                        ELSE "blocked",
                                  msg |-> input, tried |-> {}]]
    /\ sent' = [sent EXCEPT ![n] = @ + 1]
    /\ UNCHANGED <<pc, crash, dialing, conns, ads, chan, found, streams,
                   faults>>

(* sendToPeers receives peer p from the channel: it skips itself, skips a *)
(* peer NewStream fails on, and otherwise writes the input to a new       *)
(* stream with writeData, whose write or flush error panics.              *)
SendPeer(n, p) ==
    /\ Alive(n)
    /\ snd[n].st = "ranging"
    /\ p \in chan[n]
    /\ chan' = [chan EXCEPT ![n] = @ \ {p}]
    /\ snd' = [snd EXCEPT ![n].tried = @ \cup {p}]
    /\ \/ /\ p # n
          /\ NewStreamOk(n, p)
          /\ streams' = AddStream(<<n, p, sent[n]>>,
                               writeData(OpenStream(n, p, "send"), snd[n].msg))
          /\ conns' = conns \cup {{n, p}}
          /\ UNCHANGED <<crash, faults>>
       \/ /\ p # n
          /\ NewStreamOk(n, p)
          /\ streams' = AddStream(<<n, p, sent[n]>>,
                          [OpenStream(n, p, "send") EXCEPT !.msg = snd[n].msg])
          /\ conns' = conns \cup {{n, p}}
          /\ Fail(n, "write")
       \/ UNCHANGED <<streams, conns, crash, faults>>
    /\ UNCHANGED <<pc, dialing, ads, found, sent>>

(* The channel is closed and drained: SendToPeers returns. *)
SendDone(n) ==
    /\ Alive(n)
    /\ snd[n].st = "ranging"
    /\ chan[n] = {}
    /\ snd' = [snd EXCEPT ![n].st = "idle"]
    /\ UNCHANGED <<pc, crash, dialing, conns, ads, chan, found, sent, streams,
                   faults>>

(* readData on the receiving end of stream i: ReadBytes('\n') returns the *)
(* input once the whole line has arrived.                                 *)
ReadLine(i) ==
    LET s == streams[i] IN
    /\ Alive(s.dst)
    /\ s.flushed
    /\ s.msg \in Lines
    /\ ~s.got
    /\ ~s.reset
    /\ streams' = [streams EXCEPT ![i].got = TRUE]
    /\ UNCHANGED <<pc, crash, dialing, conns, ads, chan, found, snd, sent,
                   faults>>

(* readData of reader r on a broken stream: ReadBytes returns an error    *)
(* and readData panics, which ends r's whole process.                     *)
ReadError(i, r) ==
    LET s == streams[i] IN
    /\ r \in Readers(s)
    /\ Alive(r)
    /\ Broken(s)
    /\ crash' = [crash EXCEPT ![r] = "read"]
    /\ UNCHANGED <<pc, dialing, conns, ads, chan, found, snd, sent, streams,
                   faults>>

(* The process of n is killed. *)
Kill(n) ==
    /\ Alive(n)
    /\ Fail(n, "killed")
    /\ UNCHANGED <<pc, dialing, conns, ads, chan, found, snd, sent, streams>>

(* The network resets the connection carrying stream i. *)
Reset(i) ==
    /\ ~streams[i].reset
    /\ faults < MaxFaults
    /\ streams' = [streams EXCEPT ![i].reset = TRUE]
    /\ faults' = faults + 1
    /\ UNCHANGED <<pc, crash, dialing, conns, ads, chan, found, snd, sent>>

(* The steps of node n's Run goroutine. *)
Run(n) ==
    \/ Start(n)
    \/ Bootstrap(n)
    \/ Advertise(n)
    \/ FindPeers(n)
    \/ \E p \in Node : ListenPeer(n, p)
    \/ ListenEnd(n)

(* The steps of node n's SendToPeers goroutine once called. *)
Send(n) ==
    \/ \E p \in Node : SendPeer(n, p)
    \/ SendDone(n)

Next ==
    \/ \E n \in Node :
         \/ Run(n)
         \/ \E p \in Node : Connect(n, p)
         \/ Publish(n)
         \/ \E m \in Msg : SendToPeers(n, m)
         \/ Send(n)
         \/ Kill(n)
    \/ \E i \in DOMAIN streams :
         \/ ReadLine(i)
         \/ \E r \in Node : ReadError(i, r)
         \/ Reset(i)

(* Every goroutine that can run eventually does: the Run goroutine, the   *)
(* connect goroutines, the advertising goroutine, a running SendToPeers   *)
(* and the readers of streams with data.  Calls to SendToPeers, kills and *)
(* resets come from the environment and are never forced.                 *)
Fairness ==
    /\ \A n \in Node :
         /\ WF_vars(Run(n))
         /\ \A p \in Node : WF_vars(Connect(n, p))
         /\ WF_vars(Publish(n))
         /\ WF_vars(Send(n))
    /\ WF_vars(\E i \in DOMAIN streams : ReadLine(i))

Spec == Init /\ [][Next]_vars /\ Fairness

-----------------------------------------------------------------------------
TypeOK ==
    /\ pc \in [Node -> RunStep]
    /\ crash \in [Node -> Cause]
    /\ dialing \in [Node -> SUBSET Node]
    /\ conns \subseteq SUBSET Node
    /\ ads \subseteq Node
    /\ chan \in [Node -> SUBSET Node]
    /\ found \in [Node -> SUBSET Node]
    /\ snd \in [Node -> [st : SendState, msg : Msg \cup {NoMsg},
                         tried : SUBSET Node]]
    /\ sent \in [Node -> 0..MaxSends]
    /\ DOMAIN streams \subseteq StreamKey
    /\ \A k \in DOMAIN streams : streams[k] \in Stream
    /\ faults \in 0..MaxFaults

(* Run's setup does not hang: every node either reaches select {} or      *)
(* dies, whatever its bootstrap connects and its DHT query return.        *)
StartupCompletes ==
    \A n \in Node : <>(pc[n] = "serving" \/ ~Alive(n))

Written(i) ==
    /\ i \in DOMAIN streams
    /\ streams[i].kind = "send"
    /\ streams[i].msg \in Lines

Settled(i) == i \in DOMAIN streams /\ (streams[i].got \/ Broken(streams[i]))

(* A line SendToPeers wrote to a peer is read by the peer's readData       *)
(* unless the stream breaks.                                              *)
LineDelivered ==
    \A i \in StreamKey : Written(i) ~> Settled(i)

(* A broadcast is offered every peer discovery found (spec 4.5: every     *)
(* reachable member of the channel receives it): when SendToPeers has     *)
(* returned, it has received every peer of the FindPeers result but n.    *)
BroadcastOffersFound ==
    \A n \in Node :
        snd[n].st = "idle" /\ sent[n] > 0 => found[n] \ {n} \subseteq snd[n].tried

(* A SendToPeers call returns (or its process dies). *)
SendReturns ==
    \A n \in Node : snd[n].st # "idle" ~> (snd[n].st = "idle" \/ ~Alive(n))

(* Discovery is continuous (spec 4.2: a lazy, unbounded sequence of the   *)
(* peers the network reveals, for every one of which a stream is opened): *)
(* every other node that has advertised the rendezvous string is, while   *)
(* both stay up, eventually among the peers n's findPeers has returned.    *)
PeersDiscovered ==
    \A n, q \in Node :
        n # q /\ q \in ads ~> q \in found[n] \/ ~Alive(n) \/ ~Alive(q)

(* A read error ends only that stream's read loop, never the process      *)
(* (spec 4.3): no node dies of a read error.                              *)
CrashContained ==
    \A n \in Node : crash[n] # "read"
=============================================================================
