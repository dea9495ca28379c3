---------------------------- MODULE P2pNetProofs ----------------------------
(***************************************************************************)
(* Proofs about the p2p network of P2pNet, for every set of nodes, every  *)
(* bootstrap configuration, every set of inputs and every bound on sends   *)
(* and faults.                                                             *)
(***************************************************************************)
EXTENDS P2pNet, TLAPS

USE BootstrapAssumption, SendersAssumption, MsgAssumption, BoundsAssumption

(* The initial state is well typed. *)
LEMMA InitTypeOK == Init => TypeOK
BY DEF Init, TypeOK, RunStep, Cause, SendState

(* A stream opened by listenPeers or SendToPeers is a well-typed stream. *)
LEMMA OpenStreamType ==
    ASSUME NEW n \in Node, NEW p \in Node, NEW kind \in {"listen", "send"},
           NEW m \in Msg
    PROVE  /\ OpenStream(n, p, kind) \in Stream
           /\ writeData(OpenStream(n, p, "send"), m) \in Stream
           /\ [OpenStream(n, p, "send") EXCEPT !.msg = m] \in Stream
BY DEF OpenStream, writeData, Stream

(* Opening a stream under a key adds that key and changes no other stream. *)
LEMMA AddStreamDef ==
    ASSUME NEW k, NEW s
    PROVE  /\ DOMAIN AddStream(k, s) = DOMAIN streams \cup {k}
           /\ AddStream(k, s)[k] = s
           /\ \A x \in DOMAIN streams \ {k} : AddStream(k, s)[x] = streams[x]
BY DEF AddStream

(* Opening a well-typed stream under a stream key keeps the streams well  *)
(* typed.                                                                 *)
LEMMA AddStreamType ==
    ASSUME TypeOK, NEW k \in StreamKey, NEW s \in Stream,
           streams' = AddStream(k, s)
    PROVE  /\ DOMAIN streams' \subseteq StreamKey
           /\ \A x \in DOMAIN streams' : streams'[x] \in Stream
<1>1. DOMAIN streams' = DOMAIN streams \cup {k}
  BY AddStreamDef
<1>2. ASSUME NEW x \in DOMAIN streams' PROVE streams'[x] \in Stream
  <2>1. CASE x = k
    BY <2>1, AddStreamDef
  <2>2. CASE x # k
    <3>1. x \in DOMAIN streams
      BY <1>1, <2>2
    <3>2. streams'[x] = streams[x]
      BY <2>2, <3>1 DEF AddStream
    <3>. QED
      BY <3>1, <3>2 DEF TypeOK
  <2>. QED
    BY <2>1, <2>2
<1>. QED
  BY <1>1, <1>2 DEF TypeOK

(* TypeOK holds in the next state when each variable keeps its type. *)
LEMMA TypeIntro ==
    ASSUME pc' \in [Node -> RunStep], crash' \in [Node -> Cause],
           dialing' \in [Node -> SUBSET Node], conns' \subseteq SUBSET Node,
           ads' \subseteq Node, chan' \in [Node -> SUBSET Node],
           found' \in [Node -> SUBSET Node],
           snd' \in [Node -> [st : SendState, msg : Msg \cup {NoMsg},
                              tried : SUBSET Node]],
           sent' \in [Node -> 0..MaxSends],
           DOMAIN streams' \subseteq StreamKey,
           \A k \in DOMAIN streams' : streams'[k] \in Stream,
           faults' \in 0..MaxFaults
    PROVE  TypeOK'
BY DEF TypeOK

(* A fault of n keeps crash and faults within their types. *)
LEMMA FailType ==
    ASSUME TypeOK, NEW n \in Node, NEW cause \in Cause, Fail(n, cause)
    PROVE  crash' \in [Node -> Cause] /\ faults' \in 0..MaxFaults
BY DEF TypeOK, Fail

(* A step of Run's goroutine keeps pc within its type. *)
LEMMA StepType ==
    ASSUME TypeOK, NEW n \in Node, NEW from, NEW to \in RunStep,
           Step(n, from, to)
    PROVE  pc' \in [Node -> RunStep]
BY DEF TypeOK, Step

-----------------------------------------------------------------------------
(* The steps of Run's goroutine up to findPeers change no stream. *)
LEMMA StartTypeOK ==
    ASSUME TypeOK, NEW n \in Node, Start(n)
    PROVE  TypeOK'
<1>1. CASE Step(n, "start", "handler") /\ UNCHANGED <<crash, faults>>
  <2>1. pc' \in [Node -> RunStep]
    BY <1>1, StepType DEF TypeOK, RunStep
  <2>. QED
    BY <1>1, <2>1, TypeIntro DEF TypeOK, Start
<1>2. CASE Fail(n, "setup") /\ UNCHANGED pc
  <2>1. crash' \in [Node -> Cause] /\ faults' \in 0..MaxFaults
    BY <1>2, FailType DEF TypeOK, Cause
  <2>. QED
    BY <1>2, <2>1, TypeIntro DEF TypeOK, Start
<1>. QED
  BY <1>1, <1>2 DEF Start

LEMMA BootstrapTypeOK ==
    ASSUME TypeOK, NEW n \in Node, Bootstrap(n)
    PROVE  TypeOK'
<1>1. CASE Step(n, "handler", "connect")
           /\ dialing' = [dialing EXCEPT ![n] = BootstrapPeers[n]]
           /\ UNCHANGED <<crash, faults>>
  <2>1. pc' \in [Node -> RunStep]
    BY <1>1, StepType DEF TypeOK, RunStep
  <2>2. dialing' \in [Node -> SUBSET Node]
    BY <1>1 DEF TypeOK
  <2>. QED
    BY <1>1, <2>1, <2>2, TypeIntro DEF TypeOK, Bootstrap
<1>2. CASE Fail(n, "setup") /\ UNCHANGED <<pc, dialing>>
  <2>1. crash' \in [Node -> Cause] /\ faults' \in 0..MaxFaults
    BY <1>2, FailType DEF TypeOK, Cause
  <2>. QED
    BY <1>2, <2>1, TypeIntro DEF TypeOK, Bootstrap
<1>. QED
  BY <1>1, <1>2 DEF Bootstrap

LEMMA ConnectTypeOK ==
    ASSUME TypeOK, NEW n \in Node, NEW p \in Node, Connect(n, p)
    PROVE  TypeOK'
BY DEF TypeOK, Connect

LEMMA AdvertiseTypeOK ==
    ASSUME TypeOK, NEW n \in Node, Advertise(n)
    PROVE  TypeOK'
BY DEF TypeOK, Advertise, Step, RunStep

LEMMA PublishTypeOK ==
    ASSUME TypeOK, NEW n \in Node, Publish(n)
    PROVE  TypeOK'
BY DEF TypeOK, Publish

(* The query's result is a set of advertised nodes. *)
LEMMA FindPeersTypeOK ==
    ASSUME TypeOK, NEW n \in Node, FindPeers(n)
    PROVE  TypeOK'
<1>1. CASE Step(n, "find", "listen")
           /\ chan' = [chan EXCEPT ![n] = Discovered(n)]
           /\ found' = [found EXCEPT ![n] = Discovered(n)]
           /\ UNCHANGED <<crash, faults>>
  <2>1. pc' \in [Node -> RunStep]
    BY <1>1, StepType DEF TypeOK, RunStep
  <2>2. Discovered(n) \subseteq Node
    BY DEF TypeOK, Discovered
  <2>3. chan' \in [Node -> SUBSET Node] /\ found' \in [Node -> SUBSET Node]
    BY <1>1, <2>2 DEF TypeOK
  <2>. QED
    BY <1>1, <2>1, <2>3, TypeIntro DEF TypeOK, FindPeers
<1>2. CASE Fail(n, "setup") /\ UNCHANGED <<pc, chan, found>>
  <2>1. crash' \in [Node -> Cause] /\ faults' \in 0..MaxFaults
    BY <1>2, FailType DEF TypeOK, Cause
  <2>. QED
    BY <1>2, <2>1, TypeIntro DEF TypeOK, FindPeers
<1>. QED
  BY <1>1, <1>2 DEF FindPeers

(* listenPeers opens a stream under call number 0. *)
LEMMA ListenPeerTypeOK ==
    ASSUME TypeOK, NEW n \in Node, NEW p \in Node, ListenPeer(n, p)
    PROVE  TypeOK'
<1>1. CASE UNCHANGED <<streams, conns>>
  BY <1>1 DEF TypeOK, ListenPeer
<1>2. CASE p # n /\ NewStreamOk(n, p)
           /\ streams' = AddStream(<<n, p, 0>>, OpenStream(n, p, "listen"))
           /\ conns' = conns \cup {{n, p}}
  <2>1. <<n, p, 0>> \in StreamKey
    BY DEF StreamKey
  <2>2. OpenStream(n, p, "listen") \in Stream
    BY DEF OpenStream, Stream
  <2>3. /\ DOMAIN streams' \subseteq StreamKey
        /\ \A x \in DOMAIN streams' : streams'[x] \in Stream
    BY <1>2, <2>1, <2>2, AddStreamType
  <2>. QED
    BY <1>2, <2>3 DEF TypeOK, ListenPeer
<1>. QED
  BY <1>1, <1>2 DEF ListenPeer

LEMMA ListenEndTypeOK ==
    ASSUME TypeOK, NEW n \in Node, ListenEnd(n)
    PROVE  TypeOK'
BY DEF TypeOK, ListenEnd, Step, RunStep

LEMMA SendToPeersTypeOK ==
    ASSUME TypeOK, NEW n \in Node, NEW m \in Msg, SendToPeers(n, m)
    PROVE  TypeOK'
BY DEF TypeOK, SendToPeers, SendState

(* The record of n's SendToPeers goroutine after it receives p. *)
LEMMA TriedType ==
    ASSUME TypeOK, NEW n \in Node, NEW p \in Node,
           snd' = [snd EXCEPT ![n].tried = @ \cup {p}],
           chan' = [chan EXCEPT ![n] = @ \ {p}]
    PROVE  /\ snd' \in [Node -> [st : SendState, msg : Msg \cup {NoMsg},
                                 tried : SUBSET Node]]
           /\ chan' \in [Node -> SUBSET Node]
BY DEF TypeOK

(* sendToPeers files a stream under its call number, written and flushed *)
(* or, when the write panics, unflushed.                                   *)
LEMMA SendPeerTypeOK ==
    ASSUME TypeOK, NEW n \in Node, NEW p \in Node, SendPeer(n, p)
    PROVE  TypeOK'
<1>0. /\ snd' \in [Node -> [st : SendState, msg : Msg \cup {NoMsg},
                            tried : SUBSET Node]]
      /\ chan' \in [Node -> SUBSET Node]
      /\ UNCHANGED <<pc, dialing, ads, found, sent>>
  BY TriedType DEF TypeOK, SendPeer
<1>1. /\ <<n, p, sent[n]>> \in StreamKey
      /\ snd[n].msg \in Msg \cup {NoMsg}
      /\ conns \cup {{n, p}} \subseteq SUBSET Node
  BY DEF TypeOK, StreamKey
<1>2. CASE /\ p # n
           /\ NewStreamOk(n, p)
           /\ streams' = AddStream(<<n, p, sent[n]>>,
                                   writeData(OpenStream(n, p, "send"), snd[n].msg))
           /\ conns' = conns \cup {{n, p}}
           /\ UNCHANGED <<crash, faults>>
  <2>1. writeData(OpenStream(n, p, "send"), snd[n].msg) \in Stream
    BY <1>1 DEF writeData, OpenStream, Stream
  <2>2. /\ DOMAIN streams' \subseteq StreamKey
        /\ \A x \in DOMAIN streams' : streams'[x] \in Stream
    BY <1>1, <1>2, <2>1, AddStreamType
  <2>. QED
    BY <1>0, <1>1, <1>2, <2>2, TypeIntro DEF TypeOK
<1>3. CASE /\ p # n
           /\ NewStreamOk(n, p)
           /\ streams' = AddStream(<<n, p, sent[n]>>,
                           [OpenStream(n, p, "send") EXCEPT !.msg = snd[n].msg])
           /\ conns' = conns \cup {{n, p}}
           /\ Fail(n, "write")
  <2>1. [OpenStream(n, p, "send") EXCEPT !.msg = snd[n].msg] \in Stream
    BY <1>1 DEF OpenStream, Stream
  <2>2. /\ DOMAIN streams' \subseteq StreamKey
        /\ \A x \in DOMAIN streams' : streams'[x] \in Stream
    BY <1>1, <1>3, <2>1, AddStreamType
  <2>3. crash' \in [Node -> Cause] /\ faults' \in 0..MaxFaults
    BY <1>3, FailType DEF TypeOK, Cause
  <2>. QED
    BY <1>0, <1>1, <1>3, <2>2, <2>3, TypeIntro DEF TypeOK
<1>4. CASE UNCHANGED <<streams, conns, crash, faults>>
  BY <1>0, <1>4, TypeIntro DEF TypeOK
<1>. QED
  BY <1>2, <1>3, <1>4 DEF SendPeer

LEMMA SendDoneTypeOK ==
    ASSUME TypeOK, NEW n \in Node, SendDone(n)
    PROVE  TypeOK'
<1>1. snd' \in [Node -> [st : SendState, msg : Msg \cup {NoMsg},
                         tried : SUBSET Node]]
  <2>1. snd' = [snd EXCEPT ![n] = [snd[n] EXCEPT !.st = "idle"]]
    BY DEF SendDone
  <2>2. snd[n] \in [st : SendState, msg : Msg \cup {NoMsg}, tried : SUBSET Node]
    BY DEF TypeOK
  <2>3. [snd[n] EXCEPT !.st = "idle"]
            \in [st : SendState, msg : Msg \cup {NoMsg}, tried : SUBSET Node]
    BY <2>2 DEF SendState
  <2>. QED
    BY <2>1, <2>3 DEF TypeOK
<1>. QED
  BY <1>1, TypeIntro DEF TypeOK, SendDone

(* readData marks one stream read. *)
LEMMA ReadLineTypeOK ==
    ASSUME TypeOK, NEW i \in DOMAIN streams, ReadLine(i)
    PROVE  TypeOK'
<1>1. streams' = [streams EXCEPT ![i].got = TRUE]
  BY DEF ReadLine
<1>3. /\ DOMAIN streams' = DOMAIN streams
      /\ \A x \in DOMAIN streams' : streams'[x] \in Stream
  <2>1. DOMAIN streams' = DOMAIN streams
    BY <1>1
  <2>2. ASSUME NEW x \in DOMAIN streams'
        PROVE  streams'[x] \in Stream
    <3>1. streams[x] \in Stream
      BY <2>1 DEF TypeOK
    <3>2. CASE x = i
      <4>1. streams'[x] = [streams[i] EXCEPT !.got = TRUE]
        BY <1>1, <2>1, <3>2
      <4>. QED
        BY <3>1, <3>2, <4>1 DEF Stream
    <3>3. CASE x # i
      BY <1>1, <2>1, <3>1, <3>3
    <3>. QED
      BY <3>2, <3>3
  <2>. QED
    BY <2>1, <2>2
<1>. QED
  BY <1>3, TypeIntro DEF TypeOK, ReadLine

LEMMA ReadErrorTypeOK ==
    ASSUME TypeOK, NEW i \in DOMAIN streams, NEW r \in Node, ReadError(i, r)
    PROVE  TypeOK'
BY DEF TypeOK, ReadError, Cause

LEMMA KillTypeOK ==
    ASSUME TypeOK, NEW n \in Node, Kill(n)
    PROVE  TypeOK'
<1>1. crash' \in [Node -> Cause] /\ faults' \in 0..MaxFaults
  BY FailType DEF TypeOK, Kill, Cause
<1>. QED
  BY <1>1, TypeIntro DEF TypeOK, Kill

(* A reset changes only the reset flag of one stream. *)
LEMMA ResetTypeOK ==
    ASSUME TypeOK, NEW i \in DOMAIN streams, Reset(i)
    PROVE  TypeOK'
<1>1. streams' = [streams EXCEPT ![i].reset = TRUE]
  BY DEF Reset
<1>2. /\ DOMAIN streams' = DOMAIN streams
      /\ \A x \in DOMAIN streams' : streams'[x] \in Stream
  <2>1. DOMAIN streams' = DOMAIN streams
    BY <1>1
  <2>2. ASSUME NEW x \in DOMAIN streams'
        PROVE  streams'[x] \in Stream
    <3>1. streams[x] \in Stream
      BY <2>1 DEF TypeOK
    <3>2. CASE x = i
      <4>1. streams'[x] = [streams[i] EXCEPT !.reset = TRUE]
        BY <1>1, <2>1, <3>2
      <4>. QED
        BY <3>1, <3>2, <4>1 DEF Stream
    <3>3. CASE x # i
      BY <1>1, <2>1, <3>1, <3>3
    <3>. QED
      BY <3>2, <3>3
  <2>. QED
    BY <2>1, <2>2
<1>4. faults' \in 0..MaxFaults
  BY DEF TypeOK, Reset
<1>. QED
  BY <1>2, <1>4, TypeIntro DEF TypeOK, Reset

-----------------------------------------------------------------------------
(* Every step, or a stutter, keeps TypeOK: it is inductive on its own. *)
LEMMA NextTypeOK == TypeOK /\ [Next]_vars => TypeOK'
<1> SUFFICES ASSUME TypeOK, [Next]_vars PROVE TypeOK'
  OBVIOUS
<1>1. ASSUME NEW n \in Node, Run(n) PROVE TypeOK'
  BY <1>1, StartTypeOK, BootstrapTypeOK, AdvertiseTypeOK, FindPeersTypeOK,
     ListenPeerTypeOK, ListenEndTypeOK DEF Run
<1>2. ASSUME NEW n \in Node, Send(n) PROVE TypeOK'
  BY <1>2, SendPeerTypeOK, SendDoneTypeOK DEF Send
<1>3. CASE UNCHANGED vars
  BY <1>3 DEF vars, TypeOK
<1>. QED
  BY <1>1, <1>2, <1>3, ConnectTypeOK, PublishTypeOK, SendToPeersTypeOK, KillTypeOK,
     ReadLineTypeOK, ReadErrorTypeOK, ResetTypeOK DEF Next

(* Every reachable state of the network is well typed, for any nodes,     *)
(* bootstrap configuration, inputs and bounds.                            *)
THEOREM TypeCorrect == Spec => []TypeOK
BY InitTypeOK, NextTypeOK, PTL DEF Spec
=============================================================================
