------------------------- MODULE StreamManagerProofs -------------------------
(***************************************************************************)
(* Proofs about the stream table of StreamManager, for every set of peers *)
(* and goroutines and every bound on NewStream.                           *)
(***************************************************************************)
EXTENDS StreamManager, TLAPS

(* Every stream number in the table, in the open set or held by a call is *)
(* one NewStream has already returned.                                    *)
Counted ==
    /\ open \subseteq 1..made
    /\ \A p \in Peer : streams[p] \in (1..made) \cup {NoStream}
    /\ \A t \in Task : task[t].s \in (1..made) \cup {NoStream}

(* No stream is the entry of two peers. *)
Injective ==
    \A p, q \in Peer : p # q /\ streams[p] # NoStream => streams[p] # streams[q]

(* The stream an OpenStream call is about to put is open, in no entry and *)
(* held by no other call.  This is what keeps a concurrent CloseStream    *)
(* from closing a stream before it reaches the table: CloseStream only    *)
(* closes what it reads from it.                                          *)
PutFresh(t) ==
    /\ task[t].s \in open
    /\ \A p \in Peer : streams[p] # task[t].s
    /\ \A u \in Task \ {t} : task[u].s # task[t].s

Fresh == Counted /\ Injective /\ \A t \in Task : task[t].pc = "put" => PutFresh(t)

IInv == TypeOK /\ TableHoldsOpen /\ Fresh

USE PeerAssumption, MaxStreamsAssumption

(* No stream number is the zero Stream. *)
LEMMA NoStreamNotNat == \A n \in Nat : n # NoStream
BY PeerAssumption

(* The initial state satisfies the inductive invariant. *)
LEMMA InitIInv == Init => IInv
BY DEF Init, IInv, TypeOK, TableHoldsOpen, Fresh, Counted, Injective,
       TaskState, StreamId, Pc, Op

(* The runtime's throw only sets crash. *)
LEMMA MapThrowIInv ==
    ASSUME IInv, NEW t \in Task, MapThrow(t)
    PROVE  IInv'
BY DEF MapThrow, IInv, TypeOK, TableHoldsOpen, Closing, Fresh, Counted,
       Injective, PutFresh

(* A step that changes only writing and crash, within their types. *)
LEMMA FlagsIInv ==
    ASSUME IInv, writing' \subseteq Task, crash' \in {"none", "nil", "map"},
           UNCHANGED <<streams, open, made, task>>
    PROVE  IInv'
BY DEF IInv, TypeOK, TableHoldsOpen, Closing, Fresh, Counted, Injective,
       PutFresh

(* A step that keeps the table, closes nothing, and changes only the     *)
(* record of a goroutine t that is not closing keeps TableHoldsOpen.      *)
LEMMA TableFrame ==
    ASSUME TableHoldsOpen, NEW t \in Task,
           streams' = streams, open \subseteq open',
           \A u \in Task \ {t} : task'[u] = task[u],
           task[t].pc # "del", task'[t].pc # "del"
    PROVE  TableHoldsOpen'
<1> SUFFICES ASSUME NEW q \in Peer, streams'[q] # NoStream,
                    streams'[q] \notin open'
             PROVE  (\E u \in Task : Closing(u, q, streams[q]))'
  BY DEF TableHoldsOpen
<1>1. PICK u \in Task : Closing(u, q, streams[q])
  BY DEF TableHoldsOpen
<1>2. u # t
  BY <1>1 DEF Closing
<1>. QED
  BY <1>1, <1>2 DEF Closing

(* A call starts from an idle goroutine and touches only its own record. *)
LEMMA CallIInv ==
    ASSUME IInv, NEW t \in Task, NEW op \in Op, NEW p \in Peer, Call(t, op, p)
    PROVE  IInv'
<1>0. task[t].pc = "idle" /\ UNCHANGED <<streams, open, made, writing, crash>>
  BY DEF Call, Idle
<1>1. task'[t].pc \in {"new", "get"} /\ task'[t].s = NoStream
  BY DEF Call, TypeOK, IInv
<1>2. \A u \in Task \ {t} : task'[u] = task[u]
  BY DEF Call, TypeOK, IInv
<1>3. TypeOK'
  BY DEF Call, IInv, TypeOK, TaskState, Pc
<1>4. TableHoldsOpen'
  BY <1>0, <1>1, <1>2, TableFrame DEF IInv
<1>5. Counted' /\ Injective'
  BY <1>0, <1>1, <1>2 DEF IInv, Fresh, Counted, Injective
<1>6. ASSUME NEW u \in Task, task'[u].pc = "put" PROVE PutFresh(u)'
  <2>1. u # t /\ task'[u] = task[u]
    BY <1>1, <1>2, <1>6
  <2>2. PutFresh(u) /\ task[u].s \in 1..made
    BY <2>1, <1>6 DEF IInv, Fresh, Counted, PutFresh
  <2>3. task'[t].s # task[u].s
    BY <1>1, <2>2
  <2>. QED
    BY <1>0, <1>2, <2>1, <2>2, <2>3 DEF PutFresh
<1>. QED
  BY <1>3, <1>4, <1>5, <1>6 DEF IInv, Fresh

(* NewStream hands out made + 1, which nothing holds yet. *)
LEMMA NewStreamIInv ==
    ASSUME IInv, NEW t \in Task, NewStream(t)
    PROVE  IInv'
<1>0. task[t].pc = "new" /\ task[t] \in TaskState
  BY DEF NewStream, IInv, TypeOK
<1>1. CASE /\ made < MaxStreams
           /\ made' = made + 1
           /\ open' = open \cup {made + 1}
           /\ task' = [task EXCEPT ![t].pc = "put", ![t].s = made + 1]
           /\ UNCHANGED <<streams, writing, crash>>
  <2> DEFINE n == made + 1
  <2>1. n \in StreamId /\ n \in Nat /\ made' \in 0..MaxStreams /\ n \notin 1..made
    BY <1>1 DEF IInv, TypeOK, StreamId
  <2>2. /\ task'[t] = [task[t] EXCEPT !.pc = "put", !.s = n]
        /\ task'[t].pc = "put" /\ task'[t].s = n
    BY <1>1, <1>0 DEF IInv, TypeOK, TaskState
  <2>3. \A u \in Task \ {t} : task'[u] = task[u]
    BY <1>1 DEF IInv, TypeOK
  <2>4. [task[t] EXCEPT !.pc = "put", !.s = n] \in TaskState
    BY <1>0, <2>1 DEF TaskState, Pc
  <2>5. TypeOK'
    BY <1>1, <2>1, <2>2, <2>3, <2>4 DEF IInv, TypeOK
  <2>0. streams' = streams /\ open' = open \cup {n}
    BY <1>1
  <2>6. TableHoldsOpen'
    BY <1>0, <2>0, <2>2, <2>3, TableFrame DEF IInv
  <2>7. Counted' /\ Injective'
    BY <1>1, <2>1, <2>2, <2>3 DEF IInv, TypeOK, Fresh, Counted, Injective
  <2>8. ASSUME NEW u \in Task, task'[u].pc = "put" PROVE PutFresh(u)'
    <3>1. CASE u = t
      <4>1. \A p \in Peer : streams[p] # n
        BY <2>1 DEF IInv, Fresh, Counted
      <4>2. \A w \in Task \ {t} : task[w].s # n
        BY <2>1 DEF IInv, Fresh, Counted
      <4>. QED
        BY <3>1, <4>1, <4>2, <2>0, <2>2, <2>3 DEF PutFresh
    <3>2. CASE u # t
      <4>1. task'[u] = task[u] /\ PutFresh(u) /\ task[u].s \in 1..made
        BY <3>2, <2>3, <2>8 DEF IInv, Fresh, Counted, PutFresh
      <4>2. \A w \in Task \ {u} : task'[w].s # task[u].s
        BY <4>1, <2>1, <2>2, <2>3 DEF PutFresh
      <4>. QED
        BY <4>1, <4>2, <3>2, <2>0 DEF PutFresh
    <3>. QED
      BY <3>1, <3>2
  <2>. QED
    BY <2>5, <2>6, <2>7, <2>8 DEF IInv, Fresh, TaskState
<1>2. CASE /\ task' = [task EXCEPT ![t].pc = "idle"]
           /\ UNCHANGED <<open, made, streams, writing, crash>>
  <2>1. \A u \in Task \ {t} : task'[u] = task[u]
    BY <1>2 DEF IInv, TypeOK
  <2>2. task'[t] = [task[t] EXCEPT !.pc = "idle"] /\ task'[t].pc = "idle"
    BY <1>2, <1>0 DEF IInv, TypeOK, TaskState
  <2>3. TypeOK'
    BY <1>0, <1>2, <2>1, <2>2 DEF IInv, TypeOK, TaskState, Pc
  <2>4. TableHoldsOpen'
    BY <1>0, <1>2, <2>1, <2>2, TableFrame DEF IInv
  <2>5. Counted' /\ Injective'
    BY <1>2, <2>1, <2>2 DEF IInv, Fresh, Counted, Injective
  <2>6. ASSUME NEW u \in Task, task'[u].pc = "put" PROVE PutFresh(u)'
    <3>1. u # t /\ task'[u] = task[u]
      BY <1>0, <2>1, <2>2, <2>6 DEF TaskState
    <3>. QED
      BY <3>1, <1>2, <2>1, <2>2, <2>6 DEF IInv, Fresh, PutFresh
  <2>. QED
    BY <2>3, <2>4, <2>5, <2>6 DEF IInv, Fresh
<1>. QED
  BY <1>1, <1>2 DEF NewStream

(* Put begins a write, or ends it with the fresh open stream in p's entry. *)
LEMMA PutIInv ==
    ASSUME IInv, NEW t \in Task, Put(t)
    PROVE  IInv'
<1>1. CASE /\ t \notin writing
           /\ writing' = writing \cup {t}
           /\ UNCHANGED <<streams, open, made, task, crash>>
  BY <1>1, FlagsIInv DEF IInv, TypeOK
<1>2. CASE /\ t \in writing
           /\ streams' = [streams EXCEPT ![task[t].peer] = task[t].s]
           /\ writing' = writing \ {t}
           /\ task' = [task EXCEPT ![t].pc = "idle"]
           /\ UNCHANGED <<open, made, crash>>
  <2> DEFINE p == task[t].peer
  <2> DEFINE n == task[t].s
  <2>0. task[t].pc = "put" /\ task[t] \in TaskState /\ p \in Peer
    BY DEF Put, IInv, TypeOK, TaskState
  <2>1. PutFresh(t) /\ n \in 1..made
    BY <2>0 DEF IInv, Fresh, Counted, PutFresh
  <2>2. \A u \in Task \ {t} : task'[u] = task[u]
    BY <1>2 DEF IInv, TypeOK
  <2>3. task'[t] = [task[t] EXCEPT !.pc = "idle"] /\ task'[t].pc = "idle"
    BY <1>2, <2>0 DEF IInv, TypeOK, TaskState
  <2>4. streams'[p] = n /\ \A q \in Peer \ {p} : streams'[q] = streams[q]
    BY <1>2, <2>0 DEF IInv, TypeOK
  <2>5. TypeOK'
    BY <1>2, <2>0, <2>1, <2>2, <2>3, <2>4 DEF IInv, TypeOK, TaskState, Pc,
                                              StreamId
  <2>6. TableHoldsOpen'
    BY <1>2, <2>0, <2>1, <2>2, <2>3, <2>4 DEF IInv, TableHoldsOpen, Closing,
                                              PutFresh
  <2>7. Counted'
    BY <1>2, <2>1, <2>2, <2>3, <2>4 DEF IInv, TypeOK, Fresh, Counted
  <2>8. Injective'
    BY <1>2, <2>0, <2>1, <2>4 DEF IInv, Fresh, Injective, PutFresh
  <2>9. ASSUME NEW u \in Task, task'[u].pc = "put" PROVE PutFresh(u)'
    <3>1. u # t /\ task'[u] = task[u] /\ PutFresh(u)
      BY <2>0, <2>2, <2>3, <2>9 DEF IInv, Fresh, TaskState
    <3>2. task[u].s # n
      BY <3>1, <2>1 DEF PutFresh
    <3>. QED
      BY <3>1, <3>2, <1>2, <2>0, <2>2, <2>3, <2>4 DEF PutFresh
  <2>. QED
    BY <2>5, <2>6, <2>7, <2>8, <2>9 DEF IInv, Fresh, TaskState
<1>. QED
  BY <1>1, <1>2, MapThrowIInv DEF Put

(* Get closes the stream it reads from the entry and keeps it as its own. *)
LEMMA GetIInv ==
    ASSUME IInv, NEW t \in Task, Get(t)
    PROVE  IInv'
<1>1. CASE /\ streams[task[t].peer] = NoStream
           /\ crash' = "nil"
           /\ UNCHANGED <<streams, open, made, task, writing>>
  BY <1>1, FlagsIInv DEF IInv, TypeOK
<1>2. CASE /\ streams[task[t].peer] # NoStream
           /\ open' = open \ {streams[task[t].peer]}
           /\ task' = [task EXCEPT ![t].pc = "del",
                                   ![t].s = streams[task[t].peer]]
           /\ UNCHANGED <<streams, made, writing, crash>>
  <2> DEFINE p == task[t].peer
  <2> DEFINE n == streams[p]
  <2>0. task[t].pc = "get" /\ task[t] \in TaskState /\ p \in Peer
    BY DEF Get, IInv, TypeOK, TaskState
  <2>1. n \in 1..made /\ streams' = streams /\ open' = open \ {n}
    BY <1>2, <2>0 DEF IInv, Fresh, Counted
  <2>2. \A u \in Task \ {t} : task'[u] = task[u]
    BY <1>2 DEF IInv, TypeOK
  <2>3. /\ task'[t] = [task[t] EXCEPT !.pc = "del", !.s = n]
        /\ task'[t].pc = "del" /\ task'[t].s = n /\ task'[t].peer = p
    BY <1>2, <2>0 DEF IInv, TypeOK, TaskState
  <2>4. TypeOK'
    BY <1>2, <2>0, <2>1, <2>2, <2>3 DEF IInv, TypeOK, TaskState, Pc, StreamId
  <2>5. \A q \in Peer \ {p} : streams[q] # n
    BY <1>2, <2>0 DEF IInv, Fresh, Injective
  <2>6. ASSUME NEW q \in Peer, streams'[q] # NoStream
        PROVE  (streams[q] \in open \/ \E u \in Task : Closing(u, q, streams[q]))'
    <3>1. CASE q = p
      <4>1. task'[t].pc = "del" /\ task'[t].peer = p /\ task'[t].s = n
        BY <2>0, <2>3
      <4>. QED
        BY <3>1, <4>1, <1>2 DEF Closing
    <3>2. CASE q # p
      <4>1. streams'[q] = streams[q] /\ streams[q] # n
        BY <3>2, <2>5, <1>2
      <4>2. CASE streams[q] \in open
        BY <4>1, <4>2, <1>2
      <4>3. CASE streams[q] \notin open
        <5>1. PICK u \in Task : Closing(u, q, streams[q])
          BY <4>1, <4>3, <2>6 DEF IInv, TableHoldsOpen
        <5>2. u # t
          BY <5>1, <2>0 DEF Closing
        <5>. QED
          BY <5>1, <5>2, <4>1, <2>2 DEF Closing
      <4>. QED
        BY <4>2, <4>3
    <3>. QED
      BY <3>1, <3>2
  <2>9. TableHoldsOpen'
    BY <2>6 DEF TableHoldsOpen
  <2>7. Counted' /\ Injective'
    BY <1>2, <2>1, <2>2, <2>3 DEF IInv, TypeOK, Fresh, Counted, Injective
  <2>8. ASSUME NEW u \in Task, task'[u].pc = "put" PROVE PutFresh(u)'
    <3>1. u # t /\ task'[u] = task[u] /\ PutFresh(u)
      BY <2>0, <2>2, <2>3, <2>8 DEF IInv, Fresh, TaskState
    <3>2. task[u].s # n
      BY <3>1, <2>0 DEF PutFresh
    <3>. QED
      BY <3>1, <3>2, <2>1, <2>2, <2>3 DEF PutFresh
  <2>. QED
    BY <2>4, <2>9, <2>7, <2>8 DEF IInv, Fresh, TaskState
<1>. QED
  BY <1>1, <1>2, MapThrowIInv DEF Get

(* Del begins a write, or ends it with p's entry removed. *)
LEMMA DelIInv ==
    ASSUME IInv, NEW t \in Task, Del(t)
    PROVE  IInv'
<1>1. CASE /\ t \notin writing
           /\ writing' = writing \cup {t}
           /\ UNCHANGED <<streams, open, made, task, crash>>
  BY <1>1, FlagsIInv DEF IInv, TypeOK
<1>2. CASE /\ t \in writing
           /\ streams' = [streams EXCEPT ![task[t].peer] = NoStream]
           /\ writing' = writing \ {t}
           /\ task' = [task EXCEPT ![t].pc = "idle"]
           /\ UNCHANGED <<open, made, crash>>
  <2> DEFINE p == task[t].peer
  <2>0. task[t].pc = "del" /\ task[t] \in TaskState /\ p \in Peer
    BY DEF Del, IInv, TypeOK, TaskState
  <2>2. \A u \in Task \ {t} : task'[u] = task[u]
    BY <1>2 DEF IInv, TypeOK
  <2>3. task'[t] = [task[t] EXCEPT !.pc = "idle"] /\ task'[t].pc = "idle"
    BY <1>2, <2>0 DEF IInv, TypeOK, TaskState
  <2>4. streams'[p] = NoStream /\ \A q \in Peer \ {p} : streams'[q] = streams[q]
    BY <1>2, <2>0 DEF IInv, TypeOK
  <2>5. TypeOK'
    BY <1>2, <2>0, <2>2, <2>3, <2>4 DEF IInv, TypeOK, TaskState, Pc
  <2>6. TableHoldsOpen'
    BY <1>2, <2>0, <2>2, <2>3, <2>4 DEF IInv, TableHoldsOpen, Closing
  <2>7. Counted' /\ Injective'
    BY <1>2, <2>2, <2>3, <2>4 DEF IInv, TypeOK, Fresh, Counted, Injective
  <2>8. ASSUME NEW u \in Task, task'[u].pc = "put" PROVE PutFresh(u)'
    <3>1. u # t /\ task'[u] = task[u] /\ PutFresh(u)
      BY <2>0, <2>2, <2>3, <2>8 DEF IInv, Fresh, TaskState
    <3>2. task[u].s \in 1..made
      BY <3>1 DEF PutFresh, IInv, Fresh, Counted
    <3>. QED
      BY <3>1, <3>2, <1>2, <2>0, <2>2, <2>3, <2>4 DEF PutFresh
  <2>. QED
    BY <2>5, <2>6, <2>7, <2>8 DEF IInv, Fresh, TaskState
<1>. QED
  BY <1>1, <1>2, MapThrowIInv DEF Del

(* Every step keeps the inductive invariant. *)
LEMMA NextIInv == IInv /\ [Next]_vars => IInv'
<1> SUFFICES ASSUME IInv, [Next]_vars PROVE IInv'
  OBVIOUS
<1>1. CASE UNCHANGED vars
  BY <1>1 DEF vars, IInv, TypeOK, TableHoldsOpen, Closing, Fresh, Counted,
              Injective, PutFresh
<1>. QED
  BY <1>1, CallIInv, NewStreamIInv, PutIInv, GetIInv, DelIInv DEF Next

(* Every reachable state of the stream table is well typed. *)
THEOREM TypeCorrect == Spec => []TypeOK
<1>1. IInv => TypeOK
  BY DEF IInv
<1>. QED
  BY <1>1, InitIInv, NextIInv, PTL DEF Spec

(* The stream table never hands out a dead stream: in every reachable     *)
(* state, however the steps of concurrent OpenStream and CloseStream      *)
(* calls interleave, each peer's entry is an open stream or one a         *)
(* CloseStream has closed and is about to delete.                         *)
THEOREM TableHoldsOpenHolds == Spec => []TableHoldsOpen
<1>1. IInv => TableHoldsOpen
  BY DEF IInv
<1>. QED
  BY <1>1, InitIInv, NextIInv, PTL DEF Spec
-----------------------------------------------------------------------------
(* Refinement of StreamRegistry.                                          *)

(* A CloseStream between its Close and its delete holds a stream that     *)
(* NewStream returned and that is no longer open.  This is why a second   *)
(* CloseStream of the same entry changes nothing the registry shows.      *)
ClosedInv ==
    \A u \in Task : task[u].pc = "del" => task[u].s \in (1..made) \ open

RVars == <<RegMap, open, made>>

(* Every step keeps ClosedInv. *)
LEMMA ClosedNext ==
    ASSUME IInv, ClosedInv, [Next]_vars
    PROVE  ClosedInv'
<1> SUFFICES ASSUME NEW u \in Task, task'[u].pc = "del"
             PROVE  task'[u].s \in (1..made') \ open'
  BY DEF ClosedInv
<1>0. task \in [Task -> TaskState] /\ made \in Nat
  BY DEF IInv, TypeOK
<1>1. CASE \E t \in Task : \E op \in Op, p \in Peer : Call(t, op, p)
  BY <1>1, <1>0 DEF Call, ClosedInv, TaskState
<1>2. CASE \E t \in Task : NewStream(t)
  <2>1. PICK t \in Task : NewStream(t)
    BY <1>2
  <2>2. u # t /\ task'[u] = task[u]
    BY <2>1, <1>0 DEF NewStream, TaskState
  <2>3. /\ made' \in {made, made + 1}
        /\ open' \subseteq open \cup {made + 1}
    BY <2>1 DEF NewStream
  <2>. QED
    BY <2>2, <2>3, <1>0 DEF ClosedInv
<1>3. CASE \E t \in Task : Put(t)
  <2>1. PICK t \in Task : Put(t)
    BY <1>3
  <2>2. u # t \/ task' = task
    BY <2>1, <1>0 DEF Put, MapThrow, TaskState
  <2>. QED
    BY <2>1, <2>2, <1>0 DEF Put, MapThrow, ClosedInv
<1>4. CASE \E t \in Task : Get(t)
  <2>1. PICK t \in Task : Get(t)
    BY <1>4
  <2>2. CASE u = t
    <3>1. /\ streams[task[t].peer] # NoStream
          /\ open' = open \ {streams[task[t].peer]}
          /\ task'[t].s = streams[task[t].peer]
          /\ made' = made
      BY <2>1, <2>2, <1>0 DEF Get, MapThrow, TaskState
    <3>2. streams[task[t].peer] \in 1..made
      BY <3>1, <1>0 DEF IInv, Fresh, Counted, TaskState
    <3>. QED
      BY <3>1, <3>2, <2>2
  <2>3. CASE u # t
    BY <2>1, <2>3, <1>0 DEF Get, MapThrow, ClosedInv
  <2>. QED
    BY <2>2, <2>3
<1>5. CASE \E t \in Task : Del(t)
  <2>1. PICK t \in Task : Del(t)
    BY <1>5
  <2>2. u # t \/ task' = task
    BY <2>1, <1>0 DEF Del, MapThrow, TaskState
  <2>. QED
    BY <2>1, <2>2, <1>0 DEF Del, MapThrow, ClosedInv
<1>6. CASE UNCHANGED vars
  BY <1>6 DEF vars, ClosedInv
<1>. QED
  BY <1>1, <1>2, <1>3, <1>4, <1>5, <1>6 DEF Next

(* A step that keeps the table and in which no goroutine starts or ends a *)
(* delete keeps the registry the table stands for.                        *)
LEMMA RegMapFrame ==
    ASSUME NEW t \in Task, streams' = streams,
           \A u \in Task \ {t} : task'[u] = task[u],
           task[t].pc # "del", task'[t].pc # "del"
    PROVE  RegMap' = RegMap
<1>1. ASSUME NEW q \in Peer
      PROVE  (\E u \in Task : Closing(u, q, streams[q]))'
             <=> \E u \in Task : Closing(u, q, streams[q])
  BY DEF Closing
<1>. QED
  BY <1>1 DEF RegMap

(* The registry entry of a peer q stays as it was when q's table entry    *)
(* does and the one goroutine t whose record changes is not deleting q's  *)
(* entry before or after.                                                 *)
LEMMA RegMapAway ==
    ASSUME NEW t \in Task, NEW q \in Peer, streams'[q] = streams[q],
           \A u \in Task \ {t} : task'[u] = task[u],
           ~Closing(t, q, streams[q]), ~Closing(t, q, streams[q])'
    PROVE  RegMap'[q] = RegMap[q]
<1>1. (\E u \in Task : Closing(u, q, streams[q]))'
      <=> \E u \in Task : Closing(u, q, streams[q])
  BY DEF Closing
<1>. QED
  BY <1>1 DEF RegMap

(* A call starts without changing the registry. *)
LEMMA CallStep ==
    ASSUME IInv, NEW t \in Task, NEW op \in Op, NEW p \in Peer, Call(t, op, p)
    PROVE  UNCHANGED RVars
<1>1. task[t].pc = "idle" /\ task'[t].pc \in {"new", "get"}
  BY DEF Call, Idle, IInv, TypeOK
<1>2. \A u \in Task \ {t} : task'[u] = task[u]
  BY DEF Call, IInv, TypeOK
<1>. QED
  BY <1>1, <1>2, RegMapFrame DEF Call, RVars

(* A successful NewStream is the registry's OpenNew; a failed one changes *)
(* nothing the registry shows.                                            *)
LEMMA NewStreamStep ==
    ASSUME IInv, NEW t \in Task, NewStream(t)
    PROVE  [Registry!Next]_RVars
<1>0. task[t].pc = "new" /\ task[t] \in TaskState
  BY DEF NewStream, IInv, TypeOK
<1>1. /\ \A u \in Task \ {t} : task'[u] = task[u]
      /\ task'[t].pc \in {"put", "idle"}
  BY <1>0 DEF NewStream, IInv, TypeOK, TaskState
<1>2. RegMap' = RegMap
  BY <1>0, <1>1, RegMapFrame DEF NewStream
<1>. QED
  BY <1>2 DEF NewStream, RVars, Registry!Next, Registry!OpenNew

(* Put registers the fresh open stream under p, or changes nothing the    *)
(* registry shows.                                                        *)
LEMMA PutStep ==
    ASSUME IInv, NEW t \in Task, Put(t)
    PROVE  [Registry!Next]_RVars
<1>1. CASE UNCHANGED <<streams, open, made, task>>
  BY <1>1 DEF RVars, RegMap, Closing
<1>2. CASE /\ t \in writing
           /\ streams' = [streams EXCEPT ![task[t].peer] = task[t].s]
           /\ writing' = writing \ {t}
           /\ task' = [task EXCEPT ![t].pc = "idle"]
           /\ UNCHANGED <<open, made, crash>>
  <2> DEFINE p == task[t].peer
  <2> DEFINE n == task[t].s
  <2>0. task[t].pc = "put" /\ task[t] \in TaskState /\ p \in Peer
    BY DEF Put, IInv, TypeOK, TaskState
  <2>1. PutFresh(t) /\ n \in 1..made /\ n \in StreamId
    <3>1. PutFresh(t)
      BY <2>0 DEF IInv, Fresh
    <3>2. n \in 1..made
      BY <3>1 DEF PutFresh, IInv, Fresh, Counted
    <3>3. made \in 0..MaxStreams
      BY DEF IInv, TypeOK
    <3>. QED
      BY <3>1, <3>2, <3>3 DEF StreamId
  <2>2. \A u \in Task \ {t} : task'[u] = task[u]
    BY <1>2 DEF IInv, TypeOK
  <2>3. task'[t].pc = "idle"
    BY <1>2, <2>0 DEF IInv, TypeOK, TaskState
  <2>4. streams'[p] = n /\ \A q \in Peer \ {p} : streams'[q] = streams[q]
    BY <1>2, <2>0 DEF IInv, TypeOK
  <2>5. RegMap'[p] = n
    <3>1. \A u \in Task : ~(task'[u].pc = "del" /\ task'[u].s = n)
      BY <2>1, <2>2, <2>3 DEF PutFresh
    <3>. QED
      BY <3>1, <2>0, <2>4 DEF RegMap, Closing
  <2>6. \A q \in Peer \ {p} : RegMap'[q] = RegMap[q]
    BY <2>0, <2>2, <2>3, <2>4, RegMapAway DEF Closing
  <2>7. \A q \in Peer : RegMap[q] # n
    BY <2>1, NoStreamNotNat DEF PutFresh, RegMap
  <2>8. RegMap' = [RegMap EXCEPT ![p] = n]
    BY <2>0, <2>5, <2>6 DEF RegMap
  <2>9. Registry!Register(p, n)
    BY <2>1, <2>7, <2>8, <1>2 DEF PutFresh, Registry!Register
  <2>. QED
    BY <2>0, <2>1, <2>9 DEF StreamId, Registry!Next
<1>. QED
  BY <1>1, <1>2 DEF Put, MapThrow

(* Get closes p's entry: the registry's Close of p, or nothing the        *)
(* registry shows when another CloseStream has already closed that entry. *)
LEMMA GetStep ==
    ASSUME IInv, ClosedInv, NEW t \in Task, Get(t)
    PROVE  [Registry!Next]_RVars
<1>1. CASE UNCHANGED <<streams, open, made, task>>
  BY <1>1 DEF RVars, RegMap, Closing
<1>2. CASE /\ streams[task[t].peer] # NoStream
           /\ open' = open \ {streams[task[t].peer]}
           /\ task' = [task EXCEPT ![t].pc = "del",
                                   ![t].s = streams[task[t].peer]]
           /\ UNCHANGED <<streams, made, writing, crash>>
  <2> DEFINE p == task[t].peer
  <2> DEFINE n == streams[p]
  <2>0. task[t].pc = "get" /\ task[t] \in TaskState /\ p \in Peer
    BY DEF Get, IInv, TypeOK, TaskState
  <2>1. \A u \in Task \ {t} : task'[u] = task[u]
    BY <1>2 DEF IInv, TypeOK
  <2>2. task'[t].pc = "del" /\ task'[t].peer = p /\ task'[t].s = n
    BY <1>2, <2>0 DEF IInv, TypeOK, TaskState
  <2>3. \A q \in Peer \ {p} : RegMap'[q] = RegMap[q]
    BY <1>2, <2>0, <2>1, <2>2, RegMapAway DEF Closing
  <2>4. RegMap'[p] = NoStream
    BY <1>2, <2>0, <2>2 DEF RegMap, Closing
  <2>5. CASE \E u \in Task : Closing(u, p, n)
    <3>1. n \notin open
      BY <2>5 DEF ClosedInv, Closing
    <3>2. RegMap' = RegMap
      BY <2>0, <2>3, <2>4, <2>5 DEF RegMap
    <3>. QED
      BY <3>1, <3>2, <1>2 DEF RVars
  <2>6. CASE ~\E u \in Task : Closing(u, p, n)
    <3>1. RegMap[p] = n
      BY <2>0, <2>6 DEF RegMap
    <3>2. RegMap' = [RegMap EXCEPT ![p] = NoStream]
      BY <2>0, <2>3, <2>4 DEF RegMap
    <3>3. Registry!Close(p)
      BY <3>1, <3>2, <1>2 DEF Registry!Close
    <3>. QED
      BY <2>0, <3>3 DEF Registry!Next
  <2>. QED
    BY <2>5, <2>6
<1>. QED
  BY <1>1, <1>2 DEF Get, MapThrow

(* Del's delete is the registry's Drop of p when p's entry is one a       *)
(* concurrent OpenStream put after the Close; otherwise the entry was     *)
(* already closed and the delete changes nothing the registry shows.      *)
LEMMA DelStep ==
    ASSUME IInv, NEW t \in Task, Del(t)
    PROVE  [Registry!Next]_RVars
<1>1. CASE UNCHANGED <<streams, open, made, task>>
  BY <1>1 DEF RVars, RegMap, Closing
<1>2. CASE /\ t \in writing
           /\ streams' = [streams EXCEPT ![task[t].peer] = NoStream]
           /\ writing' = writing \ {t}
           /\ task' = [task EXCEPT ![t].pc = "idle"]
           /\ UNCHANGED <<open, made, crash>>
  <2> DEFINE p == task[t].peer
  <2>0. task[t].pc = "del" /\ task[t] \in TaskState /\ p \in Peer
    BY DEF Del, IInv, TypeOK, TaskState
  <2>1. \A u \in Task \ {t} : task'[u] = task[u]
    BY <1>2 DEF IInv, TypeOK
  <2>2. task'[t].pc = "idle"
    BY <1>2, <2>0 DEF IInv, TypeOK, TaskState
  <2>3. streams'[p] = NoStream /\ \A q \in Peer \ {p} : streams'[q] = streams[q]
    BY <1>2, <2>0 DEF IInv, TypeOK
  <2>4. \A q \in Peer \ {p} : RegMap'[q] = RegMap[q]
    BY <2>0, <2>1, <2>2, <2>3, RegMapAway DEF Closing
  <2>5. RegMap'[p] = NoStream
    BY <2>0, <2>3 DEF RegMap
  <2>6. CASE RegMap[p] = NoStream
    BY <2>0, <2>4, <2>5, <2>6, <1>2 DEF RVars, RegMap
  <2>7. CASE RegMap[p] # NoStream
    <3>1. RegMap' = [RegMap EXCEPT ![p] = NoStream]
      BY <2>0, <2>4, <2>5 DEF RegMap
    <3>2. Registry!Drop(p)
      BY <2>7, <3>1, <1>2 DEF Registry!Drop
    <3>. QED
      BY <2>0, <3>2 DEF Registry!Next
  <2>. QED
    BY <2>6, <2>7
<1>. QED
  BY <1>1, <1>2 DEF Del, MapThrow

(* The initial table stands for the empty registry. *)
LEMMA InitRegistry == Init => Registry!Init
BY DEF Init, Registry!Init, RegMap, Closing

(* Every step of the table is a step of the registry or a stutter. *)
LEMMA NextRegistry ==
    IInv /\ ClosedInv /\ [Next]_vars => [Registry!Next]_RVars
<1> SUFFICES ASSUME IInv, ClosedInv, [Next]_vars PROVE [Registry!Next]_RVars
  OBVIOUS
<1>1. CASE UNCHANGED vars
  BY <1>1 DEF vars, RVars, RegMap, Closing
<1>. QED
  BY <1>1, CallStep, NewStreamStep, PutStep, GetStep, DelStep DEF Next

(* The stream table implements the atomic registry: every behaviour of    *)
(* concurrent OpenStream and CloseStream goroutines on the unlocked map,  *)
(* up to a runtime throw or a nil-Close panic, is a behaviour of          *)
(* StreamRegistry under the mapping RegMap.                               *)
THEOREM ImplementsRegistryHolds == Spec => ImplementsRegistry
<1>1. Init => IInv /\ ClosedInv
  BY InitIInv DEF Init, ClosedInv
<1>2. IInv /\ ClosedInv /\ [Next]_vars => IInv' /\ ClosedInv'
  BY NextIInv, ClosedNext
<1>. QED
  BY <1>1, <1>2, InitRegistry, NextRegistry, PTL
     DEF Spec, ImplementsRegistry, Registry!Spec, RVars
=============================================================================
