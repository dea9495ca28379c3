------------------------- MODULE OrderServiceProofs -------------------------
(***************************************************************************)
(* Proofs about the order service of OrderService, for every set of       *)
(* requests and every bound.                                              *)
(***************************************************************************)
EXTENDS OrderService, TLAPS

(* Every order Create returned and no Delete removed is the order         *)
(* NewOrder builds from its own request and timestamp.  Two such orders   *)
(* with the same id are therefore equal, which is why a Create that       *)
(* hashes to the id of a live order does not change what GetOrder returns *)
(* for it.                                                                *)
LiveWellFormed == \A o \in live : o = NewOrder(o.req, o.created)

IInv == TypeOK /\ CreateThenGet /\ LiveWellFormed

(* NewOrder builds an order of the right type, whose id is its request    *)
(* and timestamp.                                                         *)
LEMMA NewOrderType ==
    ASSUME NEW req \in Request, NEW now \in Time
    PROVE  /\ NewOrder(req, now) \in Order
           /\ NewOrder(req, now).id = <<req, now>>
           /\ NewOrder(req, now) = NewOrder(NewOrder(req, now).req,
                                            NewOrder(req, now).created)
BY DEF NewOrder, Order, OrderId, State

(* Two live, well-formed orders with the same id are the same order. *)
LEMMA SameIdSameOrder ==
    ASSUME NEW o1, NEW o2,
           o1 = NewOrder(o1.req, o1.created),
           o2 = NewOrder(o2.req, o2.created),
           o1.id = o2.id
    PROVE  o1 = o2
<1>1. o1.id = <<o1.req, o1.created>> /\ o2.id = <<o2.req, o2.created>>
  BY DEF NewOrder
<1>2. <<o1.req, o1.created>> = <<o2.req, o2.created>>
  BY <1>1
<1>3. o1.req = o2.req /\ o1.created = o2.created
  BY <1>2
<1>. QED
  BY <1>3

(* The initial state satisfies the inductive invariant. *)
LEMMA InitIInv == Init => IInv
BY MaxTimeAssumption, MaxOpsAssumption
   DEF Init, IInv, TypeOK, CreateThenGet, LiveWellFormed, Time

(* Every step keeps the inductive invariant. *)
LEMMA NextIInv == IInv /\ [Next]_vars => IInv'
<1> SUFFICES ASSUME IInv, [Next]_vars PROVE IInv'
  OBVIOUS
<1>. USE MaxTimeAssumption, MaxOpsAssumption
<1>1. CASE Tick
  BY <1>1 DEF IInv, TypeOK, CreateThenGet, LiveWellFormed, Tick, Time
<1>2. ASSUME NEW req \in Request, Create(req) PROVE IInv'
  <2> DEFINE o == NewOrder(req, clock)
  <2>1. o \in Order /\ o.id = <<req, clock>> /\ o = NewOrder(o.req, o.created)
    BY NewOrderType DEF IInv, TypeOK
  <2>2. CASE /\ store' = StorePut(store, o.id, o)
             /\ live' = live \cup {o}
             /\ creates' = creates + 1
             /\ UNCHANGED <<up, lockAcked, deletes, clock>>
             /\ creates < MaxOps
    <3>1. TypeOK'
      BY <2>1, <2>2 DEF IInv, TypeOK, StorePut, OrderId
    <3>2. LiveWellFormed'
      BY <2>1, <2>2 DEF IInv, LiveWellFormed
    <3>3. CreateThenGet'
      <4> SUFFICES ASSUME NEW x \in live'
                   PROVE x.id \in DOMAIN store' /\ store'[x.id] = x
        BY DEF CreateThenGet
      <4>1. CASE x.id = o.id
        <5>1. x = NewOrder(x.req, x.created)
          BY <2>1, <2>2 DEF IInv, LiveWellFormed
        <5>2. x = o
          BY <5>1, <2>1, <4>1, SameIdSameOrder
        <5>. QED
          BY <5>2, <2>2 DEF StorePut
      <4>2. CASE x.id # o.id
        <5>1. x \in live
          BY <4>2, <2>2
        <5>. QED
          BY <5>1, <4>2, <2>2 DEF IInv, CreateThenGet, StorePut
      <4>. QED
        BY <4>1, <4>2
    <3>. QED
      BY <3>1, <3>2, <3>3 DEF IInv
  <2>3. CASE /\ up' = FALSE
             /\ UNCHANGED <<store, live, lockAcked, creates, deletes, clock>>
    BY <2>3 DEF IInv, TypeOK, CreateThenGet, LiveWellFormed
  <2>. QED
    BY <1>2, <2>2, <2>3 DEF Create
<1>3. ASSUME NEW id \in OrderId, Delete(id) PROVE IInv'
  <2>1. CASE /\ store' = StoreDelete(store, id)
             /\ live' = {o \in live : o.id # id}
             /\ deletes' = deletes + 1
             /\ UNCHANGED <<up, lockAcked, creates, clock>>
             /\ deletes < MaxOps
    <3>1. TypeOK'
      BY <2>1 DEF IInv, TypeOK, StoreDelete
    <3>2. CreateThenGet'
      BY <2>1 DEF IInv, CreateThenGet, StoreDelete
    <3>3. LiveWellFormed'
      BY <2>1 DEF IInv, LiveWellFormed
    <3>. QED
      BY <3>1, <3>2, <3>3 DEF IInv
  <2>2. CASE /\ up' = FALSE
             /\ UNCHANGED <<store, live, lockAcked, creates, deletes, clock>>
    BY <2>2 DEF IInv, TypeOK, CreateThenGet, LiveWellFormed
  <2>. QED
    BY <1>3, <2>1, <2>2 DEF Delete
<1>4. ASSUME NEW id \in OrderId, Lock(id) \/ Unlock(id) PROVE IInv'
  BY <1>4 DEF IInv, TypeOK, CreateThenGet, LiveWellFormed, Lock, Unlock
<1>5. CASE Restart
  BY <1>5 DEF IInv, TypeOK, CreateThenGet, LiveWellFormed, Restart
<1>6. CASE UNCHANGED vars
  BY <1>6 DEF IInv, TypeOK, CreateThenGet, LiveWellFormed, vars
<1>. QED
  BY <1>1, <1>2, <1>3, <1>4, <1>5, <1>6 DEF Next

(* Every reachable state of the order service is well typed. *)
THEOREM TypeCorrect == Spec => []TypeOK
<1>1. IInv => TypeOK
  BY DEF IInv
<1>. QED
  BY <1>1, InitIInv, NextIInv, PTL DEF Spec

(* Create then GetOrder returns what Create returned: in every reachable  *)
(* state, every order a Create returned and no Delete of its id has       *)
(* removed is stored under its id with exactly the returned value, across *)
(* Creates that hash to the same id, panics and restarts.                 *)
THEOREM CreateThenGetHolds == Spec => []CreateThenGet
<1>1. IInv => CreateThenGet
  BY DEF IInv
<1>. QED
  BY <1>1, InitIInv, NextIInv, PTL DEF Spec
=============================================================================
