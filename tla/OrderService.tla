---------------------------- MODULE OrderService ----------------------------
(***************************************************************************)
(* The order service of one node (src/service/order.go, OrderService).    *)
(*                                                                         *)
(* gRPC handlers run concurrently, one goroutine per request; each handler *)
(* body is one atomic step here because its only shared-state effect is a *)
(* single call on the storage collaborator, which is itself atomic         *)
(* (LevelDB).  The wall clock read by ptypes.TimestampNow() is the         *)
(* variable clock; it advances by Tick, and two Creates with no Tick       *)
(* between them read the same timestamp (coarse clock, or two concurrent   *)
(* handlers in the same tick).                                             *)
(*                                                                         *)
(* A storage error makes the handler panic, which gRPC does not recover:   *)
(* the whole process goes down (up = FALSE) until it is restarted.  The    *)
(* store is LevelDB on disk and survives the restart.                      *)
(***************************************************************************)
EXTENDS Naturals, FiniteSets

CONSTANTS
    Request,    \* create requests, abstracted to their in.String() text
    MaxTime,    \* last clock reading explored
    MaxOps      \* bound on successful Creates and on Deletes

ASSUME MaxTimeAssumption == MaxTime \in Nat
ASSUME MaxOpsAssumption == MaxOps \in Nat

VARIABLES
    store,      \* the orders in LevelDB: a function from key to order
    clock,      \* wall-clock reading returned by ptypes.TimestampNow()
    up,         \* the process is running (FALSE after a panic)
    live,       \* history: orders returned by Create and not deleted since
    lockAcked,  \* history: ids whose last Lock/Unlock call was an acked Lock
    creates,    \* history: number of Creates that returned an order
    deletes     \* history: number of Deletes that returned an ack

vars == <<store, clock, up, live, lockAcked, creates, deletes>>

Time == 0..MaxTime

(* h := hmac.New(sha256.New, secret); h.Write(in.String() ++ now.String()) *)
(* The keyed hash is collision-resistant, so the id is the pair it is      *)
(* computed from.                                                          *)
OrderId == Request \X Time

State == {"OPEN", "LOCKED"}

Order == [id : OrderId, created : Time, req : Request, state : State]

(* Mutant: the id hashes the request alone, without the timestamp. *)
NewOrderIdWithoutTime(req, now) ==
    [id |-> <<req, 0>>, created |-> now, req |-> req, state |-> "OPEN"]

(* The order Create builds from request req at timestamp now. *)
NewOrder(req, now) ==
    [id |-> <<req, now>>, created |-> now, req |-> req, state |-> "OPEN"]

(* storage.Put(key, value) and storage.Delete(key) on the key space. *)
StorePut(f, k, v) == [x \in DOMAIN f \cup {k} |-> IF x = k THEN v ELSE f[x]]
StoreDelete(f, k) == [x \in DOMAIN f \ {k} |-> f[x]]

Init ==
    /\ store = [x \in {} |-> CHOOSE o \in Order : TRUE]
    /\ clock = 0
    /\ up = TRUE
    /\ live = {}
    /\ lockAcked = {}
    /\ creates = 0
    /\ deletes = 0

-----------------------------------------------------------------------------
(* The wall clock advances. *)
Tick ==
    /\ clock < MaxTime
    /\ clock' = clock + 1
    /\ UNCHANGED <<store, up, live, lockAcked, creates, deletes>>

(* Mutant: the order is Put under the request text instead of its id. *)
CreateKeyedByRequest(req) ==
    LET o == NewOrder(req, clock) IN
    /\ up
    /\ creates < MaxOps
    /\ store' = StorePut(store, req, o)
    /\ live' = live \cup {o}
    /\ creates' = creates + 1
    /\ UNCHANGED <<clock, up, lockAcked, deletes>>

(* Create: read the clock, hash request and timestamp into the id, build  *)
(* the OPEN order, marshal it and Put it under the bare id.  Put failing   *)
(* panics.  Nothing is broadcast (the propagation is a TODO).              *)
Create(req) ==
    LET o == NewOrder(req, clock) IN
    /\ up
    /\ creates < MaxOps
    /\ \/ /\ store' = StorePut(store, o.id, o)
          /\ live' = live \cup {o}
          /\ creates' = creates + 1
          /\ UNCHANGED <<up, lockAcked, deletes>>
       \/ /\ up' = FALSE
          /\ UNCHANGED <<store, live, lockAcked, creates, deletes>>
    /\ UNCHANGED clock

(* Delete: storage.Delete(in.GetId()); an error panics.  LevelDB deletes a *)
(* missing key without error, so an unknown id is acked too.               *)
Delete(id) ==
    /\ up
    /\ deletes < MaxOps
    /\ \/ /\ store' = StoreDelete(store, id)
          /\ live' = {o \in live : o.id # id}
          /\ deletes' = deletes + 1
          /\ UNCHANGED <<up, lockAcked, creates>>
       \/ /\ up' = FALSE
          /\ UNCHANGED <<store, live, lockAcked, creates, deletes>>
    /\ UNCHANGED clock

(* Lock: the body is a TODO; it acks without touching the store. *)
Lock(id) ==
    /\ up
    /\ lockAcked' = lockAcked \cup {id}
    /\ UNCHANGED <<store, clock, up, live, creates, deletes>>

(* Unlock: likewise a TODO that acks. *)
Unlock(id) ==
    /\ up
    /\ lockAcked' = lockAcked \ {id}
    /\ UNCHANGED <<store, clock, up, live, creates, deletes>>

(* The process is started again after a panic; LevelDB keeps its data. *)
Restart ==
    /\ ~up
    /\ up' = TRUE
    /\ UNCHANGED <<store, clock, live, lockAcked, creates, deletes>>

Next ==
    \/ Tick
    \/ \E req \in Request : Create(req)
    \/ \E id \in OrderId : Delete(id) \/ Lock(id) \/ Unlock(id)
    \/ Restart

Spec == Init /\ [][Next]_vars

-----------------------------------------------------------------------------
TypeOK ==
    /\ DOMAIN store \subseteq OrderId
    /\ \A k \in DOMAIN store : store[k] \in Order
    /\ clock \in Time
    /\ up \in BOOLEAN
    /\ live \subseteq Order
    /\ lockAcked \subseteq OrderId
    /\ creates \in 0..MaxOps
    /\ deletes \in 0..MaxOps

(* Create then GetOrder returns what Create returned (order_test.go,       *)
(* TestOrderCreation): every order a Create returned, unless a Delete of   *)
(* its id has been acked since, is in the store under its id, equal to     *)
(* the returned value -- across concurrent Creates that hash to the same   *)
(* id, Deletes, panics and restarts.                                       *)
CreateThenGet ==
    \A o \in live : o.id \in DOMAIN store /\ store[o.id] = o

(* After N Creates and no Delete, GetAllOrders returns N distinct orders   *)
(* (spec section 8, TestOrderGetAll).                                      *)
CreatesAreDistinct ==
    deletes = 0 => Cardinality(DOMAIN store) = creates
=============================================================================
