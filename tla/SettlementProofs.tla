-------------------------- MODULE SettlementProofs --------------------------
(***************************************************************************)
(* The pricing lock and the money of Settlement, for every value of the    *)
(* constants.                                                              *)
(*                                                                         *)
(* A batch in flight holds the lock, and the lock is all that keeps a      *)
(* second batch from being planned or accounted.  The invariant needs, of  *)
(* the rest of the state, only the shape of the rows and that an order     *)
(* that is settling names its batch.                                       *)
(*                                                                         *)
(* The second half is about sums: what positions and wallets reserve is    *)
(* what their orders claim, the fund has the shares of its holders, and    *)
(* the plan of a batch in flight is what its orders add up to.             *)
(***************************************************************************)
EXTENDS Settlement, SumLemmas

\* The shape of a batch row, whatever numbers its plan has.
PlanShaped(b) ==
    /\ b = [status |-> b.status, price |-> b.price, before |-> b.before,
            buy |-> b.buy, issue |-> b.issue, redeem |-> b.redeem]
    /\ b.status \in BatchStatuses

BatchesShaped == batch = [d \in Days |-> batch[d]] /\ \A d \in Days : PlanShaped(batch[d])

OrdersTyped == orders \in [Orders -> OrderRows]

SettlingIsBatched == \A o \in Orders : orders[o].status = "settling" => orders[o].batch \in Days

LockTyped == lock \in Days \cup {NoBatch}

Inv == BatchesShaped /\ OrdersTyped /\ SettlingIsBatched /\ LockTyped /\ LockedWhileInFlight

-----------------------------------------------------------------------------
\* No settlement date is the number that stands for no batch.
LEMMA NoBatchIsNoDay == NoBatch \notin Days
  BY SettlementAssumption DEF NoBatch, Days

\* Setting the status of a batch row leaves the rest of the row.
LEMMA StatusKeepsPlan ==
  ASSUME NEW b, PlanShaped(b), NEW s \in BatchStatuses
  PROVE  /\ PlanShaped([b EXCEPT !.status = s])
         /\ [b EXCEPT !.status = s].status = s
         /\ [b EXCEPT !.status = s].before = b.before
  BY DEF PlanShaped

\* Setting the status of one batch, seen from all batches.
LEMMA StatusStep ==
  ASSUME BatchesShaped, NEW d \in Days, NEW s \in BatchStatuses,
         batch' = [batch EXCEPT ![d].status = s]
  PROVE  /\ BatchesShaped'
         /\ batch'[d].status = s /\ batch'[d].before = batch[d].before
         /\ \A e \in Days \ {d} : batch'[e] = batch[e]
  <1> DEFINE row == [batch[d] EXCEPT !.status = s]
  <1>1. PlanShaped(row) /\ row.status = s /\ row.before = batch[d].before
    BY StatusKeepsPlan DEF BatchesShaped
  <1>2. batch' = [e \in Days |-> IF e = d THEN row ELSE batch[e]]
    BY DEF BatchesShaped
  <1> HIDE DEF row
  <1> QED  BY <1>1, <1>2 DEF BatchesShaped

\* The batch of day d is no longer in flight, and nothing else of it changed.
LEMMA LeavesFlight ==
  ASSUME BatchesShaped, LockedWhileInFlight, NEW d \in Days,
         NEW s \in BatchStatuses \ InFlight,
         batch' = [batch EXCEPT ![d].status = s],
         \/ fundShares' = fundShares /\ (lock = d \/ lock' = lock)
         \/ lock = d
  PROVE  BatchesShaped' /\ LockedWhileInFlight'
  <1>1. BatchesShaped' /\ batch'[d].status = s /\ \A e \in Days \ {d} : batch'[e] = batch[e]
    BY StatusStep
  <1>2. ASSUME NEW e \in Days, batch'[e].status \in InFlight
        PROVE  lock' = e /\ batch'[e].before = fundShares'
    <2>1. e # d /\ batch'[e] = batch[e]
      BY <1>1, <1>2
    <2>2. lock = e /\ batch[e].before = fundShares
      BY <1>2, <2>1 DEF LockedWhileInFlight
    <2> QED  BY <2>1, <2>2
  <1> QED  BY <1>1, <1>2 DEF LockedWhileInFlight

\* The batch of day d goes on, in flight before and after.
LEMMA StaysInFlight ==
  ASSUME BatchesShaped, LockedWhileInFlight, NEW d \in Days,
         NEW s \in BatchStatuses, batch[d].status \in InFlight,
         batch' = [batch EXCEPT ![d].status = s],
         UNCHANGED <<lock, fundShares>>
  PROVE  BatchesShaped' /\ LockedWhileInFlight'
  <1>1. /\ BatchesShaped' /\ batch'[d].before = batch[d].before
        /\ \A e \in Days \ {d} : batch'[e] = batch[e]
    BY StatusStep
  <1>2. ASSUME NEW e \in Days, batch'[e].status \in InFlight
        PROVE  lock' = e /\ batch'[e].before = fundShares'
    <2>1. batch[e].status \in InFlight /\ batch'[e].before = batch[e].before
      BY <1>1, <1>2
    <2> QED  BY <2>1 DEF LockedWhileInFlight
  <1> QED  BY <1>1, <1>2 DEF LockedWhileInFlight

\* The row of an order that does not exist yet.
LEMMA NoOrderTyped == NoOrder \in OrderRows /\ NoOrder.status = "none"
  BY SettlementAssumption
     DEF NoOrder, OrderRows, Sides, OrderStatuses, NoBatch, Days

\* No order, no batch and no owner of the lock at first.
LEMMA InitInv == Init => Inv
  <1> SUFFICES ASSUME Init  PROVE  Inv
    OBVIOUS
  <1>1. BatchesShaped
    BY DEF Init, BatchesShaped, PlanShaped, NoPlan, BatchStatuses
  <1>2. NoOrder \in OrderRows /\ NoOrder.status = "none"
    BY NoOrderTyped
  <1>3. OrdersTyped /\ SettlingIsBatched
    BY <1>2 DEF Init, OrdersTyped, SettlingIsBatched
  <1>4. LockTyped
    BY DEF Init, LockTyped
  <1>5. LockedWhileInFlight
    BY DEF Init, LockedWhileInFlight, NoPlan, InFlight
  <1> QED  BY <1>1, <1>3, <1>4, <1>5 DEF Inv

\* The batch of day d is planned and gets the lock: no other is in flight.
LEMMA OpenBatchInv ==
  ASSUME Inv, NEW d \in Days, NEW live \in BOOLEAN, OpenBatch(d, live)
  PROVE  BatchesShaped' /\ LockedWhileInFlight'
  <1> DEFINE plan == Plan(d, Pending(d), Opened(live))
  <1>1. /\ batch' = [batch EXCEPT ![d] = plan]
        /\ lock' = d /\ fundShares' = fundShares
        /\ batch[d].status = "none"
        /\ lock \in {NoBatch, d} /\ nav[d].shares = fundShares
    BY DEF OpenBatch, Plannable, LockFree, money
  <1>2. PlanShaped(plan) /\ plan.before = nav[d].shares
    BY DEF Plan, PlanShaped, Opened, BatchStatuses
  <1> HIDE DEF plan
  <1>3. batch' = [e \in Days |-> IF e = d THEN plan ELSE batch[e]]
    BY <1>1 DEF Inv, BatchesShaped
  <1>4. BatchesShaped'
    BY <1>2, <1>3 DEF Inv, BatchesShaped
  <1>5. ASSUME NEW e \in Days, batch'[e].status \in InFlight
        PROVE  lock' = e /\ batch'[e].before = fundShares'
    <2>1. CASE e = d
      BY <1>1, <1>2, <1>3, <2>1
    <2>2. CASE e # d
      <3>1. batch[e].status \in InFlight
        BY <1>3, <1>5, <2>2
      <3>2. lock = e
        BY <3>1 DEF Inv, LockedWhileInFlight
      <3> QED  BY <1>1, <2>2, <3>2, NoBatchIsNoDay
    <2> QED  BY <2>1, <2>2
  <1> QED  BY <1>4, <1>5 DEF LockedWhileInFlight

\* A batch that is rejected, or fails before money moved, keeps its plan, and
\* at most one batch, its own, held the lock.
LEMMA FailPreExternalInv ==
  ASSUME Inv, NEW d \in Days, NEW S \in SUBSET Orders, NEW locked \in BOOLEAN,
         FailPreExternal(d, S, locked),
         locked => lock \in {NoBatch, d}
  PROVE  BatchesShaped' /\ LockedWhileInFlight' /\ OrdersTyped' /\ SettlingIsBatched' /\ LockTyped'
  <1> DEFINE s == "failed_requires_review"
  <1>1. PICK R \in SUBSET S :
          /\ batch' = [batch EXCEPT ![d].status = s]
          /\ orders' = [o \in Orders |->
                           IF o \in S
                           THEN [orders[o] EXCEPT !.status = s, !.batch = d, !.released = @ \/ o \in R]
                           ELSE orders[o]]
          /\ lock' = IF ~locked THEN lock ELSE IF R = S THEN NoBatch ELSE d
          /\ fundShares' = fundShares
    BY DEF FailPreExternal, FailBatch
  <1>2. s \in BatchStatuses \ InFlight /\ s \in OrderStatuses
    BY DEF BatchStatuses, InFlight, OrderStatuses
  <1>3. LockTyped'
    BY <1>1 DEF Inv, LockTyped
  <1>4. OrdersTyped' /\ SettlingIsBatched'
    <2>1. ASSUME NEW o \in Orders
          PROVE  orders'[o] \in OrderRows /\ (orders'[o].status = "settling" => orders'[o].batch \in Days)
      <3>1. orders[o] \in OrderRows /\ (orders[o].status = "settling" => orders[o].batch \in Days)
        BY DEF Inv, OrdersTyped, SettlingIsBatched
      <3>2. CASE o \in S
        <4>1. orders'[o] = [orders[o] EXCEPT !.status = s, !.batch = d, !.released = @ \/ o \in R]
          BY <1>1, <3>2
        <4>2. (orders[o].released \/ o \in R) \in BOOLEAN
          BY <3>1 DEF OrderRows
        <4> QED  BY <3>1, <4>1, <4>2, <1>2 DEF OrderRows
      <3>3. CASE o \notin S
        BY <1>1, <3>1, <3>3
      <3> QED  BY <3>2, <3>3
    <2>2. orders' = [o \in Orders |-> orders'[o]]
      BY <1>1
    <2> QED  BY <2>1, <2>2 DEF OrdersTyped, SettlingIsBatched
  <1>5. BatchesShaped' /\ LockedWhileInFlight'
    <2>1. CASE lock' = lock \/ lock = d
      BY <1>1, <1>2, <2>1, LeavesFlight DEF Inv
    <2>2. CASE lock' # lock /\ lock # d
      <3>1. lock = NoBatch
        BY <1>1, <2>2
      <3>2. /\ BatchesShaped' /\ batch'[d].status = s
            /\ \A e \in Days \ {d} : batch'[e] = batch[e]
        BY <1>1, <1>2, StatusStep DEF Inv
      <3>3. \A e \in Days : batch'[e].status \notin InFlight
        BY <1>2, <3>1, <3>2, NoBatchIsNoDay DEF Inv, LockedWhileInFlight
      <3> QED  BY <3>2, <3>3 DEF LockedWhileInFlight
    <2> QED  BY <2>1, <2>2
  <1> QED  BY <1>3, <1>4, <1>5

-----------------------------------------------------------------------------
(* The orders, action by action.                                           *)

\* What Inv says of the rows of the orders.
OrderOK(r) == r \in OrderRows /\ (r.status = "settling" => r.batch \in Days)

\* Inv says it of every order.
LEMMA OrdersOK == Inv => \A o \in Orders : OrderOK(orders[o])
  BY DEF Inv, OrdersTyped, SettlingIsBatched, OrderOK

\* It suffices to say it of every order.
LEMMA OrdersFromRows ==
  ASSUME orders' = [o \in Orders |-> orders'[o]], \A o \in Orders : OrderOK(orders'[o])
  PROVE  OrdersTyped' /\ SettlingIsBatched'
  BY DEF OrdersTyped, SettlingIsBatched, OrderOK

\* A row that only changes to another status than settling is still right.
LEMMA StatusKeepsOrder ==
  ASSUME NEW r, OrderOK(r), NEW s \in OrderStatuses \ {"settling"}, NEW c \in BOOLEAN, NEW l \in BOOLEAN
  PROVE  /\ OrderOK([r EXCEPT !.status = s])
         /\ OrderOK([r EXCEPT !.status = s, !.collected = c])
         /\ OrderOK([r EXCEPT !.status = s, !.released = l])
  BY DEF OrderOK, OrderRows

\* Orders keep their rows right when some of them change to another status.
LEMMA StatusOfSome ==
  ASSUME Inv, NEW S \in SUBSET Orders, NEW s \in OrderStatuses \ {"settling"},
         orders' = [o \in Orders |-> IF o \in S THEN [orders[o] EXCEPT !.status = s] ELSE orders[o]]
  PROVE  OrdersTyped' /\ SettlingIsBatched'
  <1>1. ASSUME NEW o \in Orders
        PROVE  OrderOK(orders'[o])
    <2>1. OrderOK(orders[o]) /\ OrderOK([orders[o] EXCEPT !.status = s])
      BY OrdersOK, StatusKeepsOrder
    <2> QED  BY <2>1
  <1> QED  BY <1>1, OrdersFromRows

\* A new order is pending and in no batch.
LEMMA PlaceInv ==
  ASSUME Inv, NEW side \in Sides, NEW u \in Users, NEW q \in Amounts, Place(side, u, q)
  PROVE  OrdersTyped' /\ SettlingIsBatched'
  <1>1. PICK o \in Orders, d \in {today - 1, today} :
          /\ d \in Days
          /\ orders' = [orders EXCEPT ![o] =
                           [NoOrder EXCEPT !.side = side, !.user = u, !.qty = q,
                                           !.day = d, !.status = "pending"]]
    BY DEF Place
  <1> DEFINE row == [NoOrder EXCEPT !.side = side, !.user = u, !.qty = q,
                                    !.day = d, !.status = "pending"]
  <1>2. OrderOK(row)
    <2>1. NoOrder \in OrderRows
      BY NoOrderTyped
    <2>2. q \in Nat /\ d \in 0 .. LastDay
      BY <1>1, SettlementAssumption DEF Days
    <2> QED  BY <2>1, <2>2 DEF OrderOK, OrderRows, OrderStatuses
  <1> HIDE DEF row
  <1>3. orders' = [p \in Orders |-> IF p = o THEN row ELSE orders[p]]
    BY <1>1 DEF row, Inv, OrdersTyped
  <1>4. \A p \in Orders : OrderOK(orders'[p])
    BY <1>2, <1>3, OrdersOK
  <1> QED  BY <1>3, <1>4, OrdersFromRows

\* The orders of a new batch name it.
LEMMA OpenBatchOrders ==
  ASSUME Inv, NEW d \in Days, NEW live \in BOOLEAN, OpenBatch(d, live)
  PROVE  OrdersTyped' /\ SettlingIsBatched' /\ LockTyped'
  <1>1. /\ orders' = [o \in Orders |->
                         IF o \in Pending(d)
                         THEN [orders[o] EXCEPT !.status = "settling", !.batch = d]
                         ELSE orders[o]]
        /\ lock' = d
    BY DEF OpenBatch
  <1>2. ASSUME NEW o \in Orders
        PROVE  OrderOK(orders'[o])
    <2>1. OrderOK(orders[o])
      BY OrdersOK
    <2>2. OrderOK([orders[o] EXCEPT !.status = "settling", !.batch = d])
      BY <2>1 DEF OrderOK, OrderRows, OrderStatuses
    <2> QED  BY <1>1, <2>1, <2>2
  <1>3. LockTyped'
    BY <1>1 DEF LockTyped
  <1> QED  BY <1>1, <1>2, <1>3, OrdersFromRows

\* It also suffices to say it of the one row that changes.
LEMMA RowOfOne ==
  ASSUME Inv, NEW o \in Orders,
         \E row : OrderOK(row) /\ orders' = [orders EXCEPT ![o] = row]
  PROVE  OrdersTyped' /\ SettlingIsBatched'
  <1>1. PICK row : OrderOK(row) /\ orders' = [orders EXCEPT ![o] = row]
    OBVIOUS
  <1>2. orders' = [p \in Orders |-> IF p = o THEN row ELSE orders[p]]
    BY <1>1 DEF Inv, OrdersTyped
  <1>3. \A p \in Orders : OrderOK(orders'[p])
    BY <1>1, <1>2, OrdersOK
  <1> QED  BY <1>2, <1>3, OrdersFromRows

\* One order of a batch that is collecting leaves the status settling.
LEMMA CollectedOrders ==
  ASSUME Inv, NEW o \in Orders,
         \/ CollectOrder(o)
         \/ \E release \in BOOLEAN : FailOrder(o, release)
  PROVE  OrdersTyped' /\ SettlingIsBatched'
  <1>1. OrderOK(orders[o])
    BY OrdersOK
  <1>2. \E row : OrderOK(row) /\ orders' = [orders EXCEPT ![o] = row]
    <2>1. CASE CollectOrder(o)
      <3>1. orders' = [orders EXCEPT ![o] = [orders[o] EXCEPT !.status = "buy_collected",
                                                              !.collected = TRUE]]
        BY <2>1 DEF CollectOrder, Inv, OrdersTyped
      <3>2. OrderOK([orders[o] EXCEPT !.status = "buy_collected", !.collected = TRUE])
        BY <1>1, StatusKeepsOrder DEF OrderStatuses
      <3> QED  BY <3>1, <3>2
    <2>2. ASSUME NEW release \in BOOLEAN, FailOrder(o, release)
          PROVE  \E row : OrderOK(row) /\ orders' = [orders EXCEPT ![o] = row]
      <3>1. orders' = [orders EXCEPT ![o] = [orders[o] EXCEPT !.status = "failed_requires_review",
                                                              !.released = release]]
        BY <2>2 DEF FailOrder, Inv, OrdersTyped
      <3>2. OrderOK([orders[o] EXCEPT !.status = "failed_requires_review", !.released = release])
        BY <1>1, StatusKeepsOrder DEF OrderStatuses
      <3> QED  BY <3>1, <3>2
    <2> QED  BY <2>1, <2>2
  <1> QED  BY <1>2, RowOfOne

-----------------------------------------------------------------------------
(* The lock, action by action.                                             *)

\* Actions that touch neither a batch, the lock nor the fund's shares.
LEMMA Untouched ==
  ASSUME Inv, UNCHANGED <<batch, lock, fundShares>>
  PROVE  BatchesShaped' /\ LockedWhileInFlight' /\ LockTyped'
  BY DEF Inv, BatchesShaped, LockedWhileInFlight, LockTyped

\* Accounting ends the flight of the batch that holds the lock.
LEMMA AccountInv ==
  ASSUME Inv, NEW d \in Days, Account(d)
  PROVE  Inv'
  <1>1. /\ lock = d /\ lock' = NoBatch
        /\ batch' = [batch EXCEPT ![d].status = "completed"]
        /\ orders' = [o \in Orders |->
                         IF o \in Attached(d) THEN [orders[o] EXCEPT !.status = "success"]
                                              ELSE orders[o]]
    BY DEF Account
  <1>2. BatchesShaped' /\ LockedWhileInFlight'
    BY <1>1, LeavesFlight DEF Inv, BatchStatuses, InFlight
  <1>3. OrdersTyped' /\ SettlingIsBatched'
    BY <1>1, StatusOfSome DEF OrderStatuses, Attached
  <1>4. LockTyped'
    BY <1>1 DEF LockTyped
  <1> QED  BY <1>2, <1>3, <1>4 DEF Inv

\* A reverted transfer ends the flight of the batch of its order.
LEMMA RevertInv ==
  ASSUME Inv, NEW o \in Orders, RevertOrder(o)
  PROVE  Inv'
  <1> DEFINE d == orders[o].batch
  <1>1. d \in Days /\ batch[d].status = "collecting_buy_usdt"
    BY DEF RevertOrder, FailOrder, Collecting, Inv, SettlingIsBatched
  <1>2. lock = d
    BY <1>1 DEF Inv, LockedWhileInFlight, InFlight
  <1>3. /\ batch' = [batch EXCEPT ![d].status = "failed_requires_review"]
        /\ lock' = NoBatch
        /\ FailOrder(o, orders[o].qty <= wallet[orders[o].user].reserved)
    BY <1>2 DEF RevertOrder, LockFree
  <1>4. OrdersTyped' /\ SettlingIsBatched'
    <2> DEFINE release == orders[o].qty <= wallet[orders[o].user].reserved
    <2>1. OrderOK(orders[o]) /\ release \in BOOLEAN
      BY OrdersOK
    <2>2. orders' = [orders EXCEPT ![o] = [orders[o] EXCEPT !.status = "failed_requires_review",
                                                            !.released = release]]
      BY <1>3 DEF FailOrder, Inv, OrdersTyped
    <2> HIDE DEF release
    <2>3. OrderOK([orders[o] EXCEPT !.status = "failed_requires_review", !.released = release])
      BY <2>1 DEF OrderOK, OrderRows, OrderStatuses
    <2> QED  BY <2>2, <2>3, RowOfOne
  <1>5. BatchesShaped' /\ LockedWhileInFlight'
    <2> HIDE DEF d
    <2> QED  BY <1>1, <1>2, <1>3, LeavesFlight DEF Inv, BatchStatuses, InFlight
  <1>6. LockTyped'
    BY <1>3 DEF LockTyped
  <1> QED  BY <1>4, <1>5, <1>6 DEF Inv

\* A batch whose buy orders are all collected or failed goes on or fails.
LEMMA CloseInv ==
  ASSUME Inv, NEW d \in Days, CloseCollection(d)
  PROVE  Inv'
  <1>1. AwaitingStatus(d) \in BatchStatuses \cap InFlight \cap (OrderStatuses \ {"settling"})
    BY DEF AwaitingStatus, BatchStatuses, InFlight, OrderStatuses
  <1>2. batch[d].status \in InFlight /\ UNCHANGED <<lock, fundShares>>
    BY DEF CloseCollection, InFlight, money
  <1>3. LockTyped'
    BY <1>2 DEF Inv, LockTyped
  <1>4. CASE \E o \in Of(Attached(d), "buy") : orders[o].status # "buy_collected"
    <2>1. /\ batch' = [batch EXCEPT ![d].status = "failed_requires_review"]
          /\ UNCHANGED orders
      BY <1>4 DEF CloseCollection
    <2>2. BatchesShaped' /\ LockedWhileInFlight'
      BY <1>2, <2>1, LeavesFlight DEF Inv, BatchStatuses, InFlight
    <2> QED  BY <1>3, <2>1, <2>2 DEF Inv, OrdersTyped, SettlingIsBatched
  <1>5. CASE ~\E o \in Of(Attached(d), "buy") : orders[o].status # "buy_collected"
    <2>1. /\ batch' = [batch EXCEPT ![d].status = AwaitingStatus(d)]
          /\ orders' = [o \in Orders |->
                           IF o \in Of(Attached(d), "redeem")
                           THEN [orders[o] EXCEPT !.status = AwaitingStatus(d)]
                           ELSE orders[o]]
      BY <1>5 DEF CloseCollection
    <2>2. BatchesShaped' /\ LockedWhileInFlight'
      BY <1>1, <1>2, <2>1, StaysInFlight DEF Inv
    <2>3. OrdersTyped' /\ SettlingIsBatched'
      BY <1>1, <2>1, StatusOfSome DEF Of, Attached
    <2> QED  BY <1>3, <2>2, <2>3 DEF Inv
  <1> QED  BY <1>4, <1>5

\* The runs of the settlement worker for one settlement date.
LEMMA RunInv ==
  ASSUME Inv, NEW d \in Days, SettlementRun(d) \/ NoOrdersBatch(d)
  PROVE  Inv'
  <1>1. ASSUME NEW live \in BOOLEAN, OpenBatch(d, live)  PROVE  Inv'
    BY <1>1, OpenBatchInv, OpenBatchOrders DEF Inv
  <1>2. CASE RejectBatch(d)
    <2>1. PICK locked \in BOOLEAN :
             FailPreExternal(d, Pending(d), locked) /\ (locked => LockFree(d))
      BY <1>2 DEF RejectBatch
    <2>2. Pending(d) \in SUBSET Orders
      BY DEF Pending
    <2> QED  BY <2>1, <2>2, FailPreExternalInv DEF Inv, LockFree
  <1>3. CASE ResumeBatch(d)
    <2>1. /\ batch' = [batch EXCEPT ![d].status = "collecting_buy_usdt"]
          /\ batch[d].status \in InFlight /\ UNCHANGED <<orders, lock, fundShares>>
      BY <1>3 DEF ResumeBatch, InFlight, money
    <2>2. BatchesShaped' /\ LockedWhileInFlight'
      BY <2>1, StaysInFlight DEF Inv, BatchStatuses
    <2> QED  BY <2>1, <2>2 DEF Inv, OrdersTyped, SettlingIsBatched, LockTyped
  <1>4. CASE NoOrdersBatch(d)
    <2>1. /\ batch' = [batch EXCEPT ![d].status = "no_orders"]
          /\ UNCHANGED <<orders, lock, fundShares>>
      BY <1>4 DEF NoOrdersBatch, money
    <2>2. BatchesShaped' /\ LockedWhileInFlight'
      BY <2>1, LeavesFlight DEF Inv, BatchStatuses, InFlight
    <2> QED  BY <2>1, <2>2 DEF Inv, OrdersTyped, SettlingIsBatched, LockTyped
  <1> QED  BY <1>1, <1>2, <1>3, <1>4 DEF SettlementRun

\* Accounting and what may stop a negative-net batch before it.
LEMMA AccountingInv ==
  ASSUME Inv, NEW d \in Days,
         \/ FinalizePositive(d) \/ RefusePositive(d)
         \/ FinalizeNegative(d) \/ FailTargets(d) \/ StopNegative(d)
  PROVE  Inv'
  <1>1. CASE FinalizePositive(d) \/ FinalizeNegative(d)
    BY <1>1, AccountInv DEF FinalizePositive, FinalizeNegative
  <1>2. CASE FailTargets(d)
    <2>1. FailPreExternal(d, Attached(d), lock = d) /\ Attached(d) \in SUBSET Orders
      BY <1>2 DEF FailTargets, Attached
    <2> QED  BY <2>1, FailPreExternalInv DEF Inv
  <1>3. CASE StopNegative(d)
    <2>1. /\ batch' = [batch EXCEPT ![d].status = "failed_requires_review"]
          /\ UNCHANGED <<orders, lock, fundShares>>
      BY <1>3 DEF StopNegative, money
    <2>2. BatchesShaped' /\ LockedWhileInFlight'
      BY <2>1, LeavesFlight DEF Inv, BatchStatuses, InFlight
    <2> QED  BY <2>1, <2>2 DEF Inv, OrdersTyped, SettlingIsBatched, LockTyped
  <1>4. CASE RefusePositive(d)
    <2>1. /\ lock = d /\ lock' = NoBatch
          /\ batch' = [batch EXCEPT ![d].status = "failed_requires_review"]
          /\ orders' = [o \in Orders |->
                           IF o \in Attached(d)
                           THEN [orders[o] EXCEPT !.status = "failed_requires_review", !.batch = d,
                                                  !.released = @ \/ o \in {}]
                           ELSE orders[o]]
      BY <1>4 DEF RefusePositive, PositiveReady, FailBatch
    <2>2. BatchesShaped' /\ LockedWhileInFlight'
      BY <2>1, LeavesFlight DEF Inv, BatchStatuses, InFlight
    <2>3. ASSUME NEW o \in Orders
          PROVE  OrderOK(orders'[o])
      <3>1. OrderOK(orders[o])
        BY OrdersOK
      <3>2. OrderOK([orders[o] EXCEPT !.status = "failed_requires_review", !.batch = d,
                                      !.released = @ \/ o \in {}])
        BY <3>1 DEF OrderOK, OrderRows, OrderStatuses
      <3> QED  BY <2>1, <3>1, <3>2
    <2>4. OrdersTyped' /\ SettlingIsBatched'
      BY <2>1, <2>3, OrdersFromRows
    <2> QED  BY <2>1, <2>2, <2>4 DEF Inv, LockTyped
  <1> QED  BY <1>1, <1>2, <1>3, <1>4

\* Every step keeps the invariant.
LEMMA NextInv == Inv /\ [Next]_vars => Inv'
  <1> SUFFICES ASSUME Inv, [Next]_vars  PROVE  Inv'
    OBVIOUS
  <1>1. ASSUME NEW u \in Users, NEW q \in Amounts, CreateBuyOrder(u, q) \/ CreateRedeemOrder(u, q)
        PROVE  Inv'
    BY <1>1, PlaceInv, Untouched DEF CreateBuyOrder, CreateRedeemOrder, Sides, Inv
  <1>2. CASE NextDay
    BY <1>2, Untouched DEF NextDay, money, Inv, OrdersTyped, SettlingIsBatched
  <1>3. ASSUME NEW d \in Days, SettlementRun(d) \/ NoOrdersBatch(d)  PROVE  Inv'
    BY <1>3, RunInv
  <1>4. ASSUME NEW o \in Orders, CollectOrder(o) \/ \E release \in BOOLEAN : FailInPass(o, release)
        PROVE  Inv'
    <2>1. UNCHANGED <<batch, lock, fundShares>>
      BY <1>4 DEF CollectOrder, FailInPass, FailOrder
    <2>2. OrdersTyped' /\ SettlingIsBatched'
      BY <1>4, CollectedOrders DEF FailInPass
    <2> QED  BY <2>1, <2>2, Untouched DEF Inv
  <1>5. ASSUME NEW o \in Orders, RevertOrder(o)  PROVE  Inv'
    BY <1>5, RevertInv
  <1>6. ASSUME NEW d \in Days, CloseCollection(d)  PROVE  Inv'
    BY <1>6, CloseInv
  <1>7. ASSUME NEW d \in Days,
               \/ FinalizePositive(d) \/ RefusePositive(d)
               \/ FinalizeNegative(d) \/ FailTargets(d) \/ StopNegative(d)
        PROVE  Inv'
    BY <1>7, AccountingInv
  <1>8. CASE UNCHANGED vars
    BY <1>8 DEF vars, money, Inv, BatchesShaped, OrdersTyped, SettlingIsBatched, LockTyped,
                LockedWhileInFlight
  <1> QED
    BY <1>1, <1>2, <1>3, <1>4, <1>5, <1>6, <1>7, <1>8
       DEF Next, OrderEntry, Collection, Accounting

\* Inv is an invariant of Settlement.
LEMMA Invariance == Spec => []Inv
  BY InitInv, NextInv, PTL DEF Spec

-----------------------------------------------------------------------------
\* A batch in flight holds the pricing lock and finds the fund as it was
\* planned: what lock_pricing_for_fund and the checks before it are for, whatever
\* the number of orders, users and settlement dates.
THEOREM LockHeld == Spec => []LockedWhileInFlight
  <1>1. Inv => LockedWhileInFlight
    BY DEF Inv
  <1> QED  BY <1>1, Invariance, PTL

\* What a step does to the lock and to the fund's shares.
LockStep(d) == Lock!Take(d) \/ Lock!GiveBack(d) \/ UNCHANGED <<lock, fundShares>>

\* A batch that fails before money moved takes the lock, gives it back or
\* leaves it.
LEMMA FailPreExternalLock ==
  ASSUME NEW d \in Days, NEW S \in SUBSET Orders, NEW locked \in BOOLEAN,
         FailPreExternal(d, S, locked), locked => lock \in {NoBatch, d}
  PROVE  LockStep(d)
  <1>1. PICK R \in SUBSET S :
          /\ lock' = IF ~locked THEN lock ELSE IF R = S THEN NoBatch ELSE d
          /\ fundShares' = fundShares
    BY DEF FailPreExternal, FailBatch
  <1> QED  BY <1>1 DEF LockStep, Lock!Take, Lock!GiveBack

\* Every step takes the lock, gives it back or leaves lock and shares alone.
LEMMA LockSteps ==
  ASSUME Inv, [Next]_vars
  PROVE  (\E d \in Days : LockStep(d)) \/ UNCHANGED <<lock, fundShares>>
  <1>1. ASSUME NEW d \in Days, SettlementRun(d) \/ NoOrdersBatch(d)  PROVE  LockStep(d)
    <2>1. ASSUME NEW live \in BOOLEAN, OpenBatch(d, live)  PROVE  LockStep(d)
      <3>1. lock \in {NoBatch, d} /\ lock' = d /\ fundShares' = fundShares
        BY <2>1 DEF OpenBatch, Plannable, LockFree, money
      <3> QED  BY <3>1 DEF LockStep, Lock!Take
    <2>2. CASE RejectBatch(d)
      <3>1. PICK locked \in BOOLEAN :
               FailPreExternal(d, Pending(d), locked) /\ (locked => LockFree(d))
        BY <2>2 DEF RejectBatch
      <3>2. Pending(d) \in SUBSET Orders
        BY DEF Pending
      <3> QED  BY <3>1, <3>2, FailPreExternalLock DEF LockFree
    <2>3. CASE ResumeBatch(d) \/ NoOrdersBatch(d)
      BY <2>3 DEF ResumeBatch, NoOrdersBatch, money, LockStep
    <2> QED  BY <1>1, <2>1, <2>2, <2>3 DEF SettlementRun
  <1>2. ASSUME NEW o \in Orders, RevertOrder(o)
        PROVE  (\E d \in Days : LockStep(d)) \/ UNCHANGED <<lock, fundShares>>
    <2>1. PICK d \in Days : d = orders[o].batch
      BY <1>2 DEF RevertOrder, FailOrder, Collecting, Inv, SettlingIsBatched
    <2>2. fundShares' = fundShares /\ lock' = IF lock \in {NoBatch, d} THEN NoBatch ELSE lock
      BY <1>2, <2>1 DEF RevertOrder, FailOrder, LockFree
    <2> QED  BY <2>2 DEF LockStep, Lock!GiveBack
  <1>3. ASSUME NEW d \in Days, FinalizePositive(d) \/ FinalizeNegative(d) \/ RefusePositive(d)
        PROVE  LockStep(d)
    BY <1>3 DEF FinalizePositive, FinalizeNegative, RefusePositive, PositiveReady, FailBatch,
                Account, LockStep, Lock!GiveBack
  <1>4. ASSUME NEW d \in Days, FailTargets(d)  PROVE  LockStep(d)
    <2>1. FailPreExternal(d, Attached(d), lock = d) /\ Attached(d) \in SUBSET Orders
      BY <1>4 DEF FailTargets, Attached
    <2> QED  BY <2>1, FailPreExternalLock
  <1>5. ASSUME \/ OrderEntry
               \/ NextDay
               \/ \E o \in Orders : CollectOrder(o) \/ \E release \in BOOLEAN : FailInPass(o, release)
               \/ \E d \in Days : CloseCollection(d) \/ StopNegative(d)
               \/ UNCHANGED vars
        PROVE  UNCHANGED <<lock, fundShares>>
    BY <1>5 DEF OrderEntry, CreateBuyOrder, CreateRedeemOrder, NextDay, CollectOrder, FailInPass,
                FailOrder, CloseCollection, StopNegative, money, vars
  <1> QED
    BY <1>1, <1>2, <1>3, <1>4, <1>5 DEF Next, Collection, Accounting

\* The pricing lock of the code is the abstract one: lock_pricing_for_fund and
\* unlock_pricing_for_fund serialise the batches of a fund, and only the batch
\* that gives the lock back changes the fund's shares.
THEOREM LockRefined == Spec => KeepsLock
  <1>1. Init => Lock!Init
    BY DEF Init, Lock!Init
  <1>2. Inv /\ [Next]_vars => [Lock!Next]_(Lock!lockvars)
    BY LockSteps DEF LockStep, Lock!Next, Lock!lockvars
  <1> QED
    BY <1>1, <1>2, Invariance, PTL DEF Spec, KeepsLock, Lock!Spec

-----------------------------------------------------------------------------
(* Sums of orders.  The operators of Settlement read the current rows; here *)
(* the rows are an argument, so that what is said of them holds of the rows *)
(* before and after a step.                                                 *)

SumAt(w, S) == Sum([o \in Orders |-> w[o].qty], S)

IssuesAt(w, p, S) == Sum([o \in Orders |-> w[o].qty \div p], S)

HeldAt(v) == Sum([u \in Users |-> v[u].shares], Users)

RedeemsAt(w, u) ==
    {o \in Orders : /\ w[o].side = "redeem"
                    /\ w[o].user = u
                    /\ w[o].status # "success"
                    /\ ~w[o].released}

BuysAt(w, u) ==
    {o \in Orders : /\ w[o].side = "buy"
                    /\ w[o].user = u
                    /\ ~w[o].collected
                    /\ ~w[o].released}

TwiceAt(w, b, u) ==
    {o \in Orders : /\ w[o].side = "buy"
                    /\ w[o].user = u
                    /\ w[o].status = "success"
                    /\ b[w[o].batch].buy < b[w[o].batch].redeem * b[w[o].batch].price}

\* The same sums as MapThenSumSet adds them up.
TotalAt(w, S) == LET Q(o) == w[o].qty IN MapThenSumSet(Q, S)

IssuedAt(w, p, S) == LET I(o) == w[o].qty \div p IN MapThenSumSet(I, S)

SharesAt(v) == LET H(u) == v[u].shares IN MapThenSumSet(H, Users)

\* There are finitely many orders and users.
LEMMA Finite ==
  /\ IsFiniteSet(Users) /\ IsFiniteSet(Orders)
  /\ \A S \in SUBSET Orders : IsFiniteSet(S)
  BY SettlementAssumption, FS_Subset

\* Total is a sum of quantities.
LEMMA TotalIsSum ==
  ASSUME NEW w, \A o \in Orders : w[o].qty \in Nat, NEW S \in SUBSET Orders
  PROVE  TotalAt(w, S) = SumAt(w, S)
  <1> DEFINE f == [o \in Orders |-> w[o].qty]
             G(g) == g = [s \in SUBSET S |->
                             IF s = {} THEN 0
                             ELSE w[CHOOSE x \in s : TRUE].qty + g[s \ {CHOOSE x \in s : TRUE}]]
  <1>1. TotalAt(w, S) = (CHOOSE g : G(g))[S]
    BY DEF TotalAt, MapThenSumSet, MapThenFoldSet
  <1>2. \A g : G(g) <=> Folded(f, S, g)
    BY DEF Folded
  <1>3. IsFiniteSet(S) /\ \A x \in S : f[x] \in Nat
    BY Finite
  <1>4. PICK g : Folded(f, S, g)
    BY <1>3, FoldedExists
  <1> HIDE DEF G, f
  <1>5. Folded(f, S, CHOOSE h : G(h))
    BY <1>2, <1>4
  <1>6. TotalAt(w, S) = Sum(f, S)
    BY <1>1, <1>3, <1>5, FoldedIsSum
  <1> QED  BY <1>6 DEF f, SumAt

\* IssuedFor is a sum of issues.
LEMMA IssuedIsSum ==
  ASSUME NEW w, \A o \in Orders : w[o].qty \in Nat, NEW p \in Nat, p > 0, NEW S \in SUBSET Orders
  PROVE  IssuedAt(w, p, S) = IssuesAt(w, p, S)
  <1> DEFINE f == [o \in Orders |-> w[o].qty \div p]
             G(g) == g = [s \in SUBSET S |->
                             IF s = {} THEN 0
                             ELSE (w[CHOOSE x \in s : TRUE].qty \div p)
                                     + g[s \ {CHOOSE x \in s : TRUE}]]
  <1>1. IssuedAt(w, p, S) = (CHOOSE g : G(g))[S]
    BY DEF IssuedAt, MapThenSumSet, MapThenFoldSet
  <1>2. \A g : G(g) <=> Folded(f, S, g)
    BY DEF Folded
  <1>3. IsFiniteSet(S) /\ \A x \in S : f[x] \in Nat
    BY Finite
  <1>4. PICK g : Folded(f, S, g)
    BY <1>3, FoldedExists
  <1> HIDE DEF G, f
  <1>5. Folded(f, S, CHOOSE h : G(h))
    BY <1>2, <1>4
  <1>6. IssuedAt(w, p, S) = Sum(f, S)
    BY <1>1, <1>3, <1>5, FoldedIsSum
  <1> QED  BY <1>6 DEF f, IssuesAt

\* The shares of all holders are a sum.
LEMMA SharesAreSum ==
  ASSUME NEW v, \A u \in Users : v[u].shares \in Nat
  PROVE  SharesAt(v) = HeldAt(v)
  <1> DEFINE f == [u \in Users |-> v[u].shares]
             G(g) == g = [s \in SUBSET Users |->
                             IF s = {} THEN 0
                             ELSE v[CHOOSE x \in s : TRUE].shares + g[s \ {CHOOSE x \in s : TRUE}]]
  <1>1. SharesAt(v) = (CHOOSE g : G(g))[Users]
    BY DEF SharesAt, MapThenSumSet, MapThenFoldSet
  <1>2. \A g : G(g) <=> Folded(f, Users, g)
    BY DEF Folded
  <1>3. IsFiniteSet(Users) /\ \A x \in Users : f[x] \in Nat
    BY Finite
  <1>4. PICK g : Folded(f, Users, g)
    BY <1>3, FoldedExists
  <1> HIDE DEF G, f
  <1>5. Folded(f, Users, CHOOSE h : G(h))
    BY <1>2, <1>4
  <1>6. SharesAt(v) = Sum(f, Users)
    BY <1>1, <1>3, <1>5, FoldedIsSum
  <1> QED  BY <1>6 DEF f, HeldAt

\* The operators of Settlement, of the current rows and of the next ones.
LEMMA SumsNow ==
  ASSUME \A o \in Orders : orders[o].qty \in Nat
  PROVE  /\ \A S \in SUBSET Orders : Total(S) = SumAt(orders, S)
         /\ \A S \in SUBSET Orders : \A p \in Nat \ {0} : IssuedFor(S, p) = IssuesAt(orders, p, S)
  <1>1. \A S \in SUBSET Orders : Total(S) = TotalAt(orders, S)
    BY DEF Total, Qty, TotalAt, MapThenSumSet, MapThenFoldSet
  <1>2. \A S \in SUBSET Orders : \A p \in Nat \ {0} : IssuedFor(S, p) = IssuedAt(orders, p, S)
    BY DEF IssuedFor, Issued, IssuedAt, MapThenSumSet, MapThenFoldSet
  <1> QED  BY <1>1, <1>2, TotalIsSum, IssuedIsSum

\* What the properties about money say, in these sums.
LEMMA MoneyNow ==
  ASSUME \A o \in Orders : orders[o].qty \in Nat, \A u \in Users : position[u].shares \in Nat
  PROVE  /\ SharesBacked <=> fundShares = HeldAt(position)
         /\ RedeemReserveBacked <=>
               \A u \in Users : position[u].reserved = SumAt(orders, RedeemsAt(orders, u))
         /\ BuyReserveAccounted <=>
               \A u \in Users : wallet[u].reserved + SumAt(orders, TwiceAt(orders, batch, u))
                                   = SumAt(orders, BuysAt(orders, u))
  <1>1. SharesBacked <=> fundShares = SharesAt(position)
    BY DEF SharesBacked, SharesAt, MapThenSumSet, MapThenFoldSet
  <1>2. \A u \in Users : /\ OpenRedeems(u) = RedeemsAt(orders, u) /\ OpenRedeems(u) \subseteq Orders
                         /\ OpenBuys(u) = BuysAt(orders, u) /\ OpenBuys(u) \subseteq Orders
                         /\ TwiceTaken(u) = TwiceAt(orders, batch, u) /\ TwiceTaken(u) \subseteq Orders
    BY DEF OpenRedeems, RedeemsAt, OpenBuys, BuysAt, TwiceTaken, TwiceAt
  <1> QED
    BY <1>1, <1>2, SumsNow, SharesAreSum DEF RedeemReserveBacked, BuyReserveAccounted

\* What they say of the state after a step, in these sums.
LEMMA MoneyNext ==
  ASSUME \A o \in Orders : orders'[o].qty \in Nat, \A u \in Users : position'[u].shares \in Nat
  PROVE  /\ SharesBacked' <=> fundShares' = HeldAt(position')
         /\ RedeemReserveBacked' <=>
               \A u \in Users : position'[u].reserved = SumAt(orders', RedeemsAt(orders', u))
         /\ BuyReserveAccounted' <=>
               \A u \in Users : wallet'[u].reserved + SumAt(orders', TwiceAt(orders', batch', u))
                                   = SumAt(orders', BuysAt(orders', u))
  <1>1. SharesBacked' <=> fundShares' = SharesAt(position')
    BY DEF SharesBacked, SharesAt, MapThenSumSet, MapThenFoldSet
  <1>2. RedeemReserveBacked' <=>
           \A u \in Users : position'[u].reserved = TotalAt(orders', RedeemsAt(orders', u))
    BY DEF RedeemReserveBacked, Total, Qty, TotalAt, OpenRedeems, RedeemsAt, MapThenSumSet,
           MapThenFoldSet
  <1>3. BuyReserveAccounted' <=>
           \A u \in Users : wallet'[u].reserved + TotalAt(orders', TwiceAt(orders', batch', u))
                               = TotalAt(orders', BuysAt(orders', u))
    BY DEF BuyReserveAccounted, Total, Qty, TotalAt, OpenBuys, BuysAt, TwiceTaken, TwiceAt,
           MapThenSumSet, MapThenFoldSet
  <1>4. \A u \in Users : /\ RedeemsAt(orders', u) \subseteq Orders
                         /\ BuysAt(orders', u) \subseteq Orders
                         /\ TwiceAt(orders', batch', u) \subseteq Orders
    BY DEF RedeemsAt, BuysAt, TwiceAt
  <1> QED
    BY <1>1, <1>2, <1>3, <1>4, TotalIsSum, SharesAreSum

-----------------------------------------------------------------------------
(* The invariant of the money.                                             *)

Awaiting == {"awaiting_positive_net_execution", "awaiting_negative_net_execution"}

\* The orders of one side in the batch of day d.
Att(w, d, side) == {o \in Orders : w[o].batch = d /\ w[o].side = side}

\* What the status of an order says of the rest of its row.
RowTells(r) ==
    /\ r.status \in {"none", "pending"} <=> r.batch = NoBatch
    /\ r.status = "none" => r.side = "buy" /\ r.qty = 0
    /\ r.status \in {"none", "pending", "settling"} => ~r.collected
    /\ r.status = "buy_collected" => r.collected
    /\ r.released => r.status = "failed_requires_review" /\ ~r.collected

\* A batch in flight plans what its orders add up to, whatever became of its buy orders.
\* Its redemptions are still to be settled; it executes its net only when all its buys
\* are collected, on the side its plan is on.
FlightTells(w, b, d) ==
    /\ b.price > 0
    /\ b.issue = IssuesAt(w, b.price, Att(w, d, "buy"))
    /\ b.redeem = SumAt(w, Att(w, d, "redeem"))
    /\ \A o \in Att(w, d, "redeem") : w[o].status \in {"settling"} \cup Awaiting
    /\ b.status \in Awaiting =>
          /\ b.status = "awaiting_positive_net_execution" <=> b.buy >= b.redeem * b.price
          /\ \A o \in Att(w, d, "buy") : w[o].status = "buy_collected"

OrdersTell == \A o \in Orders : RowTells(orders[o])

NavTells == \A d \in Days : nav[d] # NoRow => nav[d].price > 0

Unbegun == \A d \in Days : batch[d].status = "none" => \A o \in Orders : orders[o].batch # d

FlightsTell == \A d \in Days : batch[d].status \in InFlight => FlightTells(orders, batch[d], d)

Claims == SharesBacked /\ RedeemReserveBacked /\ BuyReserveAccounted

Money == TypeOK /\ OrdersTell /\ NavTells /\ Unbegun /\ FlightsTell /\ Claims

MoneyInv == Inv /\ Money

-----------------------------------------------------------------------------
Rows == [Orders -> OrderRows]

\* The values that are summed up are natural numbers.
LEMMA Quantities ==
  ASSUME NEW w \in Rows
  PROVE  /\ \A o \in Orders : w[o].qty \in Nat
         /\ \A p \in Nat \ {0} : \A o \in Orders : w[o].qty \div p \in Nat
  <1>1. \A o \in Orders : w[o].qty \in Nat
    BY DEF Rows, OrderRows
  <1> QED  BY <1>1

\* Sums of quantities: of a part, of the rest, and of two parts.
LEMMA SumAtParts ==
  ASSUME NEW w \in Rows, NEW S \in SUBSET Orders
  PROVE  /\ SumAt(w, S) \in Nat
         /\ \A R \in SUBSET S : /\ SumAt(w, R) \in Nat /\ SumAt(w, R) <= SumAt(w, S)
                                /\ SumAt(w, S \ R) = SumAt(w, S) - SumAt(w, R)
         /\ \A R \in SUBSET Orders :
               S \cap R = {} => SumAt(w, S \cup R) = SumAt(w, S) + SumAt(w, R)
  <1> DEFINE f == [o \in Orders |-> w[o].qty]
  <1>1. \A o \in Orders : f[o] \in Nat
    BY Quantities
  <1>2. \A R \in SUBSET Orders : SumAt(w, R) = Sum(f, R) /\ IsFiniteSet(R)
    BY Finite DEF SumAt
  <1> HIDE DEF f
  <1>3. Sum(f, S) \in Nat
    BY <1>1, <1>2, SumTyped
  <1>4. ASSUME NEW R \in SUBSET S
        PROVE  /\ Sum(f, R) \in Nat /\ Sum(f, R) <= Sum(f, S)
               /\ Sum(f, S \ R) = Sum(f, S) - Sum(f, R)
    BY <1>1, <1>2, SumOfPart
  <1>5. ASSUME NEW R \in SUBSET Orders, S \cap R = {}
        PROVE  Sum(f, S \cup R) = Sum(f, S) + Sum(f, R)
    BY <1>1, <1>2, <1>5, SumOfTwo
  <1>6. \A R \in SUBSET S : R \in SUBSET Orders /\ S \ R \in SUBSET Orders
    OBVIOUS
  <1>7. \A R \in SUBSET Orders : S \cup R \in SUBSET Orders
    OBVIOUS
  <1> QED  BY <1>2, <1>3, <1>4, <1>5, <1>6, <1>7

\* The shares issued for a set of orders are a natural number.
LEMMA IssuesTyped ==
  ASSUME NEW w \in Rows, NEW p \in Nat \ {0}, NEW S \in SUBSET Orders
  PROVE  IssuesAt(w, p, S) \in Nat
  <1> DEFINE f == [o \in Orders |-> w[o].qty \div p]
  <1>1. \A o \in S : f[o] \in Nat
    BY Quantities
  <1> HIDE DEF f
  <1>2. Sum(f, S) \in Nat
    BY <1>1, Finite, SumTyped
  <1> QED  BY <1>2 DEF IssuesAt, f

\* Rows with the same quantities have the same sums.
LEMMA SumAtSame ==
  ASSUME NEW v, NEW w, NEW S \in SUBSET Orders, \A o \in S : v[o].qty = w[o].qty
  PROVE  SumAt(v, S) = SumAt(w, S) /\ \A p : IssuesAt(v, p, S) = IssuesAt(w, p, S)
  <1>1. SumAt(v, S) = SumAt(w, S)
    <2> DEFINE f == [o \in Orders |-> v[o].qty]
               g == [o \in Orders |-> w[o].qty]
    <2>1. \A o \in S : f[o] = g[o]
      OBVIOUS
    <2> HIDE DEF f, g
    <2>2. Sum(f, S) = Sum(g, S)
      BY <2>1, SumOfSame
    <2> QED  BY <2>2 DEF SumAt, f, g
  <1>2. ASSUME NEW p  PROVE IssuesAt(v, p, S) = IssuesAt(w, p, S)
    <2> DEFINE f == [o \in Orders |-> v[o].qty \div p]
               g == [o \in Orders |-> w[o].qty \div p]
    <2>1. \A o \in S : f[o] = g[o]
      OBVIOUS
    <2> HIDE DEF f, g
    <2>2. Sum(f, S) = Sum(g, S)
      BY <2>1, SumOfSame
    <2> QED  BY <2>2 DEF IssuesAt, f, g
  <1> QED  BY <1>1, <1>2

\* One row changes: the sums over two sets that differ in it at most.
LEMMA SumAtOne ==
  ASSUME NEW v \in Rows, NEW w \in Rows, NEW o \in Orders,
         \A p \in Orders \ {o} : w[p].qty = v[p].qty,
         NEW S \in SUBSET Orders, NEW R \in SUBSET Orders, S \ {o} = R \ {o}
  PROVE  \E n \in Nat : /\ SumAt(v, S) = n + (IF o \in S THEN v[o].qty ELSE 0)
                        /\ SumAt(w, R) = n + (IF o \in R THEN w[o].qty ELSE 0)
  <1> DEFINE X == S \ {o}
  <1>1. X \in SUBSET Orders /\ SumAt(v, X) \in Nat
    BY SumAtParts
  <1>2. SumAt(w, X) = SumAt(v, X)
    BY <1>1, SumAtSame
  <1>3. ASSUME NEW z \in Rows, NEW Y \in SUBSET Orders, Y \ {o} = X
        PROVE  SumAt(z, Y) = SumAt(z, X) + (IF o \in Y THEN z[o].qty ELSE 0)
    <2> DEFINE f == [p \in Orders |-> z[p].qty]
    <2>1. \A p \in Orders : f[p] \in Nat
      BY Quantities
    <2>2. IsFiniteSet(X) /\ f[o] = z[o].qty /\ o \notin X
      BY <1>1, Finite
    <2>3. SumAt(z, X) = Sum(f, X) /\ SumAt(z, Y) = Sum(f, Y) /\ SumAt(z, X) \in Nat
      BY <1>1, SumAtParts DEF SumAt
    <2> HIDE DEF f, X
    <2>4. Sum(f, X \cup {o}) = Sum(f, X) + f[o]
      BY <1>1, <2>1, <2>2, SumOfOneMore
    <2>5. CASE o \in Y
      <3>1. Y = X \cup {o}
        BY <1>3, <2>5
      <3> QED  BY <2>2, <2>3, <2>4, <2>5, <3>1
    <2>6. CASE o \notin Y
      <3>1. Y = X
        BY <1>3, <2>6
      <3> QED  BY <2>3, <2>6, <3>1
    <2> QED  BY <2>5, <2>6
  <1>4. SumAt(v, S) = SumAt(v, X) + (IF o \in S THEN v[o].qty ELSE 0)
    BY <1>3
  <1>5. SumAt(w, R) = SumAt(w, X) + (IF o \in R THEN w[o].qty ELSE 0)
    BY <1>3
  <1> HIDE DEF X
  <1> QED  BY <1>1, <1>2, <1>4, <1>5

-----------------------------------------------------------------------------
(* What a step has to show.                                                *)

Positions == [Users -> [shares : Nat, reserved : Nat]]
Wallets == [Users -> [balance : Nat, reserved : Int]]

\* The invariant, with the sums of this module.
LEMMA MoneyFacts ==
  ASSUME MoneyInv
  PROVE  /\ orders \in Rows /\ batch \in [Days -> Plans]
         /\ position \in Positions /\ wallet \in Wallets
         /\ fundShares = HeldAt(position)
         /\ \A u \in Users : position[u].reserved = SumAt(orders, RedeemsAt(orders, u))
         /\ \A u \in Users : wallet[u].reserved + SumAt(orders, TwiceAt(orders, batch, u))
                                = SumAt(orders, BuysAt(orders, u))
  <1>1. /\ orders \in Rows /\ batch \in [Days -> Plans]
        /\ position \in Positions /\ wallet \in Wallets
    BY DEF MoneyInv, Money, TypeOK, Rows, Positions, Wallets
  <1>2. (\A o \in Orders : orders[o].qty \in Nat) /\ (\A u \in Users : position[u].shares \in Nat)
    BY <1>1 DEF Rows, OrderRows, Positions
  <1>3. SharesBacked /\ RedeemReserveBacked /\ BuyReserveAccounted
    BY DEF MoneyInv, Money, Claims
  <1> QED  BY <1>1, <1>2, <1>3, MoneyNow

\* The properties of the next state, with the sums of this module.
LEMMA ClaimsNext ==
  ASSUME orders' \in Rows, position' \in Positions,
         fundShares' = HeldAt(position'),
         \A u \in Users : position'[u].reserved = SumAt(orders', RedeemsAt(orders', u)),
         \A u \in Users : wallet'[u].reserved + SumAt(orders', TwiceAt(orders', batch', u))
                             = SumAt(orders', BuysAt(orders', u))
  PROVE  Claims'
  <1>1. (\A o \in Orders : orders'[o].qty \in Nat) /\ (\A u \in Users : position'[u].shares \in Nat)
    BY DEF Rows, OrderRows, Positions
  <1> QED  BY <1>1, MoneyNext DEF Claims

SameNumbers(b, c) ==
    /\ b.price = c.price /\ b.before = c.before /\ b.buy = c.buy
    /\ b.issue = c.issue /\ b.redeem = c.redeem

\* Setting the status of a batch keeps the numbers of its plan, and every other batch.
LEMMA StatusKeepsNumbers ==
  ASSUME batch \in [Days -> Plans], NEW d \in Days, NEW s \in BatchStatuses,
         batch' = [batch EXCEPT ![d].status = s]
  PROVE  /\ batch' \in [Days -> Plans]
         /\ batch'[d].status = s
         /\ \A e \in Days : SameNumbers(batch'[e], batch[e])
         /\ \A e \in Days \ {d} : batch'[e] = batch[e]
  <1> DEFINE row == [batch[d] EXCEPT !.status = s]
  <1>1. batch[d] \in Plans
    OBVIOUS
  <1>2. row \in Plans /\ row.status = s /\ SameNumbers(row, batch[d])
    BY <1>1 DEF Plans, SameNumbers
  <1>3. batch' = [batch EXCEPT ![d] = row]
    OBVIOUS
  <1> HIDE DEF row
  <1>4. \A e \in Days : SameNumbers(batch[e], batch[e])
    BY DEF SameNumbers
  <1> QED  BY <1>2, <1>3, <1>4

\* A flight whose plan and whose orders' sides and quantities are kept.
LEMMA FlightKept ==
  ASSUME NEW v \in Rows, NEW w \in Rows, NEW b \in Plans, NEW c \in Plans, NEW d \in Days,
         FlightTells(v, b, d), SameNumbers(c, b),
         \A o \in Orders : w[o].batch = d <=> v[o].batch = d,
         \A o \in Orders : v[o].batch = d => w[o].side = v[o].side /\ w[o].qty = v[o].qty,
         \A o \in Att(w, d, "redeem") : w[o].status \in {"settling"} \cup Awaiting,
         c.status \in Awaiting =>
            /\ c.status = "awaiting_positive_net_execution" <=> c.buy >= c.redeem * c.price
            /\ \A o \in Att(w, d, "buy") : w[o].status = "buy_collected"
  PROVE  FlightTells(w, c, d)
  <1>1. \A side : Att(w, d, side) = Att(v, d, side) /\ Att(v, d, side) \in SUBSET Orders
    BY DEF Att
  <1>2. SumAt(w, Att(w, d, "redeem")) = SumAt(v, Att(v, d, "redeem"))
    <2>1. \A o \in Att(v, d, "redeem") : w[o].qty = v[o].qty
      BY DEF Att
    <2> QED  BY <1>1, <2>1, SumAtSame
  <1>3. \A p : IssuesAt(w, p, Att(w, d, "buy")) = IssuesAt(v, p, Att(v, d, "buy"))
    <2>1. \A o \in Att(v, d, "buy") : w[o].qty = v[o].qty
      BY DEF Att
    <2> QED  BY <1>1, <2>1, SumAtSame
  <1>4. c.price > 0 /\ c.issue = b.issue /\ c.redeem = b.redeem /\ c.price = b.price
    BY DEF FlightTells, SameNumbers
  <1> QED  BY <1>2, <1>3, <1>4 DEF FlightTells

\* What no order claims differently after a step is claimed as before.
LEMMA ClaimsKept ==
  ASSUME MoneyInv, orders' \in Rows, UNCHANGED money,
         \A o \in Orders : /\ orders'[o].side = orders[o].side
                           /\ orders'[o].user = orders[o].user
                           /\ orders'[o].qty = orders[o].qty
                           /\ orders'[o].collected = orders[o].collected
                           /\ orders'[o].released = orders[o].released
                           /\ orders'[o].status = "success" <=> orders[o].status = "success"
                           /\ orders[o].status = "success" =>
                                 /\ orders'[o].batch = orders[o].batch
                                 /\ SameNumbers(batch'[orders[o].batch], batch[orders[o].batch])
  PROVE  Claims'
  <1>1. /\ fundShares' = fundShares /\ wallet' = wallet /\ position' = position
    BY DEF money
  <1>2. ASSUME NEW u \in Users
        PROVE  /\ RedeemsAt(orders', u) = RedeemsAt(orders, u)
               /\ BuysAt(orders', u) = BuysAt(orders, u)
               /\ TwiceAt(orders', batch', u) = TwiceAt(orders, batch, u)
    BY DEF RedeemsAt, BuysAt, TwiceAt, SameNumbers
  <1>3. \A S \in SUBSET Orders : SumAt(orders', S) = SumAt(orders, S)
    BY SumAtSame
  <1>4. \A u \in Users : /\ RedeemsAt(orders, u) \in SUBSET Orders
                         /\ BuysAt(orders, u) \in SUBSET Orders
                         /\ TwiceAt(orders, batch, u) \in SUBSET Orders
    BY DEF RedeemsAt, BuysAt, TwiceAt
  <1> QED  BY <1>1, <1>2, <1>3, <1>4, MoneyFacts, ClaimsNext

-----------------------------------------------------------------------------
(* The money, action by action.                                            *)

\* An order that was settled is in the batch of a day.
LEMMA SuccessIsBatched ==
  ASSUME MoneyInv, NEW o \in Orders, orders[o].status \notin {"none", "pending"}
  PROVE  orders[o].batch \in Days
  <1>1. orders[o] \in OrderRows /\ RowTells(orders[o])
    BY DEF MoneyInv, Money, TypeOK, OrdersTell
  <1> QED  BY <1>1 DEF OrderRows, RowTells

\* Only the status of one batch changes, which does not come to execute its net.
LEMMA StatusMoney ==
  ASSUME MoneyInv, NEW d \in Days, NEW s \in BatchStatuses \ {"none"},
         batch' = [batch EXCEPT ![d].status = s],
         UNCHANGED <<today, nav, orders, lock, money>>,
         s \in InFlight => s \notin Awaiting /\ batch[d].status \in InFlight
  PROVE  Money'
  <1>1. /\ batch' \in [Days -> Plans] /\ batch'[d].status = s
        /\ \A e \in Days : SameNumbers(batch'[e], batch[e])
        /\ \A e \in Days \ {d} : batch'[e] = batch[e]
    BY StatusKeepsNumbers, MoneyFacts
  <1>2. /\ orders' = orders /\ fundShares' = fundShares /\ wallet' = wallet /\ position' = position
        /\ orders \in Rows
    BY MoneyFacts DEF money
  <1>3. TypeOK' /\ OrdersTell' /\ NavTells'
    BY <1>1, <1>2 DEF MoneyInv, Money, TypeOK, OrdersTell, NavTells
  <1>4. Unbegun'
    BY <1>1, <1>2 DEF MoneyInv, Money, Unbegun
  <1>5. ASSUME NEW e \in Days, batch'[e].status \in InFlight
        PROVE  FlightTells(orders', batch'[e], e)
    <2>1. batch[e].status \in InFlight
      BY <1>1, <1>5
    <2>2. FlightTells(orders, batch[e], e)
      BY <2>1 DEF MoneyInv, Money, FlightsTell
    <2>3. CASE e # d
      BY <1>1, <1>2, <2>2, <2>3
    <2>4. CASE e = d
      <3>1. batch'[d].status \notin Awaiting
        BY <1>1, <1>5, <2>4
      <3>2. batch[d] \in Plans /\ batch'[d] \in Plans
        BY <1>1, MoneyFacts
      <3>3. \A o \in Att(orders, d, "redeem") : orders[o].status \in {"settling"} \cup Awaiting
        BY <2>2, <2>4 DEF FlightTells
      <3>4. FlightTells(orders, batch'[d], d)
        BY <1>1, <1>2, <2>2, <2>4, <3>1, <3>2, <3>3, FlightKept
      <3> QED  BY <1>2, <2>4, <3>4
    <2> QED  BY <2>3, <2>4
  <1>6. Claims'
    <2>1. \A o \in Orders : orders[o].status = "success" => orders[o].batch \in Days
      BY SuccessIsBatched
    <2> QED  BY <1>1, <1>2, <2>1, ClaimsKept
  <1> QED  BY <1>3, <1>4, <1>5, <1>6 DEF Money, FlightsTell

\* A cutoff passes.
LEMMA NextDayMoney ==
  ASSUME MoneyInv, NextDay
  PROVE  Money'
  <1>1. /\ UNCHANGED <<orders, batch, lock, money>>
        /\ orders' = orders /\ fundShares' = fundShares /\ wallet' = wallet /\ position' = position
    BY DEF NextDay, money
  <1>2. today' \in 1 .. LastDay + 1
    <2>1. today \in 1 .. LastDay /\ today' = today + 1 /\ LastDay \in Nat
      BY SettlementAssumption DEF NextDay, Days
    <2> QED  BY <2>1
  <1>3. nav' \in [Days -> [price : Nat, shares : Nat]] /\ NavTells'
    <2>1. nav \in [Days -> [price : Nat, shares : Nat]] /\ NavTells /\ fundShares \in Nat
      BY DEF MoneyInv, Money, TypeOK
    <2>2. CASE UNCHANGED nav
      BY <2>1, <2>2 DEF NavTells
    <2>3. ASSUME NEW p \in Prices, nav' = [nav EXCEPT ![today] = [price |-> p, shares |-> fundShares]]
          PROVE  nav' \in [Days -> [price : Nat, shares : Nat]] /\ NavTells'
      <3>1. p \in Nat /\ p > 0
        BY SettlementAssumption
      <3> QED  BY <2>1, <2>3, <3>1 DEF NavTells
    <2> QED  BY <2>2, <2>3 DEF NextDay
  <1>4. TypeOK'
    BY <1>1, <1>2, <1>3 DEF MoneyInv, Money, TypeOK
  <1>5. OrdersTell' /\ Unbegun' /\ FlightsTell'
    BY <1>1 DEF MoneyInv, Money, OrdersTell, Unbegun, FlightsTell
  <1>6. Claims'
    BY <1>1, MoneyFacts, ClaimsKept DEF SameNumbers
  <1> QED  BY <1>3, <1>4, <1>5, <1>6 DEF Money

\* An order is entered: a row that stood for none becomes a pending order.
LEMMA PlacedRow ==
  ASSUME MoneyInv, NEW side \in Sides, NEW u \in Users, NEW q \in Amounts, Place(side, u, q)
  PROVE  \E o \in Orders :
            /\ orders[o].status = "none" /\ orders[o].side = "buy" /\ orders[o].qty = 0
            /\ orders[o].batch = NoBatch /\ ~orders[o].collected /\ ~orders[o].released
            /\ orders' \in Rows /\ q \in Nat
            /\ \A p \in Orders \ {o} : orders'[p] = orders[p]
            /\ orders'[o].side = side /\ orders'[o].user = u /\ orders'[o].qty = q
            /\ orders'[o].status = "pending" /\ orders'[o].batch = NoBatch
            /\ ~orders'[o].collected /\ ~orders'[o].released
  <1>1. PICK o \in Orders, d \in Days :
           /\ orders[o].status = "none"
           /\ orders' = [orders EXCEPT ![o] =
                            [NoOrder EXCEPT !.side = side, !.user = u, !.qty = q,
                                            !.day = d, !.status = "pending"]]
    BY DEF Place
  <1> DEFINE row == [NoOrder EXCEPT !.side = side, !.user = u, !.qty = q,
                                    !.day = d, !.status = "pending"]
  <1>2. q \in Nat /\ d \in 0 .. LastDay
    BY SettlementAssumption DEF Days
  <1>3. /\ row \in OrderRows
        /\ row.side = side /\ row.user = u /\ row.qty = q /\ row.status = "pending"
        /\ row.batch = NoBatch /\ ~row.collected /\ ~row.released
    BY <1>2 DEF NoOrder, OrderRows, OrderStatuses, NoBatch
  <1>4. orders' = [orders EXCEPT ![o] = row]
    BY <1>1
  <1> HIDE DEF row
  <1>5. /\ orders \in Rows /\ RowTells(orders[o])
    BY MoneyFacts DEF MoneyInv, Money, OrdersTell
  <1>6. /\ orders' \in Rows /\ orders'[o] = row /\ \A p \in Orders \ {o} : orders'[p] = orders[p]
    BY <1>3, <1>4, <1>5 DEF Rows
  <1>7. /\ orders[o].side = "buy" /\ orders[o].qty = 0 /\ orders[o].batch = NoBatch
        /\ ~orders[o].collected /\ ~orders[o].released
    BY <1>1, <1>5 DEF RowTells
  <1> QED  BY <1>1, <1>2, <1>3, <1>6, <1>7

\* The flights, when every row in a batch stays as it is and no row comes to it.
LEMMA FlightsUntouched ==
  ASSUME MoneyInv, orders' \in Rows, UNCHANGED batch,
         \A o \in Orders : \/ orders'[o] = orders[o]
                           \/ orders[o].batch = NoBatch /\ orders'[o].batch = NoBatch
  PROVE  Unbegun' /\ FlightsTell'
  <1>1. ASSUME NEW d \in Days
        PROVE  /\ \A o \in Orders : orders'[o].batch = d <=> orders[o].batch = d
               /\ \A o \in Orders : orders[o].batch = d => orders'[o] = orders[o]
    BY NoBatchIsNoDay
  <1>2. ASSUME NEW d \in Days, batch[d].status \in InFlight
        PROVE  FlightTells(orders', batch[d], d)
    <2>1. FlightTells(orders, batch[d], d)
      BY <1>2 DEF MoneyInv, Money, FlightsTell
    <2>2. \A side : Att(orders', d, side) = Att(orders, d, side)
      BY <1>1 DEF Att
    <2>3. \A side : \A o \in Att(orders, d, side) : orders'[o] = orders[o]
      BY <1>1 DEF Att
    <2>4. SameNumbers(batch[d], batch[d]) /\ batch[d] \in Plans /\ orders \in Rows
      BY MoneyFacts DEF SameNumbers
    <2>5. /\ \A o \in Att(orders', d, "redeem") : orders'[o].status \in {"settling"} \cup Awaiting
          /\ batch[d].status \in Awaiting =>
                /\ batch[d].status = "awaiting_positive_net_execution"
                      <=> batch[d].buy >= batch[d].redeem * batch[d].price
                /\ \A o \in Att(orders', d, "buy") : orders'[o].status = "buy_collected"
      BY <2>1, <2>2, <2>3 DEF FlightTells
    <2> QED  BY <1>1, <2>1, <2>4, <2>5, FlightKept
  <1>3. Unbegun'
    BY <1>1 DEF MoneyInv, Money, Unbegun
  <1> QED  BY <1>2, <1>3 DEF FlightsTell

\* What one row adds to the claims on the reserves of user u.
RedeemOf(r, u) ==
    IF r.side = "redeem" /\ r.user = u /\ r.status # "success" /\ ~r.released THEN r.qty ELSE 0

BuyOf(r, u) ==
    IF r.side = "buy" /\ r.user = u /\ ~r.collected /\ ~r.released THEN r.qty ELSE 0

\* One row changes, and is not settled: so do the claims, by what that row adds to them.
LEMMA ClaimsOfOne ==
  ASSUME MoneyInv, orders' \in Rows, UNCHANGED fundShares, NEW o \in Orders,
         \A e \in Days : SameNumbers(batch'[e], batch[e]),
         \A p \in Orders \ {o} : orders'[p] = orders[p],
         orders[o].status # "success", orders'[o].status # "success",
         position' \in Positions, HeldAt(position') = HeldAt(position),
         \A u \in Users :
            /\ position'[u].reserved = position[u].reserved - RedeemOf(orders[o], u)
                                                            + RedeemOf(orders'[o], u)
            /\ wallet'[u].reserved = wallet[u].reserved - BuyOf(orders[o], u)
                                                        + BuyOf(orders'[o], u)
  PROVE  Claims'
  <1>1. orders \in Rows /\ wallet \in Wallets /\ position \in Positions
    BY MoneyFacts
  <1>2. \A p \in Orders \ {o} : orders'[p].qty = orders[p].qty
    OBVIOUS
  <1>3. ASSUME NEW u \in Users
        PROVE  position'[u].reserved = SumAt(orders', RedeemsAt(orders', u))
    <2>1. /\ RedeemsAt(orders, u) \in SUBSET Orders /\ RedeemsAt(orders', u) \in SUBSET Orders
          /\ RedeemsAt(orders, u) \ {o} = RedeemsAt(orders', u) \ {o}
      BY DEF RedeemsAt
    <2>2. /\ RedeemOf(orders[o], u) = IF o \in RedeemsAt(orders, u) THEN orders[o].qty ELSE 0
          /\ RedeemOf(orders'[o], u) = IF o \in RedeemsAt(orders', u) THEN orders'[o].qty ELSE 0
      BY DEF RedeemOf, RedeemsAt
    <2>3. orders[o].qty \in Nat /\ orders'[o].qty \in Nat
      BY <1>1 DEF Rows, OrderRows
    <2>4. PICK n \in Nat : /\ SumAt(orders, RedeemsAt(orders, u)) = n + RedeemOf(orders[o], u)
                           /\ SumAt(orders', RedeemsAt(orders', u)) = n + RedeemOf(orders'[o], u)
      BY <1>1, <1>2, <2>1, <2>2, SumAtOne
    <2>5. position[u].reserved = SumAt(orders, RedeemsAt(orders, u))
      BY MoneyFacts
    <2>6. RedeemOf(orders[o], u) \in Nat /\ RedeemOf(orders'[o], u) \in Nat
      BY <2>2, <2>3
    <2> QED  BY <2>4, <2>5, <2>6
  <1>4. ASSUME NEW u \in Users
        PROVE  wallet'[u].reserved + SumAt(orders', TwiceAt(orders', batch', u))
                  = SumAt(orders', BuysAt(orders', u))
    <2>1. /\ BuysAt(orders, u) \in SUBSET Orders /\ BuysAt(orders', u) \in SUBSET Orders
          /\ BuysAt(orders, u) \ {o} = BuysAt(orders', u) \ {o}
      BY DEF BuysAt
    <2>2. /\ BuyOf(orders[o], u) = IF o \in BuysAt(orders, u) THEN orders[o].qty ELSE 0
          /\ BuyOf(orders'[o], u) = IF o \in BuysAt(orders', u) THEN orders'[o].qty ELSE 0
      BY DEF BuyOf, BuysAt
    <2>3. orders[o].qty \in Nat /\ orders'[o].qty \in Nat
      BY <1>1 DEF Rows, OrderRows
    <2>4. PICK n \in Nat : /\ SumAt(orders, BuysAt(orders, u)) = n + BuyOf(orders[o], u)
                           /\ SumAt(orders', BuysAt(orders', u)) = n + BuyOf(orders'[o], u)
      BY <1>1, <1>2, <2>1, <2>2, SumAtOne
    <2>5. /\ TwiceAt(orders', batch', u) = TwiceAt(orders, batch, u)
          /\ TwiceAt(orders, batch, u) \in SUBSET Orders
          /\ \A p \in TwiceAt(orders, batch, u) : orders'[p].qty = orders[p].qty
      <3>1. \A p \in Orders : orders[p].status = "success" => orders[p].batch \in Days
        BY SuccessIsBatched
      <3> QED  BY <3>1 DEF TwiceAt, SameNumbers
    <2>6. /\ SumAt(orders', TwiceAt(orders', batch', u)) = SumAt(orders, TwiceAt(orders, batch, u))
          /\ SumAt(orders, TwiceAt(orders, batch, u)) \in Nat
      BY <1>1, <2>5, SumAtSame, SumAtParts
    <2>7. /\ wallet[u].reserved + SumAt(orders, TwiceAt(orders, batch, u))
                = SumAt(orders, BuysAt(orders, u))
          /\ wallet[u].reserved \in Int
      BY <1>1, MoneyFacts DEF Wallets
    <2>8. BuyOf(orders[o], u) \in Nat /\ BuyOf(orders'[o], u) \in Nat
      BY <2>2, <2>3
    <2> QED  BY <2>4, <2>6, <2>7, <2>8
  <1>5. fundShares' = HeldAt(position')
    BY MoneyFacts
  <1> QED  BY <1>3, <1>4, <1>5, ClaimsNext

\* A buy order reserves what the buyer's wallet has free.
LEMMA BuyMoney ==
  ASSUME MoneyInv, NEW u \in Users, NEW q \in Amounts, CreateBuyOrder(u, q)
  PROVE  Money'
  <1>1. /\ q <= wallet[u].balance - wallet[u].reserved
        /\ wallet' = [wallet EXCEPT ![u].reserved = @ + q]
        /\ UNCHANGED <<today, nav, batch, lock, fundShares, position>>
        /\ Place("buy", u, q)
    BY DEF CreateBuyOrder, FreeUsdt
  <1>2. PICK o \in Orders :
            /\ orders[o].status = "none" /\ orders[o].side = "buy" /\ orders[o].qty = 0
            /\ orders[o].batch = NoBatch /\ ~orders[o].collected /\ ~orders[o].released
            /\ orders' \in Rows /\ q \in Nat
            /\ \A p \in Orders \ {o} : orders'[p] = orders[p]
            /\ orders'[o].side = "buy" /\ orders'[o].user = u /\ orders'[o].qty = q
            /\ orders'[o].status = "pending" /\ orders'[o].batch = NoBatch
            /\ ~orders'[o].collected /\ ~orders'[o].released
    <2>1. "buy" \in Sides
      BY DEF Sides
    <2> QED  BY <1>1, <2>1, PlacedRow
  <1>3. wallet \in Wallets /\ position \in Positions
    BY MoneyFacts
  <1>4. /\ wallet' \in Wallets /\ wallet'[u].balance = wallet[u].balance
        /\ wallet'[u].reserved = wallet[u].reserved + q
        /\ \A x \in Users \ {u} : wallet'[x] = wallet[x]
    BY <1>1, <1>2, <1>3 DEF Wallets
  <1>5. \A x \in Users : wallet'[x].reserved <= wallet'[x].balance
    <2>1. \A x \in Users : wallet[x].reserved <= wallet[x].balance
      BY DEF MoneyInv, Money, TypeOK
    <2>2. wallet[u].reserved \in Int /\ wallet[u].balance \in Nat
      BY <1>3 DEF Wallets
    <2> QED  BY <1>1, <1>2, <1>4, <2>1, <2>2
  <1>6. TypeOK' /\ NavTells'
    BY <1>1, <1>2, <1>4, <1>5 DEF MoneyInv, Money, TypeOK, NavTells, Wallets, Rows
  <1>7. OrdersTell'
    BY <1>2 DEF MoneyInv, Money, OrdersTell, RowTells
  <1>8. Unbegun' /\ FlightsTell'
    BY <1>1, <1>2, FlightsUntouched
  <1>9. ASSUME NEW x \in Users
        PROVE  /\ position'[x].reserved = position[x].reserved - RedeemOf(orders[o], x)
                                                               + RedeemOf(orders'[o], x)
               /\ wallet'[x].reserved = wallet[x].reserved - BuyOf(orders[o], x)
                                                           + BuyOf(orders'[o], x)
    <2>1. RedeemOf(orders[o], x) = 0 /\ RedeemOf(orders'[o], x) = 0 /\ BuyOf(orders[o], x) = 0
          /\ BuyOf(orders'[o], x) = IF x = u THEN q ELSE 0
      BY <1>2 DEF RedeemOf, BuyOf
    <2>2. wallet[x].reserved \in Int /\ position[x].reserved \in Nat
      BY <1>3 DEF Wallets, Positions
    <2> QED  BY <1>1, <1>2, <1>4, <2>1, <2>2
  <1>10. Claims'
    BY <1>1, <1>2, <1>3, <1>9, ClaimsOfOne DEF SameNumbers
  <1> QED  BY <1>6, <1>7, <1>8, <1>10 DEF Money

\* A redemption reserves what the holder's position has free.
LEMMA RedeemMoney ==
  ASSUME MoneyInv, NEW u \in Users, NEW q \in Amounts, CreateRedeemOrder(u, q)
  PROVE  Money'
  <1>1. /\ q <= position[u].shares - position[u].reserved
        /\ position' = [position EXCEPT ![u].reserved = @ + q]
        /\ UNCHANGED <<today, nav, batch, lock, fundShares, wallet>>
        /\ Place("redeem", u, q)
    BY DEF CreateRedeemOrder, FreeShares
  <1>2. PICK o \in Orders :
            /\ orders[o].status = "none" /\ orders[o].side = "buy" /\ orders[o].qty = 0
            /\ orders[o].batch = NoBatch /\ ~orders[o].collected /\ ~orders[o].released
            /\ orders' \in Rows /\ q \in Nat
            /\ \A p \in Orders \ {o} : orders'[p] = orders[p]
            /\ orders'[o].side = "redeem" /\ orders'[o].user = u /\ orders'[o].qty = q
            /\ orders'[o].status = "pending" /\ orders'[o].batch = NoBatch
            /\ ~orders'[o].collected /\ ~orders'[o].released
    <2>1. "redeem" \in Sides
      BY DEF Sides
    <2> QED  BY <1>1, <2>1, PlacedRow
  <1>3. wallet \in Wallets /\ position \in Positions
    BY MoneyFacts
  <1>4. /\ position' \in Positions
        /\ \A x \in Users : position'[x].shares = position[x].shares
        /\ position'[u].reserved = position[u].reserved + q
        /\ \A x \in Users \ {u} : position'[x] = position[x]
    BY <1>1, <1>2, <1>3 DEF Positions
  <1>5. \A x \in Users : position'[x].reserved <= position'[x].shares
    <2>1. \A x \in Users : position[x].reserved <= position[x].shares
      BY DEF MoneyInv, Money, TypeOK
    <2>2. position[u].reserved \in Nat /\ position[u].shares \in Nat
      BY <1>3 DEF Positions
    <2> QED  BY <1>1, <1>2, <1>4, <2>1, <2>2
  <1>6. TypeOK' /\ NavTells'
    BY <1>1, <1>2, <1>4, <1>5 DEF MoneyInv, Money, TypeOK, NavTells, Positions, Rows
  <1>7. OrdersTell'
    BY <1>2 DEF MoneyInv, Money, OrdersTell, RowTells
  <1>8. Unbegun' /\ FlightsTell'
    BY <1>1, <1>2, FlightsUntouched
  <1>9. ASSUME NEW x \in Users
        PROVE  /\ position'[x].reserved = position[x].reserved - RedeemOf(orders[o], x)
                                                               + RedeemOf(orders'[o], x)
               /\ wallet'[x].reserved = wallet[x].reserved - BuyOf(orders[o], x)
                                                           + BuyOf(orders'[o], x)
    <2>1. RedeemOf(orders[o], x) = 0 /\ BuyOf(orders'[o], x) = 0 /\ BuyOf(orders[o], x) = 0
          /\ RedeemOf(orders'[o], x) = IF x = u THEN q ELSE 0
      BY <1>2 DEF RedeemOf, BuyOf
    <2>2. wallet[x].reserved \in Int /\ position[x].reserved \in Nat
      BY <1>3 DEF Wallets, Positions
    <2> QED  BY <1>1, <1>2, <1>4, <2>1, <2>2
  <1>10. HeldAt(position') = HeldAt(position)
    BY <1>4, SumOfSame DEF HeldAt
  <1>11. Claims'
    BY <1>1, <1>2, <1>4, <1>9, <1>10, ClaimsOfOne DEF SameNumbers
  <1> QED  BY <1>6, <1>7, <1>8, <1>11 DEF Money

\* One order of a batch that collects leaves the status settling: neither the batch's plan
\* nor a redemption is touched.
LEMMA FlightsOfBuy ==
  ASSUME MoneyInv, NEW o \in Orders, Collecting(o), orders' \in Rows,
         \A p \in Orders \ {o} : orders'[p] = orders[p],
         /\ orders'[o].side = "buy" /\ orders'[o].qty = orders[o].qty
         /\ orders'[o].batch = orders[o].batch,
         \A e \in Days : /\ batch'[e].status \in InFlight => batch'[e] = batch[e]
                         /\ batch'[e].status = "none" => batch[e].status = "none"
  PROVE  Unbegun' /\ FlightsTell'
  <1>1. /\ \A p \in Orders : orders'[p].batch = orders[p].batch
        /\ \A p \in Orders : orders'[p].side = orders[p].side /\ orders'[p].qty = orders[p].qty
    BY DEF Collecting
  <1>2. Unbegun'
    BY <1>1 DEF MoneyInv, Money, Unbegun
  <1>3. ASSUME NEW d \in Days, batch'[d].status \in InFlight
        PROVE  FlightTells(orders', batch'[d], d)
    <2>1. batch'[d] = batch[d]
      BY <1>3
    <2>2. FlightTells(orders, batch[d], d)
      BY <1>3, <2>1 DEF MoneyInv, Money, FlightsTell
    <2>3. \A side : Att(orders', d, side) = Att(orders, d, side)
      BY <1>1 DEF Att
    <2>4. \A p \in Att(orders, d, "redeem") : orders'[p] = orders[p]
      BY DEF Att, Collecting
    <2>5. batch[d].status \in Awaiting => orders[o].batch # d
      BY DEF Collecting, Awaiting
    <2>6. batch[d].status \in Awaiting => \A p \in Att(orders, d, "buy") : orders'[p] = orders[p]
      BY <2>5 DEF Att
    <2>7. SameNumbers(batch[d], batch[d]) /\ batch[d] \in Plans /\ orders \in Rows
      BY MoneyFacts DEF SameNumbers
    <2>8. /\ \A p \in Att(orders', d, "redeem") : orders'[p].status \in {"settling"} \cup Awaiting
          /\ batch[d].status \in Awaiting =>
                /\ batch[d].status = "awaiting_positive_net_execution"
                      <=> batch[d].buy >= batch[d].redeem * batch[d].price
                /\ \A p \in Att(orders', d, "buy") : orders'[p].status = "buy_collected"
      BY <2>2, <2>3, <2>4, <2>6 DEF FlightTells
    <2>9. FlightTells(orders', batch[d], d)
      BY <1>1, <2>2, <2>7, <2>8, FlightKept
    <2> QED  BY <2>1, <2>9
  <1> QED  BY <1>2, <1>3 DEF FlightsTell

\* An order in collection still claims its reserve.
LEMMA CollectingClaims ==
  ASSUME MoneyInv, NEW o \in Orders, Collecting(o)
  PROVE  /\ orders[o].side = "buy" /\ orders[o].status = "settling"
         /\ ~orders[o].collected /\ ~orders[o].released
         /\ orders[o].qty \in Nat /\ orders[o].user \in Users
         /\ orders[o].batch \in Days /\ batch[orders[o].batch].status = "collecting_buy_usdt"
  <1>1. RowTells(orders[o]) /\ orders[o] \in OrderRows
    BY MoneyFacts DEF MoneyInv, Money, OrdersTell, Rows
  <1> QED  BY <1>1, SuccessIsBatched DEF Collecting, RowTells, OrderRows

\* A buy order is collected: what it takes from the balance it takes from the reserve.
LEMMA CollectMoney ==
  ASSUME MoneyInv, NEW o \in Orders, CollectOrder(o)
  PROVE  Money'
  <1> DEFINE u == orders[o].user
             q == orders[o].qty
  <1>1. /\ orders[o].side = "buy" /\ orders[o].status = "settling"
        /\ ~orders[o].collected /\ ~orders[o].released
        /\ q \in Nat /\ u \in Users /\ orders[o].batch \in Days /\ Collecting(o)
    BY CollectingClaims DEF CollectOrder
  <1>2. /\ q <= wallet[u].reserved /\ q <= wallet[u].balance
        /\ wallet' = [wallet EXCEPT ![u] = [balance |-> @.balance - q, reserved |-> @.reserved - q]]
        /\ orders' = [orders EXCEPT ![o].status = "buy_collected", ![o].collected = TRUE]
        /\ UNCHANGED <<today, nav, batch, lock, fundShares, position>>
    BY DEF CollectOrder
  <1>3. wallet \in Wallets /\ position \in Positions /\ orders \in Rows
    BY MoneyFacts
  <1>4. /\ orders' \in Rows
        /\ \A p \in Orders \ {o} : orders'[p] = orders[p]
        /\ orders'[o].side = "buy" /\ orders'[o].qty = q /\ orders'[o].batch = orders[o].batch
        /\ orders'[o].status = "buy_collected" /\ orders'[o].collected
        /\ ~orders'[o].released
    <2> DEFINE row == [orders[o] EXCEPT !.status = "buy_collected", !.collected = TRUE]
    <2>1. orders' = [orders EXCEPT ![o] = row]
      BY <1>2, <1>3 DEF Rows
    <2>2. /\ row \in OrderRows /\ row.side = "buy" /\ row.qty = q /\ row.batch = orders[o].batch
          /\ row.status = "buy_collected" /\ row.collected /\ ~row.released
      BY <1>1, <1>3 DEF Rows, OrderRows, OrderStatuses
    <2> HIDE DEF row
    <2> QED  BY <1>3, <2>1, <2>2 DEF Rows
  <1> HIDE DEF u, q
  <1>5. /\ wallet' \in Wallets
        /\ wallet'[u].balance = wallet[u].balance - q /\ wallet'[u].reserved = wallet[u].reserved - q
        /\ \A x \in Users \ {u} : wallet'[x] = wallet[x]
    BY <1>1, <1>2, <1>3 DEF Wallets
  <1>6. \A x \in Users : wallet'[x].reserved <= wallet'[x].balance
    <2>1. \A x \in Users : wallet[x].reserved <= wallet[x].balance
      BY DEF MoneyInv, Money, TypeOK
    <2>2. wallet[u].reserved \in Int /\ wallet[u].balance \in Nat
      BY <1>1, <1>3 DEF Wallets
    <2> QED  BY <1>1, <1>5, <2>1, <2>2
  <1>7. TypeOK' /\ NavTells'
    BY <1>2, <1>4, <1>5, <1>6 DEF MoneyInv, Money, TypeOK, NavTells, Wallets, Rows
  <1>8. OrdersTell'
    BY <1>1, <1>4, NoBatchIsNoDay DEF MoneyInv, Money, OrdersTell, RowTells
  <1>9. Unbegun' /\ FlightsTell'
    BY <1>1, <1>2, <1>4, FlightsOfBuy DEF q
  <1>10. ASSUME NEW x \in Users
        PROVE  /\ position'[x].reserved = position[x].reserved - RedeemOf(orders[o], x)
                                                               + RedeemOf(orders'[o], x)
               /\ wallet'[x].reserved = wallet[x].reserved - BuyOf(orders[o], x)
                                                           + BuyOf(orders'[o], x)
    <2>1. RedeemOf(orders[o], x) = 0 /\ RedeemOf(orders'[o], x) = 0 /\ BuyOf(orders'[o], x) = 0
          /\ BuyOf(orders[o], x) = IF x = u THEN q ELSE 0
      BY <1>1, <1>4 DEF RedeemOf, BuyOf, u, q
    <2>2. wallet[x].reserved \in Int /\ position[x].reserved \in Nat
      BY <1>3 DEF Wallets, Positions
    <2> QED  BY <1>1, <1>2, <1>5, <2>1, <2>2
  <1>11. Claims'
    BY <1>1, <1>2, <1>3, <1>4, <1>10, ClaimsOfOne DEF SameNumbers
  <1> QED  BY <1>7, <1>8, <1>9, <1>11 DEF Money

\* An order of a collecting batch fails, with or without its reserve.
LEMMA FailOrderMoney ==
  ASSUME MoneyInv, NEW o \in Orders, NEW release \in BOOLEAN, FailOrder(o, release),
         lock' \in Days \cup {NoBatch}, batch' \in [Days -> Plans],
         \A e \in Days : /\ SameNumbers(batch'[e], batch[e])
                         /\ batch'[e].status \in InFlight => batch'[e] = batch[e]
                         /\ batch'[e].status = "none" => batch[e].status = "none"
  PROVE  Money'
  <1> DEFINE u == orders[o].user
             q == orders[o].qty
  <1>1. /\ orders[o].side = "buy" /\ orders[o].status = "settling"
        /\ ~orders[o].collected /\ ~orders[o].released
        /\ q \in Nat /\ u \in Users /\ orders[o].batch \in Days /\ Collecting(o)
    BY CollectingClaims DEF FailOrder
  <1>2. /\ wallet' = [wallet EXCEPT ![u].reserved = IF release THEN @ - q ELSE @]
        /\ orders' = [orders EXCEPT ![o].status = "failed_requires_review", ![o].released = release]
        /\ UNCHANGED <<today, nav, fundShares, position>>
    BY DEF FailOrder
  <1>3. wallet \in Wallets /\ position \in Positions /\ orders \in Rows
    BY MoneyFacts
  <1>4. /\ orders' \in Rows
        /\ \A p \in Orders \ {o} : orders'[p] = orders[p]
        /\ orders'[o].side = "buy" /\ orders'[o].qty = q /\ orders'[o].batch = orders[o].batch
        /\ orders'[o].user = u
        /\ orders'[o].status = "failed_requires_review" /\ ~orders'[o].collected
        /\ orders'[o].released = release
    <2> DEFINE row == [orders[o] EXCEPT !.status = "failed_requires_review", !.released = release]
    <2>1. orders' = [orders EXCEPT ![o] = row]
      BY <1>2, <1>3 DEF Rows
    <2>2. /\ row \in OrderRows /\ row.side = "buy" /\ row.qty = q /\ row.batch = orders[o].batch
          /\ row.user = u
          /\ row.status = "failed_requires_review" /\ ~row.collected /\ row.released = release
      BY <1>1, <1>3 DEF Rows, OrderRows, OrderStatuses
    <2> HIDE DEF row
    <2> QED  BY <1>3, <2>1, <2>2 DEF Rows
  <1> HIDE DEF u, q
  <1>5. /\ wallet' \in Wallets
        /\ wallet'[u].balance = wallet[u].balance
        /\ wallet'[u].reserved = IF release THEN wallet[u].reserved - q ELSE wallet[u].reserved
        /\ \A x \in Users \ {u} : wallet'[x] = wallet[x]
    BY <1>1, <1>2, <1>3 DEF Wallets
  <1>6. \A x \in Users : wallet'[x].reserved <= wallet'[x].balance
    <2>1. \A x \in Users : wallet[x].reserved <= wallet[x].balance
      BY DEF MoneyInv, Money, TypeOK
    <2>2. wallet[u].reserved \in Int /\ wallet[u].balance \in Nat
      BY <1>1, <1>3 DEF Wallets
    <2> QED  BY <1>1, <1>5, <2>1, <2>2
  <1>7. TypeOK' /\ NavTells'
    BY <1>2, <1>4, <1>5, <1>6 DEF MoneyInv, Money, TypeOK, NavTells, Wallets, Rows
  <1>8. OrdersTell'
    BY <1>1, <1>4, NoBatchIsNoDay DEF MoneyInv, Money, OrdersTell, RowTells
  <1>9. Unbegun' /\ FlightsTell'
    BY <1>1, <1>2, <1>4, FlightsOfBuy DEF q
  <1>10. ASSUME NEW x \in Users
        PROVE  /\ position'[x].reserved = position[x].reserved - RedeemOf(orders[o], x)
                                                               + RedeemOf(orders'[o], x)
               /\ wallet'[x].reserved = wallet[x].reserved - BuyOf(orders[o], x)
                                                           + BuyOf(orders'[o], x)
    <2>1. RedeemOf(orders[o], x) = 0 /\ RedeemOf(orders'[o], x) = 0
          /\ BuyOf(orders'[o], x) = (IF x = u /\ ~release THEN q ELSE 0)
          /\ BuyOf(orders[o], x) = IF x = u THEN q ELSE 0
      BY <1>1, <1>4 DEF RedeemOf, BuyOf, u, q
    <2>2. wallet[x].reserved \in Int /\ position[x].reserved \in Nat
      BY <1>3 DEF Wallets, Positions
    <2> QED  BY <1>1, <1>2, <1>5, <2>1, <2>2
  <1>11. Claims'
    BY <1>1, <1>2, <1>3, <1>4, <1>10, ClaimsOfOne
  <1> QED  BY <1>7, <1>8, <1>9, <1>11 DEF Money

\* In a pass the batch goes on; when the confirmation worker finds the revert, it fails.
LEMMA FailMoney ==
  ASSUME MoneyInv, NEW o \in Orders,
         RevertOrder(o) \/ \E release \in BOOLEAN : FailInPass(o, release)
  PROVE  Money'
  <1>1. ASSUME NEW release \in BOOLEAN, FailInPass(o, release)  PROVE  Money'
    <2>1. FailOrder(o, release) /\ batch' = batch /\ lock' = lock
      BY <1>1 DEF FailInPass
    <2>2. lock \in Days \cup {NoBatch} /\ batch \in [Days -> Plans]
      BY MoneyFacts DEF MoneyInv, Money, TypeOK
    <2> QED  BY <2>1, <2>2, FailOrderMoney DEF SameNumbers
  <1>2. CASE RevertOrder(o)
    <2> DEFINE d == orders[o].batch
               release == orders[o].qty <= wallet[orders[o].user].reserved
    <2>1. /\ FailOrder(o, release) /\ release \in BOOLEAN
          /\ batch' = [batch EXCEPT ![d].status = "failed_requires_review"]
          /\ lock' = NoBatch \/ lock' = lock
      BY <1>2 DEF RevertOrder
    <2>2. d \in Days
      BY <2>1, CollectingClaims DEF FailOrder
    <2> HIDE DEF d, release
    <2>3. "failed_requires_review" \in BatchStatuses /\ batch \in [Days -> Plans]
          /\ lock \in Days \cup {NoBatch}
      BY MoneyFacts DEF BatchStatuses, MoneyInv, Money, TypeOK
    <2>4. /\ batch' \in [Days -> Plans] /\ batch'[d].status = "failed_requires_review"
          /\ \A e \in Days : SameNumbers(batch'[e], batch[e])
          /\ \A e \in Days \ {d} : batch'[e] = batch[e]
      BY <2>1, <2>2, <2>3, StatusKeepsNumbers
    <2>5. \A e \in Days : /\ batch'[e].status \in InFlight => batch'[e] = batch[e]
                          /\ batch'[e].status = "none" => batch[e].status = "none"
      BY <2>4 DEF InFlight
    <2> QED  BY <2>1, <2>3, <2>4, <2>5, FailOrderMoney
  <1> QED  BY <1>1, <1>2

\* The batch in flight is the one that holds the lock.
LEMMA OneInFlight ==
  ASSUME MoneyInv, NEW d \in Days, NEW e \in Days, lock \in {NoBatch, d},
         batch[e].status \in InFlight
  PROVE  e = d
  <1>1. lock = e
    BY DEF MoneyInv, Inv, LockedWhileInFlight
  <1> QED  BY <1>1, NoBatchIsNoDay

\* When all buys are collected the batch goes on with its net, redemptions included.
LEMMA CloseMoney ==
  ASSUME MoneyInv, NEW d \in Days, CloseCollection(d)
  PROVE  Money'
  <1>1. batch[d].status = "collecting_buy_usdt" /\ UNCHANGED <<today, nav, lock, money>>
    BY DEF CloseCollection
  <1>2. CASE \E o \in Of(Attached(d), "buy") : orders[o].status # "buy_collected"
    <2>1. /\ batch' = [batch EXCEPT ![d].status = "failed_requires_review"]
          /\ UNCHANGED orders
      BY <1>2 DEF CloseCollection
    <2> QED  BY <1>1, <2>1, StatusMoney DEF BatchStatuses, InFlight
  <1>3. CASE ~\E o \in Of(Attached(d), "buy") : orders[o].status # "buy_collected"
    <2> DEFINE s == AwaitingStatus(d)
    <2>1. /\ batch' = [batch EXCEPT ![d].status = s]
          /\ orders' = [o \in Orders |->
                           IF o \in Of(Attached(d), "redeem")
                           THEN [orders[o] EXCEPT !.status = s]
                           ELSE orders[o]]
      BY <1>3 DEF CloseCollection
    <2>2. /\ s \in Awaiting /\ s \in BatchStatuses /\ s \in OrderStatuses /\ s \in InFlight
          /\ s = "awaiting_positive_net_execution" <=> batch[d].buy >= batch[d].redeem * batch[d].price
      BY DEF AwaitingStatus, Awaiting, BatchStatuses, OrderStatuses, InFlight
    <2> HIDE DEF s
    <2>3. orders \in Rows /\ batch \in [Days -> Plans]
      BY MoneyFacts
    <2>4. /\ batch' \in [Days -> Plans] /\ batch'[d].status = s
          /\ \A e \in Days : SameNumbers(batch'[e], batch[e])
          /\ \A e \in Days \ {d} : batch'[e] = batch[e]
      BY <2>1, <2>2, <2>3, StatusKeepsNumbers
    <2>5. FlightTells(orders, batch[d], d)
      BY <1>1 DEF MoneyInv, Money, FlightsTell, InFlight
    <2>6. ASSUME NEW o \in Orders
          PROVE  /\ orders'[o] \in OrderRows /\ RowTells(orders'[o])
                 /\ orders'[o].side = orders[o].side /\ orders'[o].user = orders[o].user
                 /\ orders'[o].qty = orders[o].qty /\ orders'[o].batch = orders[o].batch
                 /\ orders'[o].collected = orders[o].collected
                 /\ orders'[o].released = orders[o].released
                 /\ orders'[o].status = "success" <=> orders[o].status = "success"
                 /\ orders'[o].status # orders[o].status =>
                       o \in Att(orders, d, "redeem") /\ orders'[o].status = s
      <3>1. orders[o] \in OrderRows /\ RowTells(orders[o])
        BY <2>3 DEF Rows, MoneyInv, Money, OrdersTell
      <3>2. CASE o \in Of(Attached(d), "redeem")
        <4>1. o \in Att(orders, d, "redeem") /\ orders'[o] = [orders[o] EXCEPT !.status = s]
          BY <2>1, <3>2 DEF Of, Attached, Att
        <4>2. orders[o].status \in {"settling"} \cup Awaiting
          BY <2>5, <4>1 DEF FlightTells
        <4> QED  BY <2>2, <3>1, <4>1, <4>2 DEF OrderRows, RowTells, Awaiting
      <3>3. CASE o \notin Of(Attached(d), "redeem")
        BY <2>1, <3>1, <3>3
      <3> QED  BY <3>2, <3>3
    <2>7. orders' \in Rows /\ OrdersTell'
      BY <2>1, <2>6 DEF Rows, OrdersTell
    <2>8. TypeOK' /\ NavTells'
      BY <1>1, <2>4, <2>7 DEF money, MoneyInv, Money, TypeOK, NavTells, Rows
    <2>9. Unbegun'
      BY <2>2, <2>4, <2>6 DEF MoneyInv, Money, Unbegun, InFlight
    <2>10. ASSUME NEW e \in Days, batch'[e].status \in InFlight
           PROVE  FlightTells(orders', batch'[e], e)
      <3>1. lock = d
        BY <1>1 DEF MoneyInv, Inv, LockedWhileInFlight, InFlight
      <3>2. e = d
        BY <1>1, <2>4, <2>10, <3>1, OneInFlight
      <3>3. \A o \in Att(orders', d, "redeem") : orders'[o].status \in {"settling"} \cup Awaiting
        <4>1. \A o \in Att(orders', d, "redeem") : o \in Of(Attached(d), "redeem")
          BY <2>6 DEF Att, Of, Attached
        <4>2. \A o \in Att(orders', d, "redeem") : orders'[o].status = s
          <5>1. \A o \in Of(Attached(d), "redeem") :
                   orders[o] \in OrderRows /\ orders'[o] = [orders[o] EXCEPT !.status = s]
            BY <2>1, <2>3 DEF Rows, Of, Attached
          <5>2. \A o \in Of(Attached(d), "redeem") : orders'[o].status = s
            BY <5>1 DEF OrderRows
          <5> QED  BY <4>1, <5>2
        <4> QED  BY <2>2, <4>2
      <3>4. \A o \in Att(orders', d, "buy") : orders'[o].status = "buy_collected"
        <4>1. \A o \in Att(orders', d, "buy") : o \in Of(Attached(d), "buy")
          BY <2>6 DEF Att, Of, Attached
        <4>2. \A o \in Att(orders', d, "buy") : orders'[o].status = orders[o].status
          BY <2>6 DEF Att
        <4> QED  BY <1>3, <4>1, <4>2
      <3>5. s = "awaiting_positive_net_execution"
               <=> batch'[d].buy >= batch'[d].redeem * batch'[d].price
        BY <2>2, <2>4 DEF SameNumbers
      <3>6. batch[d] \in Plans /\ batch'[d] \in Plans /\ SameNumbers(batch'[d], batch[d])
        BY <2>3, <2>4
      <3>7. FlightTells(orders', batch'[d], d)
        BY <2>3, <2>4, <2>5, <2>6, <2>7, <3>3, <3>4, <3>5, <3>6, FlightKept
      <3> QED  BY <3>2, <3>7
    <2>11. Claims'
      <3>1. \A o \in Orders : orders[o].status = "success" => orders[o].batch \in Days
        BY SuccessIsBatched
      <3> QED  BY <1>1, <2>4, <2>6, <2>7, <3>1, ClaimsKept
    <2> QED  BY <2>7, <2>8, <2>9, <2>10, <2>11 DEF Money, FlightsTell
  <1> QED  BY <1>2, <1>3

\* The pending orders become a batch: its plan is what they add up to.
LEMMA OpenMoney ==
  ASSUME MoneyInv, NEW d \in Days, NEW live \in BOOLEAN, OpenBatch(d, live)
  PROVE  Money'
  <1> DEFINE P == Pending(d)
             plan == Plan(d, Pending(d), Opened(live))
  <1>1. /\ batch[d].status = "none" /\ Plannable(d, P)
        /\ batch' = [batch EXCEPT ![d] = plan]
        /\ orders' = [o \in Orders |->
                         IF o \in P THEN [orders[o] EXCEPT !.status = "settling", !.batch = d]
                                    ELSE orders[o]]
        /\ lock' = d
        /\ UNCHANGED <<today, nav, money>>
    BY DEF OpenBatch
  <1>2. orders \in Rows /\ batch \in [Days -> Plans] /\ nav \in [Days -> [price : Nat, shares : Nat]]
    BY MoneyFacts DEF MoneyInv, Money, TypeOK
  <1>3. nav[d].price \in Nat \ {0} /\ nav[d].shares \in Nat /\ nav[d].price > 0
    <2>1. nav[d] # NoRow
      BY <1>1 DEF Plannable
    <2>2. nav[d].price > 0
      BY <2>1 DEF MoneyInv, Money, NavTells
    <2>3. nav[d] \in [price : Nat, shares : Nat]
      BY <1>2
    <2> QED  BY <2>2, <2>3
  <1>4. \A side : Of(P, side) \in SUBSET Orders
    BY DEF Of, Pending
  <1>5. /\ plan.price = nav[d].price
        /\ plan.buy = SumAt(orders, Of(P, "buy"))
        /\ plan.issue = IssuesAt(orders, nav[d].price, Of(P, "buy"))
        /\ plan.redeem = SumAt(orders, Of(P, "redeem"))
        /\ plan.status = Opened(live) /\ plan \in Plans
    <2>1. /\ Total(Of(P, "buy")) = SumAt(orders, Of(P, "buy"))
          /\ IssuedFor(Of(P, "buy"), nav[d].price) = IssuesAt(orders, nav[d].price, Of(P, "buy"))
          /\ Total(Of(P, "redeem")) = SumAt(orders, Of(P, "redeem"))
      BY <1>2, <1>3, <1>4, Quantities, SumsNow
    <2>2. SumAt(orders, Of(P, "buy")) \in Nat /\ SumAt(orders, Of(P, "redeem")) \in Nat
      BY <1>2, <1>4, SumAtParts
    <2>3. IssuesAt(orders, nav[d].price, Of(P, "buy")) \in Nat
      BY <1>2, <1>3, <1>4, IssuesTyped
    <2>4. Opened(live) \in BatchStatuses
      BY DEF Opened, BatchStatuses
    <2> HIDE DEF P
    <2> QED  BY <1>2, <1>3, <2>1, <2>2, <2>3, <2>4 DEF Plan, Plans, P
  <1>6. Opened(live) \notin Awaiting /\ Opened(live) # "none"
    BY DEF Opened, Awaiting
  <1> HIDE DEF plan
  <1>7. ASSUME NEW o \in Orders
        PROVE  /\ orders'[o] \in OrderRows /\ RowTells(orders'[o])
               /\ orders'[o].side = orders[o].side /\ orders'[o].user = orders[o].user
               /\ orders'[o].qty = orders[o].qty
               /\ orders'[o].collected = orders[o].collected
               /\ orders'[o].released = orders[o].released
               /\ orders'[o].status = "success" <=> orders[o].status = "success"
               /\ o \in P => orders'[o].batch = d /\ orders'[o].status = "settling"
                             /\ orders[o].batch = NoBatch
               /\ o \notin P => orders'[o] = orders[o]
    <2>1. orders[o] \in OrderRows /\ RowTells(orders[o])
      BY <1>2 DEF Rows, MoneyInv, Money, OrdersTell
    <2>2. CASE o \in P
      <3>1. orders[o].status = "pending" /\ orders[o].batch = NoBatch
            /\ orders'[o] = [orders[o] EXCEPT !.status = "settling", !.batch = d]
        BY <1>1, <2>2 DEF Pending
      <3> QED  BY <2>1, <2>2, <3>1, NoBatchIsNoDay DEF OrderRows, RowTells, OrderStatuses
    <2>3. CASE o \notin P
      BY <1>1, <2>1, <2>3
    <2> QED  BY <2>2, <2>3
  <1>8. orders' \in Rows /\ OrdersTell'
    BY <1>1, <1>7 DEF Rows, OrdersTell
  <1>9. batch' \in [Days -> Plans] /\ batch'[d] = plan /\ \A e \in Days \ {d} : batch'[e] = batch[e]
    BY <1>1, <1>2, <1>5
  <1>10. TypeOK' /\ NavTells'
    BY <1>1, <1>8, <1>9 DEF money, MoneyInv, Money, TypeOK, NavTells, Rows
  <1>11. \A o \in Orders : orders[o].batch # d
    BY <1>1 DEF MoneyInv, Money, Unbegun
  <1>12. Unbegun'
    <2>1. \A e \in Days \ {d} : \A o \in Orders : orders'[o].batch = e => orders[o].batch = e
      BY <1>7
    <2>2. batch'[d].status # "none"
      BY <1>5, <1>6, <1>9
    <2> QED  BY <1>9, <2>1, <2>2 DEF MoneyInv, Money, Unbegun
  <1>13. ASSUME NEW e \in Days, batch'[e].status \in InFlight
         PROVE  FlightTells(orders', batch'[e], e)
    <2>1. lock \in {NoBatch, d}
      BY <1>1 DEF Plannable, LockFree
    <2>2. e = d
      BY <1>9, <1>13, <2>1, OneInFlight
    <2>3. \A side : Att(orders', d, side) = Of(P, side)
      <3>1. P \in SUBSET Orders
        BY DEF Pending
      <3> QED  BY <1>7, <1>11, <3>1 DEF Att, Of
    <2>4. /\ SumAt(orders', Of(P, "redeem")) = SumAt(orders, Of(P, "redeem"))
          /\ IssuesAt(orders', nav[d].price, Of(P, "buy")) = IssuesAt(orders, nav[d].price, Of(P, "buy"))
      BY <1>4, <1>7, SumAtSame
    <2>5. \A o \in Of(P, "redeem") : orders'[o].status = "settling"
      BY <1>4, <1>7 DEF Of
    <2> HIDE DEF P
    <2>6. FlightTells(orders', plan, d)
      BY <1>3, <1>5, <1>6, <2>3, <2>4, <2>5 DEF FlightTells
    <2> QED  BY <1>9, <2>2, <2>6
  <1>14. Claims'
    <2>1. ASSUME NEW o \in Orders, orders[o].status = "success"
          PROVE  /\ orders'[o].batch = orders[o].batch
                 /\ SameNumbers(batch'[orders[o].batch], batch[orders[o].batch])
      <3>1. orders[o].batch \in Days \ {d} /\ o \notin P
        BY <1>11, <2>1, SuccessIsBatched DEF Pending
      <3> QED  BY <1>7, <1>9, <3>1 DEF SameNumbers
    <2> QED  BY <1>1, <1>7, <1>8, <2>1, ClaimsKept
  <1> QED  BY <1>8, <1>10, <1>12, <1>13, <1>14 DEF Money, FlightsTell

\* Orders fail with their batch: what is released is no longer claimed.
LEMMA FailBatchMoney ==
  ASSUME MoneyInv, NEW d \in Days, NEW S \in SUBSET Orders, NEW R \in SUBSET S,
         FailBatch(d, S, R), External(S) => R = {},
         lock' \in Days \cup {NoBatch},
         \A o \in S : /\ orders[o].status \notin {"none", "success"} /\ ~orders[o].released
                      /\ orders[o].batch \in {NoBatch, d}
  PROVE  Money'
  <1> DEFINE s == "failed_requires_review"
  <1>1. /\ External(S) => R = {}
        /\ batch' = [batch EXCEPT ![d].status = s]
        /\ orders' = [o \in Orders |->
                         IF o \in S
                         THEN [orders[o] EXCEPT !.status = s, !.batch = d, !.released = @ \/ o \in R]
                         ELSE orders[o]]
        /\ wallet' = [u \in Users |-> WalletAfter(u, R)]
        /\ position' = [u \in Users |-> PositionAfter(u, R)]
        /\ UNCHANGED <<today, nav, fundShares>>
    BY DEF FailBatch
  <1>2. \A o \in R : ~orders[o].collected
    BY <1>1 DEF External
  <1>3. /\ orders \in Rows /\ batch \in [Days -> Plans]
        /\ wallet \in Wallets /\ position \in Positions
    BY MoneyFacts
  <1>4. /\ batch' \in [Days -> Plans] /\ batch'[d].status = s
        /\ \A e \in Days : SameNumbers(batch'[e], batch[e])
        /\ \A e \in Days \ {d} : batch'[e] = batch[e]
    <2>1. s \in BatchStatuses
      BY DEF BatchStatuses
    <2> QED  BY <1>1, <1>3, <2>1, StatusKeepsNumbers
  <1>5. ASSUME NEW o \in Orders
        PROVE  /\ orders'[o] \in OrderRows /\ RowTells(orders'[o])
               /\ orders'[o].side = orders[o].side /\ orders'[o].user = orders[o].user
               /\ orders'[o].qty = orders[o].qty
               /\ orders'[o].collected = orders[o].collected
               /\ orders'[o].released <=> (orders[o].released \/ o \in R)
               /\ orders'[o].status = "success" <=> orders[o].status = "success"
               /\ o \in S => orders'[o].batch = d
               /\ o \notin S => orders'[o] = orders[o]
    <2>1. orders[o] \in OrderRows /\ RowTells(orders[o])
      BY <1>3 DEF Rows, MoneyInv, Money, OrdersTell
    <2>2. CASE o \in S
      <3>1. orders'[o] = [orders[o] EXCEPT !.status = s, !.batch = d, !.released = @ \/ o \in R]
        BY <1>1, <2>2
      <3>2. (orders[o].released \/ o \in R) \in BOOLEAN
        BY <2>1 DEF OrderRows
      <3>3. /\ orders'[o] \in OrderRows
            /\ orders'[o].side = orders[o].side /\ orders'[o].user = orders[o].user
            /\ orders'[o].qty = orders[o].qty
            /\ orders'[o].collected = orders[o].collected
            /\ orders'[o].released = (orders[o].released \/ o \in R)
            /\ orders'[o].status = s /\ orders'[o].batch = d
        BY <2>1, <3>1, <3>2 DEF OrderRows, OrderStatuses
      <3>4. RowTells(orders'[o])
        BY <1>2, <2>1, <2>2, <3>3, NoBatchIsNoDay DEF RowTells
      <3> QED  BY <2>2, <3>3, <3>4
    <2>3. CASE o \notin S
      BY <1>1, <2>1, <2>3
    <2> QED  BY <2>2, <2>3
  <1>6. orders' \in Rows /\ OrdersTell'
    BY <1>1, <1>5 DEF Rows, OrdersTell
  <1> DEFINE C(side, u) == By(R, side, u)
  <1>7. ASSUME NEW u \in Users
        PROVE  /\ C("redeem", u) \in SUBSET RedeemsAt(orders, u)
               /\ C("buy", u) \in SUBSET BuysAt(orders, u)
               /\ RedeemsAt(orders', u) = RedeemsAt(orders, u) \ C("redeem", u)
               /\ BuysAt(orders', u) = BuysAt(orders, u) \ C("buy", u)
               /\ TwiceAt(orders', batch', u) = TwiceAt(orders, batch, u)
    <2>1. \A o \in S : o \in Orders /\ orders[o].status # "success" /\ ~orders[o].released
      OBVIOUS
    <2>2. C("redeem", u) \in SUBSET RedeemsAt(orders, u) /\ C("buy", u) \in SUBSET BuysAt(orders, u)
      BY <1>1, <1>2, <2>1 DEF By, Of, RedeemsAt, BuysAt
    <2>3. RedeemsAt(orders', u) = RedeemsAt(orders, u) \ C("redeem", u)
      BY <1>5 DEF By, Of, RedeemsAt
    <2>4. BuysAt(orders', u) = BuysAt(orders, u) \ C("buy", u)
      BY <1>5 DEF By, Of, BuysAt
    <2>5. TwiceAt(orders', batch', u) = TwiceAt(orders, batch, u)
      <3>1. \A o \in Orders : orders[o].status = "success" =>
                 orders[o].batch \in Days /\ orders'[o] = orders[o]
        BY <1>5, <2>1, SuccessIsBatched
      <3> QED  BY <1>4, <1>5, <3>1 DEF TwiceAt, SameNumbers
    <2> QED  BY <2>2, <2>3, <2>4, <2>5
  <1> HIDE DEF C
  <1>8. ASSUME NEW u \in Users
        PROVE  /\ RedeemsAt(orders, u) \in SUBSET Orders /\ BuysAt(orders, u) \in SUBSET Orders
               /\ TwiceAt(orders, batch, u) \in SUBSET Orders
    BY DEF RedeemsAt, BuysAt, TwiceAt
  <1>9. \A X \in SUBSET Orders : SumAt(orders', X) = SumAt(orders, X)
    BY <1>5, SumAtSame
  <1>10. ASSUME NEW u \in Users
         PROVE  /\ wallet'[u].balance = wallet[u].balance
                /\ wallet'[u].reserved = wallet[u].reserved - SumAt(orders, C("buy", u))
                /\ position'[u].shares = position[u].shares
                /\ position'[u].reserved = position[u].reserved - SumAt(orders, C("redeem", u))
                /\ wallet'[u].reserved \in Int
                   => wallet'[u] \in [balance : Nat, reserved : Int]
                /\ position'[u].reserved \in Nat
                   => position'[u] \in [shares : Nat, reserved : Nat]
    <2>1. /\ Total(C("buy", u)) = SumAt(orders, C("buy", u))
          /\ Total(C("redeem", u)) = SumAt(orders, C("redeem", u))
      BY <1>3, <1>7, <1>8, Quantities, SumsNow
    <2>2. /\ wallet'[u] = [wallet[u] EXCEPT !.reserved = @ - SumAt(orders, C("buy", u))]
          /\ position'[u] = [position[u] EXCEPT !.reserved = @ - SumAt(orders, C("redeem", u))]
      BY <1>1, <2>1 DEF WalletAfter, PositionAfter, C
    <2>3. /\ wallet[u] \in [balance : Nat, reserved : Int]
          /\ position[u] \in [shares : Nat, reserved : Nat]
      BY <1>3 DEF Wallets, Positions
    <2> QED  BY <2>2, <2>3
  <1>11. ASSUME NEW u \in Users
         PROVE  /\ SumAt(orders, C("buy", u)) \in Nat /\ SumAt(orders, C("redeem", u)) \in Nat
                /\ SumAt(orders, RedeemsAt(orders', u)) \in Nat
                /\ SumAt(orders, RedeemsAt(orders', u))
                      = SumAt(orders, RedeemsAt(orders, u)) - SumAt(orders, C("redeem", u))
                /\ SumAt(orders, BuysAt(orders', u))
                      = SumAt(orders, BuysAt(orders, u)) - SumAt(orders, C("buy", u))
    <2>1. /\ SumAt(orders, C("redeem", u)) \in Nat
          /\ SumAt(orders, RedeemsAt(orders, u) \ C("redeem", u))
                = SumAt(orders, RedeemsAt(orders, u)) - SumAt(orders, C("redeem", u))
      BY <1>3, <1>7, <1>8, SumAtParts
    <2>2. /\ SumAt(orders, C("buy", u)) \in Nat
          /\ SumAt(orders, BuysAt(orders, u) \ C("buy", u))
                = SumAt(orders, BuysAt(orders, u)) - SumAt(orders, C("buy", u))
      BY <1>3, <1>7, <1>8, SumAtParts
    <2>3. RedeemsAt(orders', u) \in SUBSET Orders
      BY <1>7, <1>8
    <2>4. SumAt(orders, RedeemsAt(orders', u)) \in Nat
      BY <1>3, <2>3, SumAtParts
    <2> QED  BY <1>7, <2>1, <2>2, <2>4
  <1>12. ASSUME NEW u \in Users
         PROVE  /\ position'[u].reserved = SumAt(orders', RedeemsAt(orders', u))
                /\ position'[u].reserved \in Nat
                /\ position'[u].reserved <= position'[u].shares /\ position'[u].shares \in Nat
                /\ wallet'[u].reserved + SumAt(orders', TwiceAt(orders', batch', u))
                      = SumAt(orders', BuysAt(orders', u))
                /\ wallet'[u].reserved <= wallet'[u].balance
                /\ wallet'[u].reserved \in Int /\ wallet'[u].balance \in Nat
    <2>1. /\ position[u].reserved = SumAt(orders, RedeemsAt(orders, u))
          /\ wallet[u].reserved + SumAt(orders, TwiceAt(orders, batch, u))
                = SumAt(orders, BuysAt(orders, u))
      BY MoneyFacts
    <2>2. /\ SumAt(orders', RedeemsAt(orders', u)) = SumAt(orders, RedeemsAt(orders', u))
          /\ SumAt(orders', BuysAt(orders', u)) = SumAt(orders, BuysAt(orders', u))
          /\ SumAt(orders', TwiceAt(orders', batch', u)) = SumAt(orders, TwiceAt(orders, batch, u))
      <3>1. RedeemsAt(orders', u) \in SUBSET Orders /\ BuysAt(orders', u) \in SUBSET Orders
        BY <1>7, <1>8
      <3> QED  BY <1>7, <1>8, <1>9, <3>1
    <2>3. SumAt(orders, TwiceAt(orders, batch, u)) \in Nat /\ SumAt(orders, BuysAt(orders, u)) \in Nat
      BY <1>3, <1>8, SumAtParts
    <2>4. /\ wallet[u].reserved \in Int /\ wallet[u].balance \in Nat
          /\ position[u].reserved \in Nat /\ position[u].shares \in Nat
          /\ wallet[u].reserved <= wallet[u].balance /\ position[u].reserved <= position[u].shares
      BY <1>3 DEF Wallets, Positions, MoneyInv, Money, TypeOK
    <2>5. /\ position'[u].reserved = SumAt(orders', RedeemsAt(orders', u))
          /\ position'[u].reserved \in Nat
          /\ position'[u].reserved <= position'[u].shares /\ position'[u].shares \in Nat
      <3>1. position'[u].reserved = SumAt(orders, RedeemsAt(orders', u))
        BY <1>10, <1>11, <2>1
      <3>2. position'[u].reserved <= position[u].reserved
        BY <1>10, <1>11, <2>4
      <3> QED  BY <1>10, <1>11, <2>2, <2>4, <3>1, <3>2
    <2>6. /\ wallet'[u].reserved \in Int /\ wallet'[u].balance \in Nat
          /\ wallet'[u].reserved <= wallet'[u].balance
      BY <1>10, <1>11, <2>4
    <2>7. wallet'[u].reserved + SumAt(orders, TwiceAt(orders, batch, u))
             = SumAt(orders, BuysAt(orders', u))
      BY <1>10, <1>11, <2>1, <2>3, <2>4
    <2> QED  BY <2>2, <2>5, <2>6, <2>7
  <1>13. wallet' \in Wallets /\ position' \in Positions
    <2>1. wallet' = [u \in Users |-> wallet'[u]] /\ position' = [u \in Users |-> position'[u]]
      BY <1>1
    <2>2. ASSUME NEW u \in Users
          PROVE  /\ wallet'[u] \in [balance : Nat, reserved : Int]
                 /\ position'[u] \in [shares : Nat, reserved : Nat]
      <3>1. wallet'[u].reserved \in Int /\ position'[u].reserved \in Nat
        BY <1>12
      <3> QED  BY <1>10, <3>1
    <2> QED  BY <2>1, <2>2 DEF Wallets, Positions
  <1>14. TypeOK' /\ NavTells'
    <2>1. lock' \in Days \cup {NoBatch}
      OBVIOUS
    <2> QED
      BY <1>1, <1>4, <1>6, <1>12, <1>13, <2>1
         DEF MoneyInv, Money, TypeOK, NavTells, Rows, Wallets, Positions
  <1>15. Unbegun'
    <2>1. \A e \in Days \ {d} : \A o \in Orders : orders'[o].batch = e => orders[o].batch = e
      BY <1>5
    <2> QED  BY <1>4, <2>1 DEF MoneyInv, Money, Unbegun
  <1>16. ASSUME NEW e \in Days, batch'[e].status \in InFlight
         PROVE  FlightTells(orders', batch'[e], e)
    <2>1. e # d /\ batch'[e] = batch[e]
      BY <1>4, <1>16 DEF InFlight
    <2>2. FlightTells(orders, batch[e], e)
      BY <1>16, <2>1 DEF MoneyInv, Money, FlightsTell
    <2>3. \A o \in Orders : /\ orders'[o].batch = e <=> orders[o].batch = e
                            /\ orders[o].batch = e => orders'[o] = orders[o]
      BY <1>5, <2>1, NoBatchIsNoDay
    <2>4. \A side : Att(orders', e, side) = Att(orders, e, side)
      BY <2>3 DEF Att
    <2>5. \A side : \A o \in Att(orders, e, side) : orders'[o] = orders[o]
      BY <2>3 DEF Att
    <2>6. SameNumbers(batch[e], batch[e]) /\ batch[e] \in Plans
      BY <1>3 DEF SameNumbers
    <2>7. /\ \A o \in Att(orders', e, "redeem") : orders'[o].status \in {"settling"} \cup Awaiting
          /\ batch[e].status \in Awaiting =>
                /\ batch[e].status = "awaiting_positive_net_execution"
                      <=> batch[e].buy >= batch[e].redeem * batch[e].price
                /\ \A o \in Att(orders', e, "buy") : orders'[o].status = "buy_collected"
      BY <2>2, <2>4, <2>5 DEF FlightTells
    <2>8. FlightTells(orders', batch[e], e)
      BY <1>3, <1>6, <2>2, <2>3, <2>6, <2>7, FlightKept
    <2> QED  BY <2>1, <2>8
  <1>17. Claims'
    <2>1. HeldAt(position') = HeldAt(position)
      BY <1>10, SumOfSame DEF HeldAt
    <2>2. fundShares' = HeldAt(position')
      BY <1>1, <2>1, MoneyFacts
    <2> QED  BY <1>6, <1>12, <1>13, <2>2, ClaimsNext
  <1> QED  BY <1>6, <1>14, <1>15, <1>16, <1>17 DEF Money, FlightsTell

\* Orders fail before their money moved: they are released in turn, or not at all.
LEMMA PreExternalMoney ==
  ASSUME MoneyInv, NEW d \in Days, NEW S \in SUBSET Orders, NEW locked \in BOOLEAN,
         FailPreExternal(d, S, locked),
         \A o \in S : /\ orders[o].status \notin {"none", "success"} /\ ~orders[o].released
                      /\ orders[o].batch \in {NoBatch, d}
  PROVE  Money'
  <1>1. PICK R \in SUBSET S :
          /\ External(S) => R = {}
          /\ FailBatch(d, S, R)
          /\ lock' = IF ~locked THEN lock ELSE IF R = S THEN NoBatch ELSE d
    BY DEF FailPreExternal
  <1>2. lock' \in Days \cup {NoBatch}
    BY <1>1 DEF MoneyInv, Money, TypeOK
  <1> QED  BY <1>1, <1>2, FailBatchMoney

\* The orders of a batch that awaits its net execution are neither settled nor released.
LEMMA AwaitingUnsettled ==
  ASSUME MoneyInv, NEW d \in Days, batch[d].status \in Awaiting
  PROVE  \A o \in Attached(d) : /\ orders[o].status \notin {"none", "success"}
                               /\ ~orders[o].released /\ orders[o].batch \in {NoBatch, d}
  <1>1. FlightTells(orders, batch[d], d)
    BY DEF MoneyInv, Money, FlightsTell, InFlight, Awaiting
  <1>2. ASSUME NEW o \in Attached(d)
        PROVE  orders[o].status \in {"settling", "buy_collected"} \cup Awaiting
    <2>1. o \in Orders /\ orders[o].batch = d /\ orders[o] \in OrderRows
      BY MoneyFacts DEF Attached, Rows
    <2>2. CASE orders[o].side = "redeem"
      BY <1>1, <2>1, <2>2 DEF FlightTells, Att
    <2>3. CASE orders[o].side = "buy"
      BY <1>1, <2>1, <2>3 DEF FlightTells, Att
    <2> QED  BY <2>1, <2>2, <2>3 DEF OrderRows, Sides
  <1>3. \A o \in Attached(d) : RowTells(orders[o]) /\ orders[o].batch = d
    BY DEF Attached, MoneyInv, Money, OrdersTell
  <1> QED  BY <1>2, <1>3 DEF RowTells, Awaiting

-----------------------------------------------------------------------------
\* What a batch burns and issues of each user's shares, and what that adds up to.
Burned(d, u) == SumAt(orders, By(Attached(d), "redeem", u))

IssuedTo(d, u) == IssuesAt(orders, batch[d].price, By(Attached(d), "buy", u))

\* The shares a batch burns are its redemptions, and the shares it issues those of its buys.
LEMMA ByUser ==
  ASSUME MoneyInv, NEW d \in Days, batch[d].status \in InFlight
  PROVE  /\ \A u \in Users : Burned(d, u) \in Nat /\ IssuedTo(d, u) \in Nat
         /\ Sum([u \in Users |-> Burned(d, u)], Users) = batch[d].redeem
         /\ Sum([u \in Users |-> IssuedTo(d, u)], Users) = batch[d].issue
  <1> DEFINE p == batch[d].price
             key == [o \in Orders |-> orders[o].user]
             f == [o \in Orders |-> orders[o].qty]
             g == [o \in Orders |-> orders[o].qty \div p]
             B == Att(orders, d, "buy")
             R == Att(orders, d, "redeem")
             H == [u \in Users |-> Burned(d, u)]
             K == [u \in Users |-> IssuedTo(d, u)]
  <1>1. FlightTells(orders, batch[d], d) /\ orders \in Rows /\ batch[d] \in Plans
    BY MoneyFacts DEF MoneyInv, Money, FlightsTell
  <1>2. p \in Nat \ {0}
    BY <1>1 DEF FlightTells, Plans
  <1>3. \A o \in Orders : f[o] \in Nat /\ g[o] \in Nat /\ key[o] \in Users
    BY <1>1, <1>2, Quantities DEF Rows, OrderRows
  <1>4. B \in SUBSET Orders /\ R \in SUBSET Orders
    BY DEF Att
  <1>5. ASSUME NEW u \in Users
        PROVE  /\ By(Attached(d), "redeem", u) = {o \in R : key[o] = u}
               /\ By(Attached(d), "buy", u) = {o \in B : key[o] = u}
    BY DEF By, Of, Attached, Att
  <1>6. ASSUME NEW u \in Users
        PROVE  /\ Burned(d, u) = Sum(f, {o \in R : key[o] = u}) /\ Burned(d, u) \in Nat
               /\ IssuedTo(d, u) = Sum(g, {o \in B : key[o] = u}) /\ IssuedTo(d, u) \in Nat
    <2>1. By(Attached(d), "redeem", u) \in SUBSET Orders /\ By(Attached(d), "buy", u) \in SUBSET Orders
      BY DEF By, Of, Attached
    <2>2. Burned(d, u) \in Nat /\ IssuedTo(d, u) \in Nat
      <3> HIDE DEF p
      <3> QED  BY <1>1, <1>2, <2>1, SumAtParts, IssuesTyped DEF Burned, IssuedTo, p
    <2>3. Burned(d, u) = Sum(f, {o \in R : key[o] = u})
      BY <1>5 DEF Burned, SumAt
    <2>4. IssuedTo(d, u) = Sum(g, {o \in B : key[o] = u})
      BY <1>5 DEF IssuedTo, IssuesAt
    <2> QED  BY <2>2, <2>3, <2>4
  <1>7. \A u \in Users : H[u] = Sum(f, {o \in R : key[o] = u}) /\ K[u] = Sum(g, {o \in B : key[o] = u})
    BY <1>6
  <1>8. Sum(f, R) = batch[d].redeem /\ Sum(g, B) = batch[d].issue
    BY <1>1 DEF FlightTells, SumAt, IssuesAt
  <1> HIDE DEF key, f, g, B, R, H, K
  <1>9. Sum(H, Users) = Sum(f, R)
    <2> DEFINE part == [u \in Users |-> By(Attached(d), "redeem", u)]
    <2>1. IsFiniteSet(R) /\ IsFiniteSet(Users)
      BY <1>4, Finite
    <2>2. \A o \in R : f[o] \in Nat /\ key[o] \in Users
      BY <1>3, <1>4
    <2>3. \A u \in Users : /\ part[u] \in SUBSET R
                          /\ \A o \in R : (o \in part[u] <=> key[o] = u)
      BY <1>5
    <2>4. \A u \in Users : H[u] = Sum(f, part[u])
      BY <1>5, <1>7
    <2> HIDE DEF part
    <2> QED  BY <2>1, <2>2, <2>3, <2>4, SumByKey
  <1>10. Sum(K, Users) = Sum(g, B)
    <2> DEFINE part == [u \in Users |-> By(Attached(d), "buy", u)]
    <2>1. IsFiniteSet(B) /\ IsFiniteSet(Users)
      BY <1>4, Finite
    <2>2. \A o \in B : g[o] \in Nat /\ key[o] \in Users
      BY <1>3, <1>4
    <2>3. \A u \in Users : /\ part[u] \in SUBSET B
                          /\ \A o \in B : (o \in part[u] <=> key[o] = u)
      BY <1>5
    <2>4. \A u \in Users : K[u] = Sum(g, part[u])
      BY <1>5, <1>7
    <2> HIDE DEF part
    <2> QED  BY <2>1, <2>2, <2>3, <2>4, SumByKey
  <1> QED  BY <1>6, <1>8, <1>9, <1>10 DEF H, K

\* Accounting changes every position by what the batch issues and burns, and the fund's
\* shares by the sum of it.
LEMMA AccountShares ==
  ASSUME MoneyInv, NEW d \in Days, batch[d].status \in InFlight, Account(d)
  PROVE  /\ position' \in Positions /\ fundShares' \in Nat
         /\ fundShares' = HeldAt(position')
         /\ \A u \in Users : position'[u].reserved = position[u].reserved - Burned(d, u)
         /\ \A u \in Users : position'[u].reserved <= position'[u].shares
  <1>1. FlightTells(orders, batch[d], d) /\ orders \in Rows /\ batch[d] \in Plans
        /\ position \in Positions
    BY MoneyFacts DEF MoneyInv, Money, FlightsTell
  <1>2. batch[d].price \in Nat \ {0} /\ \A o \in Orders : orders[o].qty \in Nat
    BY <1>1, Quantities DEF FlightTells, Plans
  <1>3. ASSUME NEW u \in Users
        PROVE  /\ Total(By(Attached(d), "redeem", u)) = Burned(d, u)
               /\ IssuedFor(By(Attached(d), "buy", u), batch[d].price) = IssuedTo(d, u)
    <2>1. By(Attached(d), "redeem", u) \in SUBSET Orders /\ By(Attached(d), "buy", u) \in SUBSET Orders
      BY DEF By, Of, Attached
    <2> QED  BY <1>2, <2>1, SumsNow DEF Burned, IssuedTo
  <1>4. ASSUME NEW u \in Users
        PROVE  /\ Burned(d, u) \in Nat /\ IssuedTo(d, u) \in Nat
               /\ position[u].shares \in Nat /\ position[u].reserved \in Nat
               /\ Burned(d, u) <= position[u].shares /\ Burned(d, u) <= position[u].reserved
               /\ position[u].reserved <= position[u].shares
    <2>1. Burned(d, u) <= position[u].shares /\ Burned(d, u) <= position[u].reserved
      BY <1>3 DEF Account, PlanValid, Covered
    <2>2. position[u].reserved <= position[u].shares
      BY DEF MoneyInv, Money, TypeOK
    <2> QED  BY <1>1, <2>1, <2>2, ByUser DEF Positions
  <1>5. /\ position' = [u \in Users |-> SettledPosition(d, u)]
        /\ \A u \in Users : position'[u] =
              [shares |-> position[u].shares + IssuedTo(d, u) - Burned(d, u),
               reserved |-> position[u].reserved - Burned(d, u)]
    BY <1>3 DEF Account, SettledPosition
  <1>6. ASSUME NEW u \in Users
        PROVE  /\ position'[u].shares = position[u].shares + IssuedTo(d, u) - Burned(d, u)
               /\ position'[u].reserved = position[u].reserved - Burned(d, u)
               /\ position'[u].shares \in Nat /\ position'[u].reserved \in Nat
               /\ position'[u].reserved <= position'[u].shares
               /\ position'[u] \in [shares : Nat, reserved : Nat]
    <2>1. /\ position'[u].shares = position[u].shares + IssuedTo(d, u) - Burned(d, u)
          /\ position'[u].reserved = position[u].reserved - Burned(d, u)
      BY <1>5
    <2>2. /\ position[u].shares + IssuedTo(d, u) - Burned(d, u) \in Nat
          /\ position[u].reserved - Burned(d, u) \in Nat
          /\ position[u].reserved - Burned(d, u) <= position[u].shares + IssuedTo(d, u) - Burned(d, u)
      BY <1>4
    <2> QED  BY <1>5, <2>1, <2>2
  <1>7. position' \in Positions
    BY <1>5, <1>6 DEF Positions
  <1>8. HeldAt(position') + batch[d].redeem = HeldAt(position) + batch[d].issue
    <2> DEFINE f == [u \in Users |-> position'[u].shares]
               g == [u \in Users |-> Burned(d, u)]
               h == [u \in Users |-> position[u].shares]
               k == [u \in Users |-> IssuedTo(d, u)]
    <2>1. ASSUME NEW u \in Users
          PROVE  /\ f[u] \in Nat /\ g[u] \in Nat /\ h[u] \in Nat /\ k[u] \in Nat
                 /\ f[u] + g[u] = h[u] + k[u]
      <3>1. f[u] = position'[u].shares /\ g[u] = Burned(d, u) /\ h[u] = position[u].shares
            /\ k[u] = IssuedTo(d, u)
        OBVIOUS
      <3> HIDE DEF f, g, h, k
      <3> QED  BY <1>4, <1>6, <3>1
    <2>2. HeldAt(position') = Sum(f, Users) /\ HeldAt(position) = Sum(h, Users)
      BY DEF HeldAt
    <2>3. Sum(g, Users) = batch[d].redeem /\ Sum(k, Users) = batch[d].issue
      BY ByUser
    <2> HIDE DEF f, g, h, k
    <2>4. Sum(f, Users) + Sum(g, Users) = Sum(h, Users) + Sum(k, Users)
      BY <2>1, Finite, SumInBalance
    <2> QED  BY <2>2, <2>3, <2>4
  <1>9. fundShares' = fundShares + batch[d].issue - batch[d].redeem /\ fundShares' >= 0
    BY DEF Account, PlanValid, FundAfter
  <1>10. HeldAt(position') \in Nat
    <2>1. \A u \in Users : [x \in Users |-> position'[x].shares][u] \in Nat
      BY <1>6
    <2> QED  BY <2>1, Finite, SumTyped DEF HeldAt
  <1>11. fundShares' = HeldAt(position')
    <2>1. fundShares = HeldAt(position) /\ fundShares \in Nat
      BY MoneyFacts DEF MoneyInv, Money, TypeOK
    <2>2. batch[d].issue \in Nat /\ batch[d].redeem \in Nat
      BY <1>1 DEF Plans
    <2>3. PICK x \in Nat, y \in Nat : x = HeldAt(position') /\ y = HeldAt(position)
      BY <1>10, <2>1
    <2> QED  BY <1>8, <1>9, <2>1, <2>2, <2>3
  <1> QED  BY <1>6, <1>7, <1>10, <1>11

\* What accounting does to the rest.  The buys whose reserve is taken once more are those
\* of a negative-net batch.
LEMMA AccountMoney ==
  ASSUME MoneyInv, NEW d \in Days, batch[d].status \in Awaiting, Account(d),
         wallet' = IF batch[d].status = "awaiting_positive_net_execution" THEN wallet
                   ELSE [u \in Users |-> WalletAfter(u, Of(Attached(d), "buy"))]
  PROVE  Money'
  <1> DEFINE A == Attached(d)
             Again(u) == By(A, "buy", u)
  <1>1. /\ lock = d /\ lock' = NoBatch
        /\ batch' = [batch EXCEPT ![d].status = "completed"]
        /\ orders' = [o \in Orders |-> IF o \in A THEN [orders[o] EXCEPT !.status = "success"]
                                                  ELSE orders[o]]
        /\ UNCHANGED <<today, nav>>
    BY DEF Account
  <1>2. batch[d].status \in InFlight
    BY DEF Awaiting, InFlight
  <1>3. FlightTells(orders, batch[d], d) /\ orders \in Rows /\ batch \in [Days -> Plans]
        /\ wallet \in Wallets /\ position \in Positions
    BY <1>2, MoneyFacts DEF MoneyInv, Money, FlightsTell
  <1>4. /\ batch' \in [Days -> Plans] /\ batch'[d].status = "completed"
        /\ \A e \in Days : SameNumbers(batch'[e], batch[e])
        /\ \A e \in Days \ {d} : batch'[e] = batch[e]
    BY <1>1, <1>3, StatusKeepsNumbers DEF BatchStatuses
  <1>5. ASSUME NEW o \in A
        PROVE  /\ o \in Orders /\ orders[o].batch = d
               /\ orders[o].side = "buy" \/ orders[o].side = "redeem"
               /\ orders[o].status \notin {"none", "pending", "success"} /\ ~orders[o].released
               /\ orders[o].side = "buy" => orders[o].status = "buy_collected"
    <2>1. o \in Orders /\ orders[o].batch = d
      BY DEF Attached
    <2>2. orders[o] \in OrderRows /\ RowTells(orders[o])
      BY <1>3, <2>1 DEF Rows, MoneyInv, Money, OrdersTell
    <2>3. orders[o].side = "buy" \/ orders[o].side = "redeem"
      BY <2>2 DEF OrderRows, Sides
    <2>4. orders[o].side = "buy" => orders[o].status = "buy_collected"
      BY <1>3, <2>1 DEF FlightTells, Att
    <2>5. orders[o].side = "redeem" => orders[o].status \in {"settling"} \cup Awaiting
      BY <1>3, <2>1 DEF FlightTells, Att
    <2> QED  BY <2>1, <2>2, <2>3, <2>4, <2>5 DEF RowTells, Awaiting
  <1>6. ASSUME NEW o \in Orders
        PROVE  /\ orders'[o] \in OrderRows /\ RowTells(orders'[o])
               /\ orders'[o].side = orders[o].side /\ orders'[o].user = orders[o].user
               /\ orders'[o].qty = orders[o].qty /\ orders'[o].batch = orders[o].batch
               /\ orders'[o].collected = orders[o].collected
               /\ orders'[o].released = orders[o].released
               /\ o \in A => orders'[o].status = "success"
               /\ o \notin A => orders'[o] = orders[o]
    <2>1. orders[o] \in OrderRows /\ RowTells(orders[o])
      BY <1>3 DEF Rows, MoneyInv, Money, OrdersTell
    <2>2. CASE o \in A
      <3>1. orders'[o] = [orders[o] EXCEPT !.status = "success"]
        BY <1>1, <2>2
      <3>2. orders[o].batch # NoBatch /\ ~orders[o].released
        BY <1>5, <2>2, NoBatchIsNoDay
      <3> QED  BY <2>1, <2>2, <3>1, <3>2 DEF OrderRows, RowTells, OrderStatuses
    <2>3. CASE o \notin A
      BY <1>1, <2>1, <2>3
    <2> QED  BY <2>2, <2>3
  <1>7. orders' \in Rows /\ OrdersTell'
    BY <1>1, <1>6 DEF Rows, OrdersTell
  <1> HIDE DEF A
  <1>8. Unbegun' /\ NavTells'
    BY <1>1, <1>4, <1>6 DEF MoneyInv, Money, Unbegun, NavTells
  <1>9. FlightsTell'
    <2>1. \A e \in Days : batch'[e].status \notin InFlight
      BY <1>1, <1>4, OneInFlight DEF InFlight
    <2> QED  BY <2>1 DEF FlightsTell
  <1>10. /\ position' \in Positions /\ fundShares' \in Nat /\ fundShares' = HeldAt(position')
         /\ \A u \in Users : position'[u].reserved = position[u].reserved - Burned(d, u)
         /\ \A u \in Users : position'[u].reserved <= position'[u].shares
    BY <1>2, AccountShares
  <1>11. \A X \in SUBSET Orders : SumAt(orders', X) = SumAt(orders, X)
    BY <1>6, SumAtSame
  <1>12. ASSUME NEW u \in Users
         PROVE  position'[u].reserved = SumAt(orders', RedeemsAt(orders', u))
    <2> DEFINE X == RedeemsAt(orders, u)
               Y == By(A, "redeem", u)
    <2>1. Y \in SUBSET X /\ X \in SUBSET Orders
      BY <1>5 DEF By, Of, RedeemsAt
    <2>2. RedeemsAt(orders', u) = X \ Y
      BY <1>6 DEF By, Of, RedeemsAt
    <2>3. Burned(d, u) = SumAt(orders, Y) /\ position[u].reserved = SumAt(orders, X)
      BY MoneyFacts DEF Burned, A
    <2> HIDE DEF X, Y
    <2>4. SumAt(orders, X \ Y) = SumAt(orders, X) - SumAt(orders, Y) /\ X \ Y \in SUBSET Orders
      BY <1>3, <2>1, SumAtParts
    <2> QED  BY <1>10, <1>11, <2>2, <2>3, <2>4
  <1>13. ASSUME NEW u \in Users
         PROVE  /\ Again(u) \in SUBSET Orders /\ BuysAt(orders, u) \in SUBSET Orders
                /\ TwiceAt(orders, batch, u) \in SUBSET Orders
                /\ BuysAt(orders', u) = BuysAt(orders, u)
                /\ TwiceAt(orders, batch, u) \cap Again(u) = {}
                /\ TwiceAt(orders', batch', u) =
                      IF batch[d].status = "awaiting_positive_net_execution"
                      THEN TwiceAt(orders, batch, u)
                      ELSE TwiceAt(orders, batch, u) \cup Again(u)
    <2>1. BuysAt(orders', u) = BuysAt(orders, u)
      BY <1>6 DEF BuysAt
    <2>2. Again(u) = {o \in A : orders[o].side = "buy" /\ orders[o].user = u} /\ Again(u) \in SUBSET Orders
      BY <1>5 DEF By, Of
    <2>3. TwiceAt(orders, batch, u) \cap Again(u) = {}
      BY <1>5, <2>2 DEF TwiceAt
    <2>4. batch[d].status = "awaiting_positive_net_execution"
             <=> ~(batch[d].buy < batch[d].redeem * batch[d].price)
      <3>1. PICK x : x = batch[d].redeem * batch[d].price
        OBVIOUS
      <3>2. batch[d].buy \in Nat /\ x \in Nat
        <4>1. batch[d].redeem \in Nat /\ batch[d].price \in Nat /\ batch[d].buy \in Nat
          BY <1>3 DEF Plans
        <4> QED  BY <3>1, <4>1
      <3>3. batch[d].status = "awaiting_positive_net_execution" <=> batch[d].buy >= x
        BY <1>3, <3>1 DEF FlightTells
      <3>4. batch[d].buy >= x <=> ~(batch[d].buy < x)
        BY <3>2
      <3> QED  BY <3>1, <3>3, <3>4
    <2> DEFINE Short(b) == b.buy < b.redeem * b.price
    <2>5. \A e \in Days : Short(batch'[e]) <=> Short(batch[e])
      BY <1>4 DEF SameNumbers
    <2>6. batch[d].status = "awaiting_positive_net_execution" <=> ~Short(batch[d])
      BY <2>4
    <2>7. /\ TwiceAt(orders, batch, u) =
                {o \in Orders : /\ orders[o].side = "buy" /\ orders[o].user = u
                                /\ orders[o].status = "success" /\ Short(batch[orders[o].batch])}
          /\ TwiceAt(orders', batch', u) =
                {o \in Orders : /\ orders'[o].side = "buy" /\ orders'[o].user = u
                                /\ orders'[o].status = "success" /\ Short(batch'[orders'[o].batch])}
      BY DEF TwiceAt
    <2> HIDE DEF Short, Again
    <2>8. \A o \in Orders : orders[o].status = "success" => orders[o].batch \in Days
      BY SuccessIsBatched
    <2>9. ASSUME NEW o \in Orders
          PROVE  o \in TwiceAt(orders', batch', u) <=>
                    \/ o \in TwiceAt(orders, batch, u)
                    \/ o \in Again(u) /\ Short(batch[d])
      <3>1. CASE o \in A
        BY <1>5, <1>6, <2>2, <2>5, <2>7, <3>1
      <3>2. CASE o \notin A
        BY <1>6, <2>2, <2>5, <2>7, <2>8, <3>2
      <3> QED  BY <3>1, <3>2
    <2>10. TwiceAt(orders', batch', u) \in SUBSET Orders /\ TwiceAt(orders, batch, u) \in SUBSET Orders
           /\ BuysAt(orders, u) \in SUBSET Orders
      BY DEF TwiceAt, BuysAt
    <2>11. TwiceAt(orders', batch', u) =
              IF batch[d].status = "awaiting_positive_net_execution"
              THEN TwiceAt(orders, batch, u)
              ELSE TwiceAt(orders, batch, u) \cup Again(u)
      <3>1. CASE Short(batch[d])
        BY <2>2, <2>6, <2>9, <2>10, <3>1
      <3>2. CASE ~Short(batch[d])
        BY <2>2, <2>6, <2>9, <2>10, <3>2
      <3> QED  BY <3>1, <3>2
    <2> QED  BY <2>1, <2>2, <2>3, <2>10, <2>11
  <1> DEFINE taken(u) == IF batch[d].status = "awaiting_positive_net_execution" THEN 0
                         ELSE SumAt(orders, Again(u))
  <1>14. ASSUME NEW u \in Users
         PROVE  /\ taken(u) \in Nat
                /\ wallet'[u].balance = wallet[u].balance
                /\ wallet'[u].reserved = wallet[u].reserved - taken(u)
                /\ wallet'[u].reserved \in Int => wallet'[u] \in [balance : Nat, reserved : Int]
    <2>1. wallet[u] \in [balance : Nat, reserved : Int]
      BY <1>3 DEF Wallets
    <2>2. By(Of(A, "buy"), "buy", u) = Again(u) /\ Again(u) \in SUBSET Orders
      BY <1>5 DEF By, Of
    <2> HIDE DEF Again
    <2>3. Total(Again(u)) = SumAt(orders, Again(u)) /\ SumAt(orders, Again(u)) \in Nat
      BY <1>3, <2>2, Quantities, SumsNow, SumAtParts
    <2>4. CASE batch[d].status = "awaiting_positive_net_execution"
      BY <2>1, <2>4
    <2>5. CASE batch[d].status # "awaiting_positive_net_execution"
      <3>1. wallet'[u] = WalletAfter(u, Of(A, "buy"))
        BY <2>5 DEF A
      <3>2. wallet'[u] = [wallet[u] EXCEPT !.reserved = @ - SumAt(orders, Again(u))]
        BY <2>2, <2>3, <3>1 DEF WalletAfter
      <3> QED  BY <2>1, <2>3, <2>5, <3>2
    <2> QED  BY <2>4, <2>5
  <1>15. ASSUME NEW u \in Users
         PROVE  /\ wallet'[u].reserved + SumAt(orders', TwiceAt(orders', batch', u))
                      = SumAt(orders', BuysAt(orders', u))
                /\ wallet'[u].reserved \in Int /\ wallet'[u].reserved <= wallet'[u].balance
    <2>1. /\ wallet[u].reserved + SumAt(orders, TwiceAt(orders, batch, u))
                = SumAt(orders, BuysAt(orders, u))
          /\ wallet[u].reserved \in Int /\ wallet[u].balance \in Nat
          /\ wallet[u].reserved <= wallet[u].balance
      BY <1>3, MoneyFacts DEF Wallets, MoneyInv, Money, TypeOK
    <2>2. SumAt(orders', BuysAt(orders', u)) = SumAt(orders, BuysAt(orders, u))
      BY <1>11, <1>13
    <2>3. SumAt(orders, TwiceAt(orders, batch, u)) \in Nat
      BY <1>3, <1>13, SumAtParts
    <2>4. SumAt(orders', TwiceAt(orders', batch', u)) = SumAt(orders, TwiceAt(orders, batch, u)) + taken(u)
      <3> HIDE DEF Again
      <3>1. SumAt(orders, TwiceAt(orders, batch, u) \cup Again(u))
               = SumAt(orders, TwiceAt(orders, batch, u)) + SumAt(orders, Again(u))
        BY <1>3, <1>13, SumAtParts
      <3>2. TwiceAt(orders', batch', u) \in SUBSET Orders
        BY <1>13
      <3> QED  BY <1>11, <1>13, <2>3, <3>1, <3>2
    <2> HIDE DEF taken
    <2> QED  BY <1>14, <2>1, <2>2, <2>3, <2>4
  <1> HIDE DEF taken
  <1>16. wallet' \in Wallets
    <2>1. wallet' = [u \in Users |-> wallet'[u]]
      BY <1>3 DEF Wallets
    <2>2. \A u \in Users : wallet'[u] \in [balance : Nat, reserved : Int]
      BY <1>14, <1>15
    <2> QED  BY <2>1, <2>2 DEF Wallets
  <1>17. TypeOK'
    BY <1>1, <1>4, <1>7, <1>10, <1>15, <1>16 DEF MoneyInv, Money, TypeOK, Rows, Wallets, Positions
  <1>18. Claims'
    BY <1>7, <1>10, <1>12, <1>15, ClaimsNext
  <1> QED  BY <1>7, <1>8, <1>9, <1>17, <1>18 DEF Money

-----------------------------------------------------------------------------
(* The invariant of the money holds at first and in every step.            *)

\* With quantities of nothing every sum is nothing.
LEMMA NothingOrdered ==
  ASSUME NEW w \in Rows, \A o \in Orders : w[o].qty = 0, NEW S \in SUBSET Orders
  PROVE  SumAt(w, S) = 0
  <1> DEFINE f == [o \in Orders |-> w[o].qty]
  <1>1. (\A o \in S : f[o] = 0) /\ IsFiniteSet(S) /\ Cardinality(S) \in Nat
    BY Finite, FS_CardinalityType
  <1> HIDE DEF f
  <1>2. Sum(f, S) = 0 * Cardinality(S)
    BY <1>1, SumOfEqual
  <1> QED  BY <1>1, <1>2 DEF SumAt, f

\* At first nobody has ordered, and every holder has the same shares.
LEMMA MoneyInit == Init => MoneyInv
  <1> SUFFICES ASSUME Init  PROVE  MoneyInv
    OBVIOUS
  <1>1. NoOrder \in OrderRows /\ NoOrder.status = "none"
    BY NoOrderTyped
  <1>2. \A o \in Orders : /\ orders[o] \in OrderRows /\ orders[o].status = "none"
                          /\ orders[o].side = "buy" /\ orders[o].qty = 0
                          /\ orders[o].batch = NoBatch
                          /\ ~orders[o].collected /\ ~orders[o].released
    BY <1>1 DEF Init, NoOrder
  <1>3. orders \in Rows /\ OrdersTell
    BY <1>2 DEF Init, Rows, OrdersTell, RowTells
  <1>4. batch \in [Days -> Plans] /\ \A d \in Days : batch[d].status = "none"
    BY DEF Init, NoPlan, Plans, BatchStatuses
  <1>5. NavTells /\ Unbegun /\ FlightsTell
    <2>1. NavTells
      BY DEF Init, NavTells
    <2>2. Unbegun
      BY <1>2, NoBatchIsNoDay DEF Unbegun
    <2>3. FlightsTell
      BY <1>4 DEF FlightsTell, InFlight
    <2> QED  BY <2>1, <2>2, <2>3
  <1>6. position \in Positions /\ wallet \in Wallets
        /\ \A u \in Users : /\ position[u].shares = Holding /\ position[u].reserved = 0
                            /\ wallet[u].balance = Deposit /\ wallet[u].reserved = 0
    BY SettlementAssumption DEF Init, Positions, Wallets
  <1>7. fundShares = HeldAt(position) /\ fundShares \in Nat
    <2> DEFINE f == [u \in Users |-> position[u].shares]
    <2>1. \A u \in Users : f[u] = Holding
      BY <1>6
    <2> HIDE DEF f
    <2>2. Holding \in Nat /\ IsFiniteSet(Users) /\ Cardinality(Users) \in Nat
      BY SettlementAssumption, FS_CardinalityType
    <2>3. Sum(f, Users) = Holding * Cardinality(Users)
      BY <2>1, <2>2, SumOfEqual
    <2>4. fundShares = Holding * Cardinality(Users)
      BY DEF Init
    <2>5. \A u \in Users : f[u] \in Nat
      BY <2>1, <2>2
    <2>6. Sum(f, Users) \in Nat
      BY <2>2, <2>5, SumTyped
    <2> QED  BY <2>3, <2>4, <2>6 DEF HeldAt, f
  <1>8. TypeOK
    <2>1. today \in 1 .. LastDay + 1
      BY SettlementAssumption DEF Init
    <2>2. nav \in [Days -> [price : Nat, shares : Nat]]
      BY DEF Init, NoRow
    <2>3. lock \in Days \cup {NoBatch}
      BY DEF Init
    <2>4. \A u \in Users : /\ wallet[u].reserved <= wallet[u].balance
                           /\ position[u].reserved <= position[u].shares
      BY <1>6, SettlementAssumption
    <2> QED
      BY <1>3, <1>4, <1>6, <1>7, <2>1, <2>2, <2>3, <2>4 DEF TypeOK, Rows, Positions, Wallets
  <1>9. \A S \in SUBSET Orders : SumAt(orders, S) = 0
    BY <1>2, <1>3, NothingOrdered
  <1>10. Claims
    <2>1. \A u \in Users : /\ RedeemsAt(orders, u) \in SUBSET Orders
                           /\ BuysAt(orders, u) \in SUBSET Orders
                           /\ TwiceAt(orders, batch, u) \in SUBSET Orders
      BY DEF RedeemsAt, BuysAt, TwiceAt
    <2>2. /\ \A o \in Orders : orders[o].qty \in Nat
          /\ \A u \in Users : position[u].shares \in Nat
      BY <1>2, <1>6, SettlementAssumption
    <2>3. \A u \in Users : /\ position[u].reserved = SumAt(orders, RedeemsAt(orders, u))
                           /\ wallet[u].reserved + SumAt(orders, TwiceAt(orders, batch, u))
                                 = SumAt(orders, BuysAt(orders, u))
      BY <1>6, <1>9, <2>1
    <2> QED  BY <1>7, <2>2, <2>3, MoneyNow DEF Claims
  <1> QED  BY <1>3, <1>5, <1>8, <1>10, InitInv DEF MoneyInv, Money

\* The runs of the settlement worker for one settlement date.
LEMMA RunMoney ==
  ASSUME MoneyInv, NEW d \in Days, SettlementRun(d) \/ NoOrdersBatch(d)
  PROVE  Money'
  <1>1. ASSUME NEW live \in BOOLEAN, OpenBatch(d, live)  PROVE  Money'
    BY <1>1, OpenMoney
  <1>2. CASE RejectBatch(d)
    <2>1. PICK locked \in BOOLEAN : FailPreExternal(d, Pending(d), locked)
      BY <1>2 DEF RejectBatch
    <2>2. \A o \in Pending(d) : /\ o \in Orders /\ orders[o].status = "pending"
                                /\ orders[o].batch = NoBatch /\ RowTells(orders[o])
      BY DEF Pending, MoneyInv, Money, OrdersTell
    <2>3. \A o \in Pending(d) : /\ orders[o].status \notin {"none", "success"} /\ ~orders[o].released
                                /\ orders[o].batch \in {NoBatch, d}
      BY <2>2 DEF RowTells
    <2>4. Pending(d) \in SUBSET Orders
      BY DEF Pending
    <2> QED  BY <2>1, <2>3, <2>4, PreExternalMoney
  <1>3. CASE ResumeBatch(d)
    BY <1>3, StatusMoney DEF ResumeBatch, InFlight, Awaiting, BatchStatuses
  <1>4. CASE NoOrdersBatch(d)
    BY <1>4, StatusMoney DEF NoOrdersBatch, InFlight, BatchStatuses
  <1> QED  BY <1>1, <1>2, <1>3, <1>4 DEF SettlementRun

\* Accounting and what may stop a negative-net batch before it.
LEMMA AccountingMoney ==
  ASSUME MoneyInv, NEW d \in Days,
         \/ FinalizePositive(d) \/ RefusePositive(d)
         \/ FinalizeNegative(d) \/ FailTargets(d) \/ StopNegative(d)
  PROVE  Money'
  <1>1. CASE FinalizePositive(d)
    BY <1>1, AccountMoney DEF FinalizePositive, PositiveReady, Awaiting
  <1>2. CASE FinalizeNegative(d)
    BY <1>2, AccountMoney DEF FinalizeNegative, Awaiting
  <1>3. CASE FailTargets(d)
    <2>1. FailPreExternal(d, Attached(d), lock = d) /\ (lock = d) \in BOOLEAN
          /\ batch[d].status \in Awaiting
      BY <1>3 DEF FailTargets, Awaiting
    <2>2. Attached(d) \in SUBSET Orders
      BY DEF Attached
    <2> QED  BY <2>1, <2>2, AwaitingUnsettled, PreExternalMoney
  <1>4. CASE StopNegative(d)
    BY <1>4, StatusMoney DEF StopNegative, InFlight, BatchStatuses
  <1>5. CASE RefusePositive(d)
    <2>1. /\ FailBatch(d, Attached(d), {}) /\ lock' \in Days \cup {NoBatch}
          /\ batch[d].status \in Awaiting
      BY <1>5 DEF RefusePositive, PositiveReady, Awaiting
    <2>2. Attached(d) \in SUBSET Orders /\ {} \in SUBSET Attached(d)
      BY DEF Attached
    <2> QED  BY <2>1, <2>2, AwaitingUnsettled, FailBatchMoney
  <1> QED  BY <1>1, <1>2, <1>3, <1>4, <1>5

\* Nothing changes.
LEMMA StutterMoney ==
  ASSUME MoneyInv, UNCHANGED vars
  PROVE  Money'
  <1>1. UNCHANGED <<today, nav, orders, batch, lock, money, fundShares, wallet, position>>
    BY DEF vars, money
  <1>2. TypeOK' /\ OrdersTell' /\ NavTells' /\ Unbegun' /\ FlightsTell'
    BY <1>1 DEF MoneyInv, Money, TypeOK, OrdersTell, NavTells, Unbegun, FlightsTell
  <1>3. Claims'
    BY <1>1, MoneyFacts, ClaimsNext
  <1> QED  BY <1>2, <1>3 DEF Money

\* Every step keeps the invariant.
LEMMA MoneySteps == MoneyInv /\ [Next]_vars => MoneyInv'
  <1> SUFFICES ASSUME MoneyInv, [Next]_vars  PROVE  MoneyInv'
    OBVIOUS
  <1>1. Inv'
    BY NextInv DEF MoneyInv
  <1>2. ASSUME NEW u \in Users, NEW q \in Amounts, CreateBuyOrder(u, q) \/ CreateRedeemOrder(u, q)
        PROVE  Money'
    BY <1>2, BuyMoney, RedeemMoney
  <1>3. ASSUME NextDay  PROVE  Money'
    BY <1>3, NextDayMoney
  <1>4. ASSUME NEW d \in Days, SettlementRun(d) \/ NoOrdersBatch(d)  PROVE  Money'
    BY <1>4, RunMoney
  <1>5. ASSUME NEW o \in Orders, CollectOrder(o)  PROVE  Money'
    BY <1>5, CollectMoney
  <1>6. ASSUME NEW o \in Orders,
               RevertOrder(o) \/ \E release \in BOOLEAN : FailInPass(o, release)
        PROVE  Money'
    BY <1>6, FailMoney
  <1>7. ASSUME NEW d \in Days, CloseCollection(d)  PROVE  Money'
    BY <1>7, CloseMoney
  <1>8. ASSUME NEW d \in Days,
               \/ FinalizePositive(d) \/ RefusePositive(d)
               \/ FinalizeNegative(d) \/ FailTargets(d) \/ StopNegative(d)
        PROVE  Money'
    BY <1>8, AccountingMoney
  <1>9. ASSUME UNCHANGED vars  PROVE  Money'
    BY <1>9, StutterMoney
  <1>10. Money'
    BY <1>2, <1>3, <1>4, <1>5, <1>6, <1>7, <1>8, <1>9
       DEF Next, OrderEntry, Collection, Accounting
  <1> QED  BY <1>1, <1>10 DEF MoneyInv

\* MoneyInv is an invariant of Settlement.
LEMMA MoneyInvariance == Spec => []MoneyInv
  BY MoneyInit, MoneySteps, PTL DEF Spec

-----------------------------------------------------------------------------
\* Every row of the orders, batches, wallets and positions keeps its type, no wallet
\* reserves more than its balance and no position more than its shares: what the checks of
\* order entry are for holds through every settlement (create_buy_order,
\* create_redeem_order and the reserve services).
THEOREM SettlementTypes == Spec => []TypeOK
  <1>1. MoneyInv => TypeOK
    BY DEF MoneyInv, Money
  <1> QED  BY <1>1, MoneyInvariance, PTL

\* The fund has as many shares as its holders have together, after every batch that
\* accounting completes and every one that fails (accounting_service).
THEOREM FundBacked == Spec => []SharesBacked
  <1>1. MoneyInv => SharesBacked
    BY DEF MoneyInv, Money, Claims
  <1> QED  BY <1>1, MoneyInvariance, PTL

\* A position reserves exactly what its redemptions still claim, however many there are
\* and whatever became of their batches (create_redeem_order, release_redeem_reserve_if_safe).
THEOREM RedeemReserveHeld == Spec => []RedeemReserveBacked
  <1>1. MoneyInv => RedeemReserveBacked
    BY DEF MoneyInv, Money, Claims
  <1> QED  BY <1>1, MoneyInvariance, PTL

\* A wallet's reserve is short of what its buy orders claim by exactly the buy orders of
\* the negative-net batches that were settled, and by nothing else
\* (buy_reserve_service, negative_finalization).
THEOREM BuyReserveHeld == Spec => []BuyReserveAccounted
  <1>1. MoneyInv => BuyReserveAccounted
    BY DEF MoneyInv, Money, Claims
  <1> QED  BY <1>1, MoneyInvariance, PTL

\* What a batch in flight redeems of a user is reserved in the position of that user.
LEMMA AttachedCovered ==
  ASSUME MoneyInv, NEW d \in Days, batch[d].status \in InFlight
  PROVE  Covered(Attached(d))
  <1>1. FlightTells(orders, batch[d], d) /\ orders \in Rows /\ position \in Positions
    BY MoneyFacts DEF MoneyInv, Money, FlightsTell
  <1>2. \A o \in Orders : orders[o].qty \in Nat
    BY <1>1, Quantities
  <1>3. ASSUME NEW u \in Users
        PROVE  LET due == Total(By(Attached(d), "redeem", u))
               IN  due <= position[u].shares /\ due <= position[u].reserved
    <2> DEFINE X == By(Attached(d), "redeem", u)
               Y == RedeemsAt(orders, u)
    <2>1. X \in SUBSET Y /\ Y \in SUBSET Orders
      <3>1. ASSUME NEW o \in X  PROVE  o \in Y
        <4>1. /\ o \in Orders /\ orders[o].batch = d /\ orders[o].side = "redeem"
              /\ orders[o].user = u
          BY DEF By, Of, Attached
        <4>2. orders[o].status \in {"settling"} \cup Awaiting /\ RowTells(orders[o])
          BY <1>1, <4>1 DEF FlightTells, Att, MoneyInv, Money, OrdersTell
        <4> QED  BY <4>1, <4>2 DEF RedeemsAt, RowTells, Awaiting
      <3> QED  BY <3>1 DEF RedeemsAt
    <2> HIDE DEF X, Y
    <2>2. SumAt(orders, X) <= SumAt(orders, Y) /\ SumAt(orders, X) \in Nat
      BY <1>1, <2>1, SumAtParts
    <2>3. X \in SUBSET Orders /\ Total(X) = SumAt(orders, X)
      BY <1>2, <2>1, SumsNow
    <2>4. position[u].reserved = SumAt(orders, Y)
      BY MoneyFacts DEF Y
    <2>5. position[u].reserved <= position[u].shares /\ position[u].shares \in Nat
          /\ position[u].reserved \in Nat
      BY <1>1 DEF MoneyInv, Money, TypeOK, Positions
    <2>6. Total(X) <= position[u].shares /\ Total(X) <= position[u].reserved
      BY <2>2, <2>3, <2>4, <2>5
    <2> QED  BY <2>6 DEF X
  <1> QED  BY <1>3 DEF Covered

\* The share plan a batch was opened with is what its orders add up to until it is
\* accounted, and the positions can still give it: after the buyers have paid,
\* validate_positive_net_share_preflight finds nothing that order entry, failed orders or
\* other batches changed.
THEOREM PlanKept == Spec => []PlanStaysValid
  <1>1. ASSUME MoneyInv, NEW d \in Days, batch[d].status \in InFlight
        PROVE  PlanValid(d)
    <2>1. FlightTells(orders, batch[d], d) /\ orders \in Rows /\ batch[d] \in Plans
      BY <1>1, MoneyFacts DEF MoneyInv, Money, FlightsTell
    <2>2. batch[d].price \in Nat \ {0} /\ \A o \in Orders : orders[o].qty \in Nat
      BY <2>1, Quantities DEF FlightTells, Plans
    <2>3. /\ Of(Attached(d), "buy") = Att(orders, d, "buy")
          /\ Of(Attached(d), "redeem") = Att(orders, d, "redeem")
          /\ Att(orders, d, "buy") \in SUBSET Orders /\ Att(orders, d, "redeem") \in SUBSET Orders
      BY DEF Of, Attached, Att
    <2>4. /\ IssuedFor(Att(orders, d, "buy"), batch[d].price) = batch[d].issue
          /\ Total(Att(orders, d, "redeem")) = batch[d].redeem
      BY <2>1, <2>2, <2>3, SumsNow DEF FlightTells
    <2>5. fundShares = batch[d].before
      BY <1>1 DEF MoneyInv, Inv, LockedWhileInFlight
    <2> QED  BY <1>1, <2>3, <2>4, <2>5, AttachedCovered DEF PlanValid
  <1>2. MoneyInv => PlanStaysValid
    BY <1>1 DEF PlanStaysValid
  <1> QED  BY <1>2, MoneyInvariance, PTL
=============================================================================
