----------------------------- MODULE Settlement -----------------------------
(***************************************************************************)
(* Orders of one fund from their entry to their settlement                 *)
(* (app/trading/order_service.py, app/settlement/batch_service.py,         *)
(* pricing_lock.py, negative_failure_service.py, accounting_service.py and *)
(* negative_finalization.py).                                              *)
(*                                                                         *)
(* An order reserves the buyer's USDT or the holder's shares.  Once a day  *)
(* the settlement worker puts the pending orders into the batch of the     *)
(* settlement date, locks the fund's pricing, prices the batch from the    *)
(* last NAV row before the cutoff and plans how many shares it will issue  *)
(* and redeem.  The batch then collects the buyers' USDT (BuyCollection    *)
(* has the details), executes its net cash flow, and its accounting        *)
(* changes positions, fund and orders in one transaction, which gives the  *)
(* pricing lock back.                                                      *)
(*                                                                         *)
(* Every action is one database transaction: it holds the row locks of all *)
(* it reads, so it is atomic.  USDT is counted in whole units and shares   *)
(* in the share quantum of 0.0001.                                         *)
(***************************************************************************)
EXTENDS Integers, FiniteSets, FiniteSetsExt

CONSTANTS
    Users,
    Orders,    \* ids of the orders, handed out in ascending order
    LastDay,   \* settlement dates are 1 .. LastDay
    Amounts,   \* quantities ordered: USDT of a buy, shares of a redemption
    Prices,    \* settlement prices the NAV rows give
    Deposit,   \* USDT on every wallet at first
    Holding    \* shares in every position at first

Days == 1 .. LastDay
NoBatch == 0

ASSUME SettlementAssumption ==
    /\ Users # {} /\ IsFiniteSet(Users)
    /\ Orders \subseteq Nat /\ IsFiniteSet(Orders)
    /\ LastDay \in Nat
    /\ Amounts \subseteq Nat \ {0}
    /\ Prices \subseteq Nat \ {0}
    /\ Deposit \in Nat
    /\ Holding \in Nat

VARIABLES
    today,       \* the current day
    nav,         \* the last NAV row before each day's cutoff, if fresh enough
    orders,      \* fund_orders
    batch,       \* fund_settlement_batches, one per settlement date
    lock,        \* the batch that holds the fund's pricing lock, or NoBatch
    fundShares,  \* funds.shares_outstanding_current
    wallet,      \* user_wallets
    position     \* user_fund_positions

money == <<fundShares, wallet, position>>
vars  == <<today, nav, orders, batch, lock, money>>

Sides == {"buy", "redeem"}

OrderStatuses ==
    {"none", "pending", "settling", "buy_collected", "awaiting_positive_net_execution",
     "awaiting_negative_net_execution", "success", "failed_requires_review"}

BatchStatuses ==
    {"none", "no_orders", "gas_checking", "collecting_buy_usdt",
     "awaiting_positive_net_execution", "awaiting_negative_net_execution",
     "completed", "failed_requires_review"}

\* A batch whose plan is fixed and whose accounting is still to come.
InFlight ==
    {"gas_checking", "collecting_buy_usdt", "awaiting_positive_net_execution",
     "awaiting_negative_net_execution"}

NoOrder ==
    [side |-> "buy", user |-> CHOOSE u \in Users : TRUE, qty |-> 0, day |-> 0,
     status |-> "none", batch |-> NoBatch, collected |-> FALSE, released |-> FALSE]

NoPlan == [status |-> "none", price |-> 0, before |-> 0, buy |-> 0, issue |-> 0, redeem |-> 0]

NoRow == [price |-> 0, shares |-> 0]

Init ==
    /\ today = 1
    /\ nav = [d \in Days |-> NoRow]
    /\ orders = [o \in Orders |-> NoOrder]
    /\ batch = [d \in Days |-> NoPlan]
    /\ lock = NoBatch
    /\ fundShares = Holding * Cardinality(Users)
    /\ wallet = [u \in Users |-> [balance |-> Deposit, reserved |-> 0]]
    /\ position = [u \in Users |-> [shares |-> Holding, reserved |-> 0]]

-----------------------------------------------------------------------------
(* Quantities of sets of orders.                                           *)

Qty(o) == orders[o].qty

Total(S) == MapThenSumSet(Qty, S)

Of(S, side) == {o \in S : orders[o].side = side}

By(S, side, u) == {o \in Of(S, side) : orders[o].user = u}

Attached(d) == {o \in Orders : orders[o].batch = d}

\* Shares a buy order gets, rounded down to the quantum.
Issued(o, price) == orders[o].qty \div price

IssuedFor(S, price) == LET I(o) == Issued(o, price) IN MapThenSumSet(I, S)

-----------------------------------------------------------------------------
(* Order entry.                                                            *)

\* Slip: what is reserved can be ordered again.
FreeUsdtReserved(u) == wallet[u].balance

FreeUsdt(u) == wallet[u].balance - wallet[u].reserved

FreeShares(u) == position[u].shares - position[u].reserved

ActiveRedeemStatuses ==
    {"pending", "settling", "awaiting_negative_net_execution", "processing"}

ActiveRedeem(u) ==
    \E o \in Orders : /\ orders[o].side = "redeem"
                      /\ orders[o].user = u
                      /\ orders[o].status \in ActiveRedeemStatuses

\* created_at is read before the commit: an order of yesterday may still appear.
Place(side, u, q) ==
    \E o \in Orders, d \in {today - 1, today} :
        /\ d \in Days
        /\ orders[o].status = "none"
        /\ \A p \in Orders : p < o => orders[p].status # "none"
        /\ orders' = [orders EXCEPT ![o] =
                         [NoOrder EXCEPT !.side = side, !.user = u, !.qty = q,
                                         !.day = d, !.status = "pending"]]

CreateBuyOrder(u, q) ==
    /\ q <= FreeUsdt(u)
    /\ Place("buy", u, q)
    /\ wallet' = [wallet EXCEPT ![u].reserved = @ + q]
    /\ UNCHANGED <<today, nav, batch, lock, fundShares, position>>

CreateRedeemOrder(u, q) ==
    /\ ~ActiveRedeem(u)
    /\ q <= FreeShares(u)
    /\ Place("redeem", u, q)
    /\ position' = [position EXCEPT ![u].reserved = @ + q]
    /\ UNCHANGED <<today, nav, batch, lock, fundShares, wallet>>

\* The cutoff of a day passes.  The NAV collector writes no row while the
\* fund's pricing is locked, and may be down.
NextDay ==
    /\ today \in Days
    /\ today' = today + 1
    /\ \/ UNCHANGED nav
       \/ /\ lock = NoBatch
          /\ fundShares > 0
          /\ \E p \in Prices :
                nav' = [nav EXCEPT ![today] = [price |-> p, shares |-> fundShares]]
    /\ UNCHANGED <<orders, batch, lock, money>>

-----------------------------------------------------------------------------
(* The settlement worker: batches of the settlement dates that are over.   *)

\* Slip: a run looks only at the orders of its own day.
PendingOfDay(d) ==
    {o \in Orders : orders[o].status = "pending" /\ orders[o].batch = NoBatch /\ orders[o].day = d}

Pending(d) ==
    {o \in Orders : /\ orders[o].status = "pending"
                    /\ orders[o].batch = NoBatch
                    /\ orders[o].day <= d}

\* The redemptions of S are within the positions and their reserves.
Covered(S) ==
    \A u \in Users :
        LET due == Total(By(S, "redeem", u))
        IN  due <= position[u].shares /\ due <= position[u].reserved

\* Slip: pricing_locked is not looked at.
LockIgnored(d) == lock \in Days \cup {NoBatch} /\ d \in Days

LockFree(d) == lock \in {NoBatch, d}

\* Slip: the shares of the NAV row are not compared with the fund's.
PlannableStale(d, P) ==
    /\ LockFree(d)
    /\ nav[d] # NoRow
    /\ \A o \in Of(P, "buy") : Issued(o, nav[d].price) >= 1
    /\ Covered(P)

\* What must hold for the pending orders P to become the batch of day d.
Plannable(d, P) ==
    /\ LockFree(d)
    /\ nav[d] # NoRow
    /\ \A o \in Of(P, "buy") : Issued(o, nav[d].price) >= 1
    /\ nav[d].shares = fundShares
    /\ Covered(P)

Plan(d, P, status) ==
    [status |-> status,
     price  |-> nav[d].price,
     before |-> nav[d].shares,
     buy    |-> Total(Of(P, "buy")),
     issue  |-> IssuedFor(Of(P, "buy"), nav[d].price),
     redeem |-> Total(Of(P, "redeem"))]

\* With the live gate open the run goes on to collect the buyers' USDT.
Opened(live) == IF live THEN "collecting_buy_usdt" ELSE "gas_checking"

OpenBatch(d, live) ==
    LET P == Pending(d)
    IN  /\ d < today
        /\ P # {}
        /\ batch[d].status = "none"
        /\ Plannable(d, P)
        /\ batch' = [batch EXCEPT ![d] = Plan(d, P, Opened(live))]
        /\ orders' = [o \in Orders |->
                         IF o \in P THEN [orders[o] EXCEPT !.status = "settling", !.batch = d]
                                    ELSE orders[o]]
        /\ lock' = d
        /\ UNCHANGED <<today, nav, money>>

\* A batch left in gas_checking is taken up only by a run that finds more orders.
ResumeBatch(d) ==
    /\ d < today
    /\ Pending(d) # {}
    /\ batch[d].status = "gas_checking"
    /\ batch' = [batch EXCEPT ![d].status = "collecting_buy_usdt"]
    /\ UNCHANGED <<today, nav, orders, lock, money>>

\* --create-no-orders, and no pending order.
NoOrdersBatch(d) ==
    /\ d < today
    /\ Pending(d) = {}
    /\ batch[d].status # "no_orders"
    /\ batch' = [batch EXCEPT ![d].status = "no_orders"]
    /\ UNCHANGED <<today, nav, orders, lock, money>>

\* What the orders S give back of the reserves of user u.
WalletAfter(u, S) == [wallet[u] EXCEPT !.reserved = @ - Total(By(S, "buy", u))]

PositionAfter(u, S) == [position[u] EXCEPT !.reserved = @ - Total(By(S, "redeem", u))]

Reserved(o) ==
    IF orders[o].side = "buy" THEN wallet[orders[o].user].reserved
                              ELSE position[orders[o].user].reserved

\* R are the orders of S that get their reserve back when each is released in
\* turn, as long as what is left of the reserve is enough.
ReleasedInTurn(S, R) ==
    \A o \in S :
        o \in R <=> Total({p \in By(R, orders[o].side, orders[o].user) : p < o})
                       + orders[o].qty <= Reserved(o)

\* Slip: collected USDT is not seen when reserves are released.
ExternalNever(S) == S \cap Orders = {}

\* Money of S has left the users' wallets.  The code counts every transfer of the
\* batch with a transaction; where it asks, the batch has none yet (RejectBatch),
\* or only those of buy orders that are all collected (FailTargets).
External(S) == \E o \in S : orders[o].collected

\* The batch of day d fails with its orders S; those of R get their reserve back.
FailBatch(d, S, R) ==
    /\ batch' = [batch EXCEPT ![d].status = "failed_requires_review"]
    /\ orders' = [o \in Orders |->
                     IF o \in S
                     THEN [orders[o] EXCEPT !.status = "failed_requires_review",
                                            !.batch = d,
                                            !.released = @ \/ o \in R]
                     ELSE orders[o]]
    /\ wallet' = [u \in Users |-> WalletAfter(u, R)]
    /\ position' = [u \in Users |-> PositionAfter(u, R)]
    /\ UNCHANGED <<today, nav, fundShares>>

\* fail_negative_batch_pre_external: release all reserves unless money moved,
\* and give the lock back when that was complete.
FailPreExternal(d, S, locked) ==
    \E R \in SUBSET S :
        /\ IF External(S) THEN R = {} ELSE ReleasedInTurn(S, R)
        /\ FailBatch(d, S, R)
        /\ lock' = IF ~locked THEN lock ELSE IF R = S THEN NoBatch ELSE d

\* A run that cannot open its batch.  What it can open it may refuse as well:
\* a quantity that is no multiple of the quantum, before the lock is taken, or
\* a position whose cost basis does not match, after that.
RejectBatch(d) ==
    /\ d < today
    /\ Pending(d) # {}
    /\ batch[d].status = "none"
    /\ \E locked \in BOOLEAN : /\ locked => LockFree(d)
                              /\ FailPreExternal(d, Pending(d), locked)

-----------------------------------------------------------------------------
(* Buy collection: the outcomes of BuyCollection, one order at a time.     *)

Collecting(o) ==
    /\ orders[o].side = "buy"
    /\ orders[o].status = "settling"
    /\ batch[orders[o].batch].status = "collecting_buy_usdt"

CollectOrder(o) ==
    LET u == orders[o].user
        q == orders[o].qty
    IN  /\ Collecting(o)
        /\ q <= wallet[u].reserved
        /\ q <= wallet[u].balance
        /\ wallet' = [wallet EXCEPT ![u] = [balance |-> @.balance - q, reserved |-> @.reserved - q]]
        /\ orders' = [orders EXCEPT ![o].status = "buy_collected", ![o].collected = TRUE]
        /\ UNCHANGED <<today, nav, batch, lock, fundShares, position>>

\* The order fails; its reserve is given back if that is safe and possible.
FailOrder(o, release) ==
    LET u == orders[o].user
    IN  /\ Collecting(o)
        /\ release => orders[o].qty <= wallet[u].reserved
        /\ orders' = [orders EXCEPT ![o].status = "failed_requires_review", ![o].released = release]
        /\ wallet' = [wallet EXCEPT ![u].reserved = IF release THEN @ - orders[o].qty ELSE @]
        /\ UNCHANGED <<today, nav, fundShares, position>>

\* In a collection pass: the batch fails at the end of the pass, and keeps the lock.
FailInPass(o, release) == FailOrder(o, release) /\ UNCHANGED <<batch, lock>>

\* The confirmation worker finds the transfer reverted: the batch fails at once
\* and the lock is given back.
RevertOrder(o) ==
    LET d == orders[o].batch
    IN  /\ FailOrder(o, orders[o].qty <= wallet[orders[o].user].reserved)
        /\ batch' = [batch EXCEPT ![d].status = "failed_requires_review"]
        /\ lock' = IF LockFree(d) THEN NoBatch ELSE lock

AwaitingStatus(d) ==
    IF batch[d].buy >= batch[d].redeem * batch[d].price
    THEN "awaiting_positive_net_execution"
    ELSE "awaiting_negative_net_execution"

CloseCollection(d) ==
    /\ batch[d].status = "collecting_buy_usdt"
    /\ \A o \in Of(Attached(d), "buy") : orders[o].status # "settling"
    /\ IF \E o \in Of(Attached(d), "buy") : orders[o].status # "buy_collected"
       THEN /\ batch' = [batch EXCEPT ![d].status = "failed_requires_review"]
            /\ UNCHANGED orders
       ELSE /\ batch' = [batch EXCEPT ![d].status = AwaitingStatus(d)]
            /\ orders' = [o \in Orders |->
                             IF o \in Of(Attached(d), "redeem")
                             THEN [orders[o] EXCEPT !.status = AwaitingStatus(d)]
                             ELSE orders[o]]
    /\ UNCHANGED <<today, nav, lock, money>>

-----------------------------------------------------------------------------
(* Accounting.                                                             *)

\* The checks of _build_accounting_share_plan and _validate_share_totals.
PlanValid(d) ==
    /\ fundShares = batch[d].before
    /\ batch[d].issue = IssuedFor(Of(Attached(d), "buy"), batch[d].price)
    /\ batch[d].redeem = Total(Of(Attached(d), "redeem"))
    /\ Covered(Attached(d))

\* Slip: redeemed shares stay in the fund's total.
FundAfterBuys(d) == batch[d].before + batch[d].issue

FundAfter(d) == batch[d].before + batch[d].issue - batch[d].redeem

\* Slip: the reserve of a settled redemption is kept.
SettledUnreleased(d, u) ==
    LET burned == Total(By(Attached(d), "redeem", u))
        issued == IssuedFor(By(Attached(d), "buy", u), batch[d].price)
    IN  [position[u] EXCEPT !.shares = @ + issued - burned]

SettledPosition(d, u) ==
    LET burned == Total(By(Attached(d), "redeem", u))
        issued == IssuedFor(By(Attached(d), "buy", u), batch[d].price)
    IN  [shares   |-> position[u].shares + issued - burned,
         reserved |-> position[u].reserved - burned]

Account(d) ==
    /\ lock = d
    /\ PlanValid(d)
    /\ FundAfter(d) >= 0
    /\ position' = [u \in Users |-> SettledPosition(d, u)]
    /\ fundShares' = FundAfter(d)
    /\ orders' = [o \in Orders |->
                     IF o \in Attached(d) THEN [orders[o] EXCEPT !.status = "success"]
                                          ELSE orders[o]]
    /\ batch' = [batch EXCEPT ![d].status = "completed"]
    /\ lock' = NoBatch
    /\ UNCHANGED <<today, nav>>

\* What a positive-net pass looks at first.
PositiveReady(d) ==
    /\ batch[d].status = "awaiting_positive_net_execution"
    /\ \A o \in Of(Attached(d), "buy") : orders[o].status = "buy_collected"
    /\ lock = d

FinalizePositive(d) ==
    /\ PositiveReady(d)
    /\ Account(d)
    /\ UNCHANGED wallet

\* The share plan is refused, before the first payout or at the accounting, as
\* a position's cost basis or quantum is wrong: the orders fail with the batch,
\* no reserve is given back, and pricing is unlocked.
RefusePositive(d) ==
    /\ PositiveReady(d)
    /\ FailBatch(d, Attached(d), {})
    /\ lock' = NoBatch

\* A negative-net batch asks for the reserve of each buy order once more.
FinalizeNegative(d) ==
    LET B == Of(Attached(d), "buy")
    IN  /\ batch[d].status = "awaiting_negative_net_execution"
        /\ \A o \in B : orders[o].qty <= wallet[orders[o].user].reserved
        /\ Account(d)
        /\ wallet' = [u \in Users |-> WalletAfter(u, B)]

\* The targets of a negative-net batch cannot be computed.
FailTargets(d) ==
    /\ batch[d].status = "awaiting_negative_net_execution"
    /\ FailPreExternal(d, Attached(d), lock = d)

\* A later step of a negative-net batch fails: an operator has to look at it.
StopNegative(d) ==
    /\ batch[d].status = "awaiting_negative_net_execution"
    /\ batch' = [batch EXCEPT ![d].status = "failed_requires_review"]
    /\ UNCHANGED <<today, nav, orders, lock, money>>

-----------------------------------------------------------------------------
OrderEntry == \E u \in Users, q \in Amounts : CreateBuyOrder(u, q) \/ CreateRedeemOrder(u, q)

SettlementRun(d) ==
    \/ \E live \in BOOLEAN : OpenBatch(d, live)
    \/ RejectBatch(d)
    \/ ResumeBatch(d)

Collection ==
    \/ \E o \in Orders : \/ CollectOrder(o)
                         \/ \E release \in BOOLEAN : FailInPass(o, release)
                         \/ RevertOrder(o)
    \/ \E d \in Days : CloseCollection(d)

Accounting ==
    \E d \in Days : \/ FinalizePositive(d) \/ RefusePositive(d)
                   \/ FinalizeNegative(d) \/ FailTargets(d) \/ StopNegative(d)

Next ==
    \/ OrderEntry
    \/ NextDay
    \/ \E d \in Days : SettlementRun(d) \/ NoOrdersBatch(d)
    \/ Collection
    \/ Accounting

Spec == Init /\ [][Next]_vars

\* Days pass, and the settlement worker runs for every settlement date.
FairSpec == Spec /\ WF_vars(NextDay) /\ \A d \in Days : WF_vars(SettlementRun(d))

-----------------------------------------------------------------------------
(* Properties.                                                             *)

OrderRows ==
    [side : Sides, user : Users, qty : Nat, day : 0 .. LastDay, status : OrderStatuses,
     batch : Days \cup {NoBatch}, collected : BOOLEAN, released : BOOLEAN]

Plans ==
    [status : BatchStatuses, price : Nat, before : Nat, buy : Nat, issue : Nat, redeem : Nat]

\* Types, and no reserve beyond what it is taken from: a wallet's reserve is
\* within its balance and a position's between nothing and its shares.
TypeOK ==
    /\ today \in 1 .. LastDay + 1
    /\ nav \in [Days -> [price : Nat, shares : Nat]]
    /\ orders \in [Orders -> OrderRows]
    /\ batch \in [Days -> Plans]
    /\ lock \in Days \cup {NoBatch}
    /\ fundShares \in Nat
    /\ wallet \in [Users -> [balance : Nat, reserved : Int]]
    /\ position \in [Users -> [shares : Nat, reserved : Nat]]
    /\ \A u \in Users : /\ wallet[u].reserved <= wallet[u].balance
                        /\ position[u].reserved <= position[u].shares

\* The fund has as many shares as its holders: no failed, late or rejected
\* batch loses or creates one (accounting_service, negative_finalization).
SharesBacked ==
    LET Held(u) == position[u].shares IN fundShares = MapThenSumSet(Held, Users)

OpenRedeems(u) ==
    {o \in Orders : /\ orders[o].side = "redeem"
                    /\ orders[o].user = u
                    /\ orders[o].status # "success"
                    /\ ~orders[o].released}

OpenBuys(u) ==
    {o \in Orders : /\ orders[o].side = "buy"
                    /\ orders[o].user = u
                    /\ ~orders[o].collected
                    /\ ~orders[o].released}

\* A position's reserve is what its redemptions still claim, whatever became
\* of their batches (create_redeem_order, release_redeem_reserve_if_safe).
RedeemReserveBacked == \A u \in Users : position[u].reserved = Total(OpenRedeems(u))

\* A wallet's reserve is what its buy orders still claim: a reserve is given
\* back once, on collection or on release ("Buy reserve cannot be released
\* after collection confirmation", buy_reserve_service).
BuyReserveBacked == \A u \in Users : wallet[u].reserved = Total(OpenBuys(u))

TwiceTaken(u) ==
    {o \in Orders : /\ orders[o].side = "buy"
                    /\ orders[o].user = u
                    /\ orders[o].status = "success"
                    /\ batch[orders[o].batch].buy
                          < batch[orders[o].batch].redeem * batch[orders[o].batch].price}

\* The buy orders of settled negative-net batches, whose reserve is taken a
\* second time, are the only ones a wallet's reserve is short of.
BuyReserveAccounted ==
    \A u \in Users : wallet[u].reserved + Total(TwiceTaken(u)) = Total(OpenBuys(u))

\* A batch in flight holds the pricing lock, and the fund still has the
\* number of shares the batch was priced and planned with.
LockedWhileInFlight ==
    \A d \in Days : batch[d].status \in InFlight => lock = d /\ batch[d].before = fundShares

\* The share plan of a batch stays valid until it is accounted: later orders,
\* failures and batches cannot make validate_positive_net_share_preflight fail
\* after the buyers have paid.
PlanStaysValid ==
    \A d \in Days : batch[d].status \in InFlight => PlanValid(d)

\* The pricing lock serialises the batches: one owner, and only the owner
\* changes the fund's shares, when it unlocks (pricing_lock).
Lock == INSTANCE FundLock WITH Batches <- Days, Nobody <- NoBatch,
                               owner <- lock, shares <- fundShares
KeepsLock == Lock!Spec

\* An order is not left pending for ever, late commits included: the run of
\* its day or of a later one takes it (a day's orders must have a next run).
PendingIsBatched ==
    \A o \in Orders :
        (orders[o].status = "pending" /\ orders[o].day < LastDay) ~> orders[o].status # "pending"

\* "Existing non-created batch found; no changes made": a run that finds no
\* pending order leaves the batch of that date as it is (batch_service).
NoOrdersIsEmpty == \A d \in Days : batch[d].status = "no_orders" => Attached(d) = {}
=============================================================================
