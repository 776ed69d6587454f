---------------------------- MODULE PositiveNet ----------------------------
(***************************************************************************)
(* Execution of a batch whose net cash flow is not negative                *)
(* (app/settlement/positive_net_service.py, payout_service.py,             *)
(* bybit_deposit_service.py and workers/fund_positive_net_worker.py).      *)
(*                                                                         *)
(* From the settlement wallet, which holds what the buyers paid, a pass of *)
(* the worker pays the sellers, sends the net amount to the fund's Bybit   *)
(* deposit address, waits until Bybit has credited it, has it moved from   *)
(* the FUND to the UNIFIED account and settles the orders.  Each pass goes *)
(* as far as it can, in one database session.  What the session has not    *)
(* committed is lost when an exception or the end of the process rolls it  *)
(* back; what it has sent to the chain or to Bybit is not.                 *)
(***************************************************************************)
EXTENDS Naturals, Sequences, FiniteSets

CONSTANTS
    Redeems,    \* redeem orders of the batch, visited in ascending order
    MaxSends    \* bound on the transactions of the settlement wallet

ASSUME PositiveNetAssumption ==
    /\ Redeems \subseteq Nat \ {0}
    /\ MaxSends \in Nat

VARIABLES
    db,     \* the batch and its transfer rows, as committed
    work,   \* the same, as the session of the running pass sees them
    pc,     \* where the pass is, "idle" between two passes
    todo,   \* redeem orders the payout stage has still to visit
    txs,    \* transactions the chain's nodes have accepted, oldest first
    bybit   \* the deposit and the internal transfer, as Bybit reports them

vars == <<db, work, pc, todo, txs, bybit>>

Net == 0        \* stands for the net transfer where an order could stand
Payees == Redeems \cup {Net}
NoTx == 0

Active == {"awaiting_positive_net_execution", "positive_net_processing", "pending_confirmation"}

BatchStatuses == Active \cup {"completed", "failed_requires_review"}

Stages == {"idle", "payouts", "net", "broadcast", "deposit", "internal", "account", "commit"}

Init ==
    /\ \E cash \in {0, 1} :
          db = [status |-> "awaiting_positive_net_execution", cash |-> cash,
                rows |-> [o \in Redeems |-> [status |-> "none", tx |-> NoTx]], paidOut |-> FALSE,
                net |-> [status |-> "none", nonce |-> 0, tx |-> NoTx],
                deposited |-> FALSE, account |-> "none",
                posted |-> FALSE, internal |-> "none", done |-> FALSE]
    /\ work = db
    /\ pc = "idle"
    /\ todo = {}
    /\ txs = << >>
    /\ bybit = [deposit |-> "none", transfer |-> "none"]

-----------------------------------------------------------------------------
(* The chain (external).                                                   *)

Having(state) == {n \in DOMAIN txs : txs[n].state = state}

\* The next nonce of the settlement wallet: the pool is not counted.
MinedNonce == Cardinality(Having("ok") \cup Having("reverted"))

PendingNonce == MinedNonce + Cardinality(Having("pooled"))

\* A node takes a transaction; one of the same nonce that is still in the pool
\* gives way if the new one pays more for its gas.
Accept(to, nonce) ==
    /\ Len(txs) < MaxSends
    /\ nonce >= MinedNonce
    /\ txs' = [n \in 1 .. Len(txs) + 1 |->
                  IF n = Len(txs) + 1
                  THEN [to |-> to, nonce |-> nonce, state |-> "pooled"]
                  ELSE IF txs[n].state = "pooled" /\ txs[n].nonce = nonce
                       THEN [txs[n] EXCEPT !.state = "replaced"]
                       ELSE txs[n]]

Mine ==
    /\ \E n \in Having("pooled"), result \in {"ok", "reverted"} :
          /\ txs[n].nonce = MinedNonce
          /\ txs' = [txs EXCEPT ![n].state = result]
    /\ UNCHANGED <<db, work, pc, todo, bybit>>

\* Slip: any receipt will do.
ConfirmedByReceipt(tx) == tx \in Having("ok") \cup Having("reverted")

\* _check_tx_confirmed: a receipt with status 1.
Confirmed(tx) == tx \in Having("ok")

-----------------------------------------------------------------------------
(* A pass of the worker.                                                   *)

\* The pass goes on at another stage with the session in state w.
Go(stage, w) ==
    /\ pc' = stage
    /\ work' = w
    /\ UNCHANGED <<db, bybit>>

Waiting(w) == [w EXCEPT !.status = "pending_confirmation"]

\* The pass returns; the worker commits its session.
End(w) == Go("commit", w)

Begin ==
    /\ pc = "idle"
    /\ db.status \in Active
    /\ ~db.done
    /\ LET started == [db EXCEPT !.status = IF @ = "awaiting_positive_net_execution"
                                            THEN "positive_net_processing" ELSE @]
       IN  IF db.paidOut THEN Go("net", started) /\ UNCHANGED todo
                         ELSE Go("payouts", started) /\ todo' = Redeems
    /\ UNCHANGED txs

Commit ==
    /\ pc = "commit"
    /\ db' = work
    /\ pc' = "idle"
    /\ UNCHANGED <<work, todo, txs, bybit>>

\* The session is given up.
Abandon ==
    /\ work' = db
    /\ pc' = "idle"
    /\ todo' = {}
    /\ UNCHANGED db

\* An RPC or API call, the operation guard or a check raises, or the process ends.
Rollback ==
    /\ pc # "idle"
    /\ Abandon
    /\ UNCHANGED <<txs, bybit>>

-----------------------------------------------------------------------------
(* Seller payouts (payout_service).                                        *)

\* The stage refuses a batch of any other status.
Payable ==
    /\ pc = "payouts"
    /\ work.status \in {"awaiting_positive_net_execution", "positive_net_processing"}

\* Order o is the next one the payout stage visits.
Visiting(o) ==
    /\ Payable
    /\ o \in todo
    /\ \A p \in todo : o <= p

\* Slip: the row is written for the last order of the loop.
VisitedLast(o, row) ==
    /\ \E last \in todo : /\ \A p \in todo : p <= last
                         /\ Go("payouts", [work EXCEPT !.rows[last] = row])
    /\ todo' = todo \ {o}

Visited(o, row) ==
    /\ Go("payouts", [work EXCEPT !.rows[o] = row])
    /\ todo' = todo \ {o}

\* The transfer of o has been sent before: only its receipt is looked at.
CheckPayout(o) ==
    /\ Visiting(o)
    /\ work.rows[o].tx # NoTx
    /\ Visited(o, [work.rows[o] EXCEPT
                      !.status = IF @ = "confirmed" \/ Confirmed(work.rows[o].tx)
                                 THEN "confirmed" ELSE "pending_confirmation"])
    /\ UNCHANGED txs

\* _send_usdt_transfer signs with the nonce of the mined transactions, and the
\* row with the hash waits in the session.  The node may take the transaction
\* and its answer be lost.
SendPayout(o) ==
    /\ Visiting(o)
    /\ work.rows[o].tx = NoTx
    /\ Accept(o, MinedNonce)
    /\ \/ Visited(o, [status |-> "sent", tx |-> Len(txs) + 1])
       \/ Abandon /\ UNCHANGED bybit

\* Slip: the batch is marked as waiting for the chain.
PayoutsWaiting ==
    /\ Payable
    /\ todo = {}
    /\ IF \A o \in Redeems : work.rows[o].status = "confirmed"
       THEN Go("net", [work EXCEPT !.paidOut = TRUE])
       ELSE End(Waiting(work))
    /\ UNCHANGED <<todo, txs>>

PayoutsVisited ==
    /\ Payable
    /\ todo = {}
    /\ IF \A o \in Redeems : work.rows[o].status = "confirmed"
       THEN Go("net", [work EXCEPT !.paidOut = TRUE])
       ELSE End(work)
    /\ UNCHANGED <<todo, txs>>

-----------------------------------------------------------------------------
(* The net transfer (bybit_deposit_service, with a durable intent).        *)

WithNet(status) == [work EXCEPT !.net.status = status]

\* With no net cash, deposit and internal transfer are skipped.
SkipNet ==
    /\ pc = "net"
    /\ work.cash = 0
    /\ Go("account", [work EXCEPT !.deposited = TRUE, !.internal = "skipped"])
    /\ UNCHANGED <<todo, txs>>

CheckNet ==
    /\ pc = "net"
    /\ work.cash > 0
    /\ work.net.tx # NoTx
    /\ IF work.net.status = "confirmed" \/ Confirmed(work.net.tx)
       THEN Go("deposit", WithNet("confirmed"))
       ELSE End(Waiting(WithNet("pending_confirmation")))
    /\ UNCHANGED <<todo, txs>>

\* Slip: the signed transaction is not committed before it is sent.
PrepareUncommitted ==
    /\ pc = "net"
    /\ work.cash > 0
    /\ work.net.status = "none"
    /\ Go("broadcast", [work EXCEPT !.net = [status |-> "prepared", nonce |-> PendingNonce, tx |-> NoTx]])
    /\ UNCHANGED <<todo, txs>>

\* The signed transaction is committed before it is sent, and with it all that
\* the session has done so far.
PrepareNet ==
    /\ pc = "net"
    /\ work.cash > 0
    /\ work.net.status = "none"
    /\ work' = [work EXCEPT !.net = [status |-> "prepared", nonce |-> PendingNonce, tx |-> NoTx]]
    /\ db' = work'
    /\ pc' = "broadcast"
    /\ UNCHANGED <<todo, txs, bybit>>

\* A pass that finds a prepared transaction sends it again.
ResumeNet ==
    /\ pc = "net"
    /\ work.cash > 0
    /\ work.net.status \in {"prepared", "processing"}
    /\ Go("broadcast", work)
    /\ UNCHANGED <<todo, txs>>

\* The number the prepared transaction has, or gets, on the chain.
NetTx ==
    IF \E n \in DOMAIN txs : txs[n].to = Net
    THEN CHOOSE n \in DOMAIN txs : txs[n].to = Net
    ELSE Len(txs) + 1

\* The node knows the transaction already, or takes it.
Delivered ==
    IF NetTx \in DOMAIN txs THEN UNCHANGED txs ELSE Accept(Net, work.net.nonce)

\* The outcome is committed at once, the batch status at the end of the pass.
BroadcastNet ==
    /\ pc = "broadcast"
    /\ \/ /\ Delivered
          /\ work' = Waiting([work EXCEPT !.net.status = "sent", !.net.tx = NetTx])
          /\ db' = [work EXCEPT !.net.status = "sent", !.net.tx = NetTx]
       \/ /\ Delivered \/ UNCHANGED txs
          /\ work' = Waiting(WithNet("processing"))
          /\ db' = WithNet("processing")
    /\ pc' = "commit"
    /\ UNCHANGED <<todo, bybit>>

-----------------------------------------------------------------------------
(* Bybit (external) and what the pass asks of it.                          *)

\* A deposit can be credited once the net transfer is on the chain.
Credit ==
    /\ NetTx \in Having("ok")
    /\ bybit.deposit \in {"none", "pending"}
    /\ \E d \in {"pending", "fund", "unified", "failed"} \ {bybit.deposit} :
          bybit' = [bybit EXCEPT !.deposit = d]
    /\ UNCHANGED <<db, work, pc, todo, txs>>

SettleTransfer ==
    /\ bybit.transfer = "pending"
    /\ \E t \in {"success", "failed"} : bybit' = [bybit EXCEPT !.transfer = t]
    /\ UNCHANGED <<db, work, pc, todo, txs>>

ConfirmDeposit ==
    /\ pc = "deposit"
    /\ \/ /\ work.deposited
          /\ Go("internal", work)
       \/ /\ ~work.deposited
          /\ bybit.deposit \in {"fund", "unified"}
          /\ Go("internal", [work EXCEPT !.deposited = TRUE, !.account = bybit.deposit])
       \/ /\ ~work.deposited
          /\ bybit.deposit \in {"none", "pending"}
          /\ End(Waiting(work))
       \/ /\ ~work.deposited
          /\ bybit.deposit = "failed"
          /\ End([work EXCEPT !.status = "failed_requires_review"])
    /\ UNCHANGED <<todo, txs>>

\* Slip: a transfer that is under way is as good as done.
ReadyWhenPending == {"success", "skipped", "pending"}

Ready == {"success", "skipped"}

\* What the pass does with the status t of the internal transfer.
Answered(t) ==
    LET w == [work EXCEPT !.posted = TRUE, !.internal = t]
    IN  CASE t = "success" -> pc' = "account" /\ work' = w
          [] t = "failed"  -> pc' = "commit" /\ work' = [w EXCEPT !.status = "failed_requires_review"]
          [] OTHER         -> pc' = "commit" /\ work' = Waiting(w)

SkipTransfer ==
    /\ pc = "internal"
    /\ work.account = "unified" \/ work.internal \in Ready
    /\ Go("account", [work EXCEPT !.internal = IF work.account = "unified" THEN "skipped" ELSE @])
    /\ UNCHANGED <<todo, txs>>

\* A transfer id on record: Bybit is asked, and not told again.
QueryTransfer ==
    /\ pc = "internal"
    /\ work.account = "fund" /\ work.internal \notin Ready
    /\ work.posted
    /\ \E t \in {"unknown", bybit.transfer} \ {"none"} : Answered(t)
    /\ UNCHANGED <<db, todo, txs, bybit>>

\* No transfer id on record: the transfer is posted under its computed id,
\* which Bybit executes once; the answer may be lost.
PostTransfer ==
    /\ pc = "internal"
    /\ work.account = "fund" /\ work.internal \notin Ready
    /\ ~work.posted
    /\ \E t \in {"pending", "success", "failed"} :
          /\ bybit.transfer \in {"none", t}
          /\ bybit' = [bybit EXCEPT !.transfer = t]
          /\ \/ Answered(t) /\ UNCHANGED <<db, todo>>
             \/ Answered("unknown") /\ UNCHANGED <<db, todo>>
             \/ Abandon
    /\ UNCHANGED txs

\* finalize_positive_net_accounting (Settlement has the details).
Account ==
    /\ pc = "account"
    /\ End([work EXCEPT !.done = TRUE, !.status = "completed"])
    /\ UNCHANGED <<todo, txs>>

\* The share plan is refused, before the first payout or at the accounting: the
\* pass returns, and the worker commits the failed batch.
RefuseShares ==
    /\ \/ /\ pc = "idle"
          /\ db.status \in Active
          /\ ~db.done
          /\ End([db EXCEPT !.status = "failed_requires_review"])
       \/ /\ pc = "account"
          /\ End([work EXCEPT !.status = "failed_requires_review"])
    /\ UNCHANGED <<todo, txs>>

-----------------------------------------------------------------------------
Payouts == PayoutsVisited \/ \E o \in Redeems : CheckPayout(o) \/ SendPayout(o)

NetTransfer == SkipNet \/ CheckNet \/ PrepareNet \/ ResumeNet \/ BroadcastNet

Deposit == ConfirmDeposit \/ SkipTransfer \/ QueryTransfer \/ PostTransfer

World == Mine \/ Credit \/ SettleTransfer

Next ==
    \/ Begin \/ Payouts \/ NetTransfer \/ Deposit \/ Account \/ RefuseShares
    \/ Commit \/ Rollback
    \/ World

Spec == Init /\ [][Next]_vars

-----------------------------------------------------------------------------
(* Properties.                                                             *)

Txs == 1 .. MaxSends

TxRows == [to : Payees, nonce : Nat, state : {"pooled", "ok", "reverted", "replaced"}]

Books ==
    [status : BatchStatuses, cash : {0, 1},
     rows : [Redeems -> [status : {"none", "sent", "pending_confirmation", "confirmed"},
                         tx : Txs \cup {NoTx}]],
     paidOut : BOOLEAN,
     net : [status : {"none", "prepared", "processing", "sent", "pending_confirmation", "confirmed"},
            nonce : Nat, tx : Txs \cup {NoTx}],
     deposited : BOOLEAN, account : {"none", "fund", "unified"},
     posted : BOOLEAN, internal : {"none", "pending", "unknown", "failed"} \cup Ready,
     done : BOOLEAN]

\* Types; and a transfer row on record carries the hash of a transaction to
\* its own payee.
TypeOK ==
    /\ db \in Books /\ work \in Books
    /\ pc \in Stages
    /\ todo \subseteq Redeems
    /\ Len(txs) <= MaxSends /\ \A n \in DOMAIN txs : txs[n] \in TxRows
    /\ bybit \in [deposit : {"none", "pending", "fund", "unified", "failed"},
                  transfer : {"none", "pending", "success", "failed"}]
    /\ \A o \in Redeems :
          db.rows[o].tx # NoTx => db.rows[o].tx \in DOMAIN txs /\ txs[db.rows[o].tx].to = o
    /\ db.net.tx # NoTx => db.net.tx \in DOMAIN txs /\ txs[db.net.tx].to = Net

\* The transactions of the settlement wallet that paid p.
Paying(p) == {n \in Having("ok") : txs[n].to = p}

\* The net amount leaves the settlement wallet only when every seller has been
\* paid out of it (process_positive_net_batch).
NetAfterSellers ==
    (\E n \in DOMAIN txs : txs[n].to = Net) => \A o \in Redeems : Paying(o) # {}

\* "Caller must call this only after" (finalize_positive_net_accounting): the
\* orders are settled only when all sellers are paid and the net amount has
\* reached the account the fund trades from.
SettledIsFunded ==
    db.done =>
        /\ \A o \in Redeems : Paying(o) # {}
        /\ db.cash > 0 => /\ Cardinality(Paying(Net)) = 1
                          /\ bybit.deposit = "unified" \/ bybit.transfer = "success"

\* A batch waits for the chain or for Bybit only after its payout stage, which
\* refuses a batch in that status (process_seller_payouts_for_batch): such a
\* batch could never go on.
WaitingIsPaidOut == db.status = "pending_confirmation" => db.paidOut

\* The transactions to a seller, or of the net transfer.
Sent(o) == {n \in DOMAIN txs : txs[n].to = o}

\* The net transfer keeps the promise of the durable intents.
Intent == INSTANCE TransferIntent
    WITH Payments <- {Net},
         signed   <- [p \in {Net} |-> IF db.net.status = "none" THEN 0 ELSE 1],
         received <- IF Sent(Net) = {} THEN {} ELSE {Net},
         result   <- [p \in {Net} |-> IF Sent(Net) = {} \/ NetTx \in Having("pooled") THEN "none"
                                      ELSE txs[NetTx].state],
         credited <- IF db.net.status = "confirmed" THEN {Net} ELSE {}

NetKeepsIntent == Intent!Spec

\* A seller is paid once: fund_settlement_transfers has one payout per order
\* (fund_settlement_transfers_order_type_uq).
PaidOnce == \A o \in Redeems : Cardinality(Paying(o)) <= 1
=============================================================================
