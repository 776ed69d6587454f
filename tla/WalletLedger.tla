----------------------------- MODULE WalletLedger -----------------------------
(***************************************************************************)
(* One user's BSC wallet: the user_wallets row and the workers that write  *)
(* it while withdrawals and deposits go on.                                *)
(*                                                                         *)
(*   withdraw_confirm     app/dashboard/routes.py: reserves the amount     *)
(*   withdrawal processor workers/bsc_withdrawal_processor.py: gas top-up, *)
(*                        payout, fee, then success and a fresh balance    *)
(*   confirmations        workers/bsc_confirmations.py: a deposit counts   *)
(*   balance updater      workers/bsc_usdt_balance_updater.py: copies the  *)
(*                        balance of the chain after a counted deposit     *)
(*                                                                         *)
(* process_one holds the row locks of transfer and wallet from its first   *)
(* query to its commit, so a visit is one step; but it sends transactions  *)
(* in the middle, and what was sent stays sent when the answer is lost or  *)
(* the process ends (an unrecorded send).  withdraw_confirm and the        *)
(* balance updater take no lock: they read, and write later.               *)
(*                                                                         *)
(* Times are compared only with each other: due says that a deposit was    *)
(* confirmed after usdt_balance_updated_at.                                *)
(*                                                                         *)
(* Bounds: MaxLost sends unrecorded or ends of the process; only the       *)
(* withdrawals of Short have trouble with gas.                             *)
(***************************************************************************)
EXTENDS Naturals, Sequences, FiniteSets

CONSTANTS
  Withdrawals, Deposits,   \* the withdrawals and the deposits of a behaviour
  Start,                   \* the balance to begin with
  Gross, Fee, Amount,      \* of a withdrawal, of its fee, of a deposit
  Short,                   \* withdrawals that may lack BNB, or find gas too dear
  Blocked,                 \* compliance_status of the withdrawals is not ok
  MaxLost

ASSUME LedgerConstants ==
  /\ IsFiniteSet(Withdrawals) /\ Start \in Nat /\ Amount \in Nat
  /\ Gross \in Nat /\ Fee \in Nat /\ Fee < Gross
  /\ Short \subseteq Withdrawals /\ Blocked \in BOOLEAN /\ MaxLost \in Nat

VARIABLES
  wallet,     \* usdt_balance, usdt_reserved, is_active
  row,        \* wallet_transfers of type withdraw
  deposit,    \* wallet_transfers of type deposit
  due,        \* a deposit was confirmed after usdt_balance_updated_at
  confirming, \* withdraw_confirm between its read of the wallet and its commit
  updating,   \* the balance updater between the chain's answer and its commit
  rotating,   \* whether the processor is between its two commits for a withdrawal
  onchain,    \* USDT of the wallet on the chain
  sent,       \* transactions of the wallet the nodes accepted, by nonce
  lost,       \* sends unrecorded and ends of the process so far
  missed      \* history: a change of the chain's balance escaped the row

workers == <<confirming, updating, rotating>>
chain == <<onchain, sent>>
vars == <<wallet, row, deposit, due, workers, chain, lost, missed>>

None == "none"
Open == {"processing", "waiting_for_gas"}
Net == Gross - Fee

Init ==
  /\ wallet = [balance |-> Start, reserved |-> 0, active |-> TRUE]
  /\ row = [w \in Withdrawals |->
              [status |-> None, gas |-> None, payout |-> 0, fee |-> 0]]
  /\ deposit = [d \in Deposits |-> None]
  /\ due = FALSE /\ confirming = {} /\ updating = {} /\ rotating = FALSE
  /\ onchain = Start /\ sent = <<>> /\ lost = 0 /\ missed = FALSE

(***************************************************************************)
(* The chain (external)                                                    *)
(***************************************************************************)
Pool == {n \in DOMAIN sent : sent[n].state = "pool"}

\* The transaction with the lowest nonce is mined.  It reverts if the wallet cannot
\* pay it, and may revert for want of gas.
Mine ==
  /\ \E n \in Pool :
       /\ \A m \in Pool : n <= m
       /\ \/ /\ sent[n].amount <= onchain
             /\ sent' = [sent EXCEPT ![n].state = "ok"]
             /\ onchain' = onchain - sent[n].amount
          \/ sent' = [sent EXCEPT ![n].state = "reverted"] /\ UNCHANGED onchain
  /\ UNCHANGED <<wallet, row, deposit, due, workers, lost, missed>>

\* A gas top-up is mined; it comes from the fee wallet.
MineGas(w) ==
  /\ row[w].gas = "pool"
  /\ \E verdict \in {"ok", "reverted"} : row' = [row EXCEPT ![w].gas = verdict]
  /\ UNCHANGED <<wallet, deposit, due, workers, chain, lost, missed>>

\* Somebody sends USDT to the wallet.
Receive(d) ==
  /\ deposit[d] = None
  /\ deposit' = [deposit EXCEPT ![d] = "mined"]
  /\ onchain' = onchain + Amount
  /\ UNCHANGED <<wallet, row, due, workers, sent, lost, missed>>

(***************************************************************************)
(* Deposits                                                                *)
(***************************************************************************)

\* db_insert_transfer of the deposit listener.
InsertTransfer(d) ==
  /\ deposit[d] = "mined"
  /\ deposit' = [deposit EXCEPT ![d] = "pending"]
  /\ UNCHANGED <<wallet, row, due, workers, chain, lost, missed>>

\* _mark_success: enough blocks have passed, and confirmed_at is now.
MarkSuccess(d) ==
  /\ deposit[d] = "pending"
  /\ deposit' = [deposit EXCEPT ![d] = "success"]
  /\ due' = TRUE
  /\ UNCHANGED <<wallet, row, workers, chain, lost, missed>>

\* The updater selects the wallet and asks the chain.
BalanceOf ==
  /\ updating = {}
  /\ due
  /\ updating' = {onchain}
  /\ UNCHANGED <<wallet, row, deposit, due, confirming, rotating, chain, lost, missed>>

\* _update_wallet_balance: no lock, no look at the row, and a time stamp of now.
UpdateWalletBalance ==
  /\ \E balance \in updating :
       /\ wallet' = [wallet EXCEPT !.balance = balance]
       /\ missed' = (missed \/ balance # onchain)
  /\ due' = FALSE
  /\ updating' = {}
  /\ UNCHANGED <<row, deposit, confirming, rotating, chain, lost>>

(***************************************************************************)
(* withdraw_confirm                                                        *)
(***************************************************************************)

\* The wallet is read; its session was begun over an amount that was free then.
ConfirmReads(w) ==
  /\ confirming = {}
  /\ row[w].status = None
  /\ confirming' = {[transfer |-> w, reserved |-> wallet.reserved]}
  /\ UNCHANGED <<wallet, row, deposit, due, updating, rotating, chain, lost, missed>>

\* The transfer and the sum are committed.
ConfirmCommits ==
  /\ \E c \in confirming :
       /\ row' = [row EXCEPT ![c.transfer].status = "processing"]
       /\ wallet' = [wallet EXCEPT !.reserved = c.reserved + Gross]
  /\ confirming' = {}
  /\ UNCHANGED <<deposit, due, updating, rotating, chain, lost, missed>>

(***************************************************************************)
(* The withdrawal processor                                                *)
(***************************************************************************)

\* History: a payout for the transfer has left or will.
HasPaid(w) == \E n \in DOMAIN sent :
  sent[n].transfer = w /\ sent[n].kind = "payout" /\ sent[n].state # "reverted"

\* Slip: load_processing_ids leaves out what waits for gas.
VisitsProcessing(w) == ~rotating /\ row[w].status = "processing"

\* process_one takes the transfer up, whatever it was waiting for.
Visits(w) == ~rotating /\ row[w].status \in Open
Processing(w) == [row[w] EXCEPT !.status = "processing"]

\* A visit that changes the row of the transfer and nothing else.
Saves(w, new) ==
  /\ row' = [row EXCEPT ![w] = new]
  /\ UNCHANGED <<wallet, deposit, due, workers, onchain, missed>>

\* db_release_reserve.
Released(reserved) == IF Gross < reserved THEN reserved - Gross ELSE 0

\* db_mark_failed and db_release_reserve.
Fails(w) ==
  /\ row' = [row EXCEPT ![w].status = "failed"]
  /\ wallet' = [wallet EXCEPT !.reserved = Released(@)]
  /\ missed' = (missed \/ HasPaid(w))
  /\ UNCHANGED <<deposit, due, workers, chain, lost>>

\* Step 1: the need of gas is computed on every visit, and may exceed the limit (or no
\* fee wallet is configured).
GasNeedExceedsMax(w) == Visits(w) /\ w \in Short /\ Fails(w)

GasTopupFailed(w) == Visits(w) /\ row[w].gas = "reverted" /\ Fails(w)

\* Slip: a waiting transfer gives its reserve back.
MarkWaitingReleases(w) ==
  /\ w \in Short
  /\ row' = [row EXCEPT ![w].status = "waiting_for_gas"]
  /\ wallet' = [wallet EXCEPT !.reserved = Released(@)]
  /\ UNCHANGED <<deposit, due, workers, chain, lost, missed>>

\* mark_waiting_for_gas: the fee wallet or the user's wallet has too little BNB.
MarkWaiting(w) ==
  /\ w \in Short
  /\ Saves(w, [row[w] EXCEPT !.status = "waiting_for_gas"])
  /\ UNCHANGED <<sent, lost>>

\* The node refuses, and the error is saved.
Refused(w) == Saves(w, Processing(w)) /\ UNCHANGED <<sent, lost>>

\* The top-up is sent and recorded, or refused; one whose hash is lost is as if it had
\* not been needed, or is sent again.
GasTopup(w) ==
  /\ Visits(w) /\ w \in Short /\ row[w].gas = None
  /\ \/ Saves(w, [Processing(w) EXCEPT !.gas = "pool"]) /\ UNCHANGED <<sent, lost>>
     \/ MarkWaiting(w)
     \/ Refused(w)

\* The visit goes on: a top-up has arrived, or there is BNB without one.
HasGas(w) == row[w].gas \in {None, "ok"}

\* sign_and_send_raw with the pending nonce; its hash is committed.
Sends(w, kind, amount) ==
  /\ sent' = Append(sent, [transfer |-> w, kind |-> kind, amount |-> amount,
                           state |-> "pool"])
  /\ Saves(w, [Processing(w) EXCEPT ![kind] = Len(sent) + 1])
  /\ UNCHANGED lost

\* The node accepts, but the answer is lost (then the error is saved), or the process
\* ends before its commit.
SendsUnrecorded(w, kind, amount) ==
  /\ lost < MaxLost
  /\ lost' = lost + 1
  /\ sent' = Append(sent, [transfer |-> w, kind |-> kind, amount |-> amount,
                           state |-> "pool"])
  /\ Saves(w, Processing(w)) \/ Saves(w, row[w])

SendStep(w, kind, amount) ==
  \/ Sends(w, kind, amount)
  \/ SendsUnrecorded(w, kind, amount)
  \/ Refused(w)
  \/ MarkWaiting(w)

\* tx_receipt_status of a recorded transaction.
Receipt(n) == IF n = 0 THEN None ELSE sent[n].state

\* Its transaction was mined and did not revert.
Succeeded(n) == Receipt(n) = "ok"

\* Step 2.
Payout(w) ==
  /\ Visits(w) /\ HasGas(w)
  /\ row[w].payout = 0
  /\ SendStep(w, "payout", Net)

PayoutTxFailed(w) ==
  Visits(w) /\ HasGas(w) /\ Receipt(row[w].payout) = "reverted" /\ Fails(w)

\* Step 3.
PaysFee(w) ==
  /\ Visits(w) /\ HasGas(w)
  /\ Succeeded(row[w].payout) /\ row[w].fee = 0
  /\ SendStep(w, "fee", Fee)

FeeTxFailed(w) ==
  /\ Visits(w) /\ HasGas(w) /\ Succeeded(row[w].payout)
  /\ Receipt(row[w].fee) = "reverted"
  /\ Fails(w)

\* A receipt that is not there yet ends the visit.
Pending(w) ==
  /\ Visits(w)
  /\ \/ row[w].gas = "pool"
     \/ HasGas(w) /\ "pool" \in {Receipt(row[w].payout), Receipt(row[w].fee)}
  /\ Refused(w)

\* Slip: the time stamp is set though the balance was not read.
FinalizeStampsAnyway(w) ==
  /\ Visits(w) /\ HasGas(w) /\ Succeeded(row[w].payout) /\ Succeeded(row[w].fee)
  /\ row' = [row EXCEPT ![w].status = "success"]
  /\ wallet' = [wallet EXCEPT !.reserved = Released(@)]
  /\ due' = FALSE
  /\ rotating' = Blocked
  /\ UNCHANGED <<deposit, confirming, updating, chain, lost, missed>>

\* Step 4; the balance is read too, unless the node does not answer.
Finalize(w) ==
  /\ Visits(w) /\ HasGas(w) /\ Succeeded(row[w].payout) /\ Succeeded(row[w].fee)
  /\ row' = [row EXCEPT ![w].status = "success"]
  /\ \/ /\ wallet' = [wallet EXCEPT !.reserved = Released(@), !.balance = onchain]
        /\ due' = FALSE
        /\ UNCHANGED missed
     \/ /\ wallet' = [wallet EXCEPT !.reserved = Released(@)]
        /\ missed' = TRUE
        /\ UNCHANGED due
  /\ rotating' = Blocked
  /\ UNCHANGED <<deposit, confirming, updating, chain, lost>>

\* Step 5: a wallet that held tainted money and is empty is replaced by a new one.
RotateBlockedWalletIfEmpty ==
  /\ rotating
  /\ wallet' = [wallet EXCEPT !.active = @ /\ onchain # 0]
  /\ rotating' = FALSE
  /\ UNCHANGED <<row, deposit, due, confirming, updating, chain, lost, missed>>

\* The process ends between its two commits, or the node does not answer.
StopBeforeRotation ==
  /\ rotating
  /\ lost < MaxLost
  /\ lost' = lost + 1
  /\ rotating' = FALSE
  /\ UNCHANGED <<wallet, row, deposit, due, confirming, updating, chain, missed>>

\* A visit that gets somewhere: something is sent and recorded, or decided.
Advances(w) ==
  \/ GasTopup(w) /\ row'[w].gas = "pool"
  \/ GasTopupFailed(w) \/ PayoutTxFailed(w) \/ FeeTxFailed(w)
  \/ Visits(w) /\ HasGas(w) /\ row[w].payout = 0 /\ Sends(w, "payout", Net)
  \/ /\ Visits(w) /\ HasGas(w) /\ Succeeded(row[w].payout) /\ row[w].fee = 0
     /\ Sends(w, "fee", Fee)
  \/ Finalize(w)

ProcessOne(w) ==
  \/ GasNeedExceedsMax(w) \/ GasTopup(w) \/ GasTopupFailed(w)
  \/ Payout(w) \/ PayoutTxFailed(w) \/ PaysFee(w) \/ FeeTxFailed(w)
  \/ Pending(w) \/ Finalize(w)

(***************************************************************************)
(* The specification                                                       *)
(***************************************************************************)
Next ==
  \/ Mine \/ \E w \in Withdrawals : MineGas(w)
  \/ \E d \in Deposits : Receive(d) \/ InsertTransfer(d) \/ MarkSuccess(d)
  \/ BalanceOf \/ UpdateWalletBalance
  \/ \E w \in Withdrawals : ConfirmReads(w) \/ ProcessOne(w)
  \/ ConfirmCommits
  \/ RotateBlockedWalletIfEmpty \/ StopBeforeRotation

\* A step of the chain, of the deposit workers, or of a request or visit under way.
Moves ==
  \/ Mine \/ \E w \in Withdrawals : MineGas(w) \/ Advances(w)
  \/ \E d \in Deposits : InsertTransfer(d) \/ MarkSuccess(d)
  \/ BalanceOf \/ UpdateWalletBalance \/ ConfirmCommits \/ RotateBlockedWalletIfEmpty

\* The workers are endless loops that catch every exception and are started again;
\* what the nodes have taken is mined, a deposit that is mined is seen, and somebody
\* keeps the fee wallet filled: while any of these can move, one of them does in the
\* end (each moves finitely often).  Users and senders owe nothing.
Fairness == WF_vars(Moves)

Spec == Init /\ [][Next]_vars /\ Fairness

(***************************************************************************)
(* Properties                                                              *)
(***************************************************************************)
Statuses == Open \cup {None, "success", "failed"}
Row == [status : Statuses, gas : {None, "pool", "ok", "reverted"}, payout : Nat, fee : Nat]
Transaction == [transfer : Withdrawals, kind : {"payout", "fee"}, amount : Nat,
                state : {"pool", "ok", "reverted"}]

\* The variables stay within their types; neither the reserve nor the chain's balance
\* goes below zero.
TypeOK ==
  /\ wallet \in [balance : Nat, reserved : Nat, active : BOOLEAN]
  /\ row \in [Withdrawals -> Row]
  /\ deposit \in [Deposits -> {None, "mined", "pending", "success"}]
  /\ confirming \subseteq [transfer : Withdrawals, reserved : Nat]
  /\ updating \subseteq Nat /\ onchain \in Nat /\ sent \in Seq(Transaction)
  /\ due \in BOOLEAN /\ rotating \in BOOLEAN /\ missed \in BOOLEAN /\ lost \in 0..MaxLost

OpenCount == Cardinality({w \in Withdrawals : row[w].status \in Open})

\* The user is told of a success only after the chain has paid both him and the fee,
\* through visits cut off anywhere and receipts that come late.
SuccessIsPaid ==
  \A w \in Withdrawals : row[w].status = "success" =>
    Receipt(row[w].payout) = "ok" /\ Receipt(row[w].fee) = "ok"

\* No fee is taken of a withdrawal whose recorded payout has not succeeded, however
\* often either was sent.
FeeAfterPayout ==
  \A n \in DOMAIN sent : sent[n].kind = "fee" =>
    Receipt(row[sent[n].transfer].payout) = "ok"

\* What open withdrawals will take is reserved, so that no order spends it, although
\* withdraw_confirm writes a sum of a reserve it read before the processor released
\* another: that may leave too much reserved, never too little, nor more than all of them.
OpenIsReserved ==
  wallet.reserved \in (Gross * OpenCount)..(Gross * Cardinality(Withdrawals))

\* A withdrawal does not stay in process for ever: what waits for gas is tried again,
\* what was refused is sent again, what reverted is given up.
WithdrawalEnds ==
  \A w \in Withdrawals : row[w].status \in Open ~> row[w].status \notin Open

\* The balance users spend from comes to rest at what the chain says, unless a change
\* has escaped it for good: a balance written late or not read at a success, or a
\* withdrawal failed after it was paid.
BalanceSettles == <>[](missed \/ wallet.balance = onchain)
=============================================================================
