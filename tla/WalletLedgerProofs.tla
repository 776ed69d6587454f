-------------------------- MODULE WalletLedgerProofs --------------------------
(***************************************************************************)
(* Proofs about WalletLedger, for any withdrawals, deposits, amounts and   *)
(* bounds: its types, that neither a success nor a fee comes before the    *)
(* payout has succeeded, and that what is open stays reserved.             *)
(*                                                                         *)
(* A receipt is looked up under the hash a row has on record, so the       *)
(* invariant adds that a recorded transaction exists (Recorded).  What is  *)
(* mined stays as it is (ChainKept), and a visit either fails, finishes,   *)
(* or leaves the transfer open and has sent at most one transaction, a fee *)
(* only after a successful payout, a payout only if none is on record      *)
(* (VisitSaves).                                                           *)
(*                                                                         *)
(* The reserve lies between what is open and what was ever begun, and so   *)
(* does every sum a confirmation has read (ReserveInv): a withdrawal that  *)
(* ends meanwhile lowers the first of them, and none can be begun.         *)
(***************************************************************************)
EXTENDS WalletLedger, FiniteSetTheorems, SequenceTheorems, TLAPS

Recorded ==
  \A w \in Withdrawals : row[w].payout <= Len(sent) /\ row[w].fee <= Len(sent)

Inv == TypeOK /\ Recorded /\ SuccessIsPaid /\ FeeAfterPayout

(***************************************************************************)
(* What a visit may do                                                     *)
(***************************************************************************)
SendsOne(w, new) ==
  \E tx \in Transaction :
    /\ sent' = Append(sent, tx) /\ tx.transfer = w
    /\ \/ /\ tx.kind = "payout" /\ row[w].payout = 0
          /\ new.payout \in {0, Len(sent) + 1} /\ new.fee = row[w].fee
       \/ /\ tx.kind = "fee" /\ Succeeded(row[w].payout) /\ row[w].fee = 0
          /\ new.fee \in {0, Len(sent) + 1} /\ new.payout = row[w].payout

VisitSaves(w) ==
  \E new \in Row :
    /\ Visits(w) /\ Saves(w, new) /\ new.status \in Open /\ lost' \in 0..MaxLost
    /\ \/ sent' = sent /\ new.payout = row[w].payout /\ new.fee = row[w].fee
       \/ SendsOne(w, new)

\* The amounts of the two transactions of a withdrawal are naturals.
LEMMA Amounts == Net \in Nat /\ Fee \in Nat /\ Gross \in Nat /\ MaxLost \in Nat
BY LedgerConstants DEF Net

\* A release leaves a natural number.
LEMMA ReleaseIsNat == \A n \in Nat : Released(n) \in Nat
BY Amounts DEF Released

\* A visit that is on its way keeps the row well-formed and the transfer open
\* (process_one between its early returns).
LEMMA RowsOfAVisit ==
  ASSUME TypeOK, NEW w \in Withdrawals, Visits(w)
  PROVE  /\ row[w] \in Row /\ row[w].status \in Open
         /\ Processing(w) \in Row /\ Processing(w).status \in Open
         /\ Processing(w).payout = row[w].payout /\ Processing(w).fee = row[w].fee
         /\ LET waits == [row[w] EXCEPT !.status = "waiting_for_gas"]
            IN  /\ waits \in Row /\ waits.status \in Open
                /\ waits.payout = row[w].payout /\ waits.fee = row[w].fee
<1>1. row[w] \in Row
  BY DEF TypeOK
<1> QED
  BY <1>1 DEF Visits, Processing, Row, Statuses, Open

\* Recording the hash of a transaction changes one field of a row.
LEMMA RecordedRow ==
  ASSUME NEW r \in Row, NEW n \in Nat
  PROVE  /\ [r EXCEPT !["payout"] = n] \in Row
         /\ [r EXCEPT !["payout"] = n].payout = n
         /\ [r EXCEPT !["payout"] = n].fee = r.fee
         /\ [r EXCEPT !["payout"] = n].status = r.status
         /\ [r EXCEPT !["fee"] = n] \in Row
         /\ [r EXCEPT !["fee"] = n].fee = n
         /\ [r EXCEPT !["fee"] = n].payout = r.payout
         /\ [r EXCEPT !["fee"] = n].status = r.status
<1>1. [r EXCEPT !["payout"] = n] = [r EXCEPT !.payout = n]
  OBVIOUS
<1>2. [r EXCEPT !["fee"] = n] = [r EXCEPT !.fee = n]
  OBVIOUS
<1>3. [r EXCEPT !.payout = n] \in Row /\ [r EXCEPT !.payout = n].payout = n
      /\ [r EXCEPT !.payout = n].fee = r.fee /\ [r EXCEPT !.payout = n].status = r.status
  BY DEF Row
<1>4. [r EXCEPT !.fee = n] \in Row /\ [r EXCEPT !.fee = n].fee = n
      /\ [r EXCEPT !.fee = n].payout = r.payout /\ [r EXCEPT !.fee = n].status = r.status
  BY DEF Row
<1> QED
  BY <1>1, <1>2, <1>3, <1>4

\* A send, recorded or not, is one transaction of this transfer (sign_and_send_raw in
\* step 2 of process_one).
LEMMA PayoutSaves ==
  ASSUME TypeOK, NEW w \in Withdrawals, Payout(w)
  PROVE  VisitSaves(w)
<1> DEFINE tx == [transfer |-> w, kind |-> "payout", amount |-> Net, state |-> "pool"]
           old == Processing(w)
           hash == Len(sent) + 1
           new == [old EXCEPT !["payout"] = hash]
<1>1. Visits(w) /\ row[w].payout = 0 /\ SendStep(w, "payout", Net)
  BY DEF Payout
<1>2. tx \in Transaction /\ lost \in 0..MaxLost /\ Len(sent) \in Nat
  BY Amounts DEF Transaction, TypeOK
<1>3. new \in Row /\ new.status \in Open /\ new.payout = Len(sent) + 1
      /\ new.fee = row[w].fee
  <2>1. old \in Row /\ old.status \in Open
        /\ old.payout = row[w].payout /\ old.fee = row[w].fee
    BY <1>1, RowsOfAVisit
  <2>2. hash = Len(sent) + 1 /\ hash \in Nat
    BY <1>2
  <2> HIDE DEF old, hash
  <2> QED
    BY <2>1, <2>2, RecordedRow
<1>4. CASE Sends(w, "payout", Net)
  <2>1. sent' = Append(sent, tx) /\ Saves(w, new) /\ lost' = lost
    BY <1>4 DEF Sends
  <2> HIDE DEF tx, new
  <2>2. SendsOne(w, new)
    BY <1>1, <1>2, <1>3, <2>1 DEF SendsOne, tx
  <2> QED
    BY <1>1, <1>2, <1>3, <2>1, <2>2 DEF VisitSaves
<1>5. CASE SendsUnrecorded(w, "payout", Net)
  <2>1. sent' = Append(sent, tx) /\ lost' = lost + 1 /\ lost < MaxLost
    BY <1>5 DEF SendsUnrecorded
  <2>2. PICK same \in {Processing(w), row[w]} : Saves(w, same)
    BY <1>5 DEF SendsUnrecorded
  <2>3. same \in Row /\ same.status \in Open /\ same.payout = 0 /\ same.fee = row[w].fee
    BY <1>1, <2>2, RowsOfAVisit
  <2> HIDE DEF tx, new
  <2>4. SendsOne(w, same)
    BY <1>1, <1>2, <2>1, <2>3 DEF SendsOne, tx
  <2> QED
    BY <1>1, <1>2, <2>1, <2>2, <2>3, <2>4, Amounts DEF VisitSaves
<1>6. CASE Refused(w) \/ MarkWaiting(w)
  BY <1>1, <1>2, <1>6, RowsOfAVisit DEF VisitSaves, Refused, MarkWaiting
<1> QED
  BY <1>1, <1>4, <1>5, <1>6 DEF SendStep

\* The same of step 3.
LEMMA FeeSaves ==
  ASSUME TypeOK, NEW w \in Withdrawals, PaysFee(w)
  PROVE  VisitSaves(w)
<1> DEFINE tx == [transfer |-> w, kind |-> "fee", amount |-> Fee, state |-> "pool"]
           old == Processing(w)
           hash == Len(sent) + 1
           new == [old EXCEPT !["fee"] = hash]
<1>1. Visits(w) /\ row[w].fee = 0 /\ Succeeded(row[w].payout) /\ SendStep(w, "fee", Fee)
  BY DEF PaysFee
<1>2. tx \in Transaction /\ lost \in 0..MaxLost /\ Len(sent) \in Nat
  BY Amounts DEF Transaction, TypeOK
<1>3. new \in Row /\ new.status \in Open /\ new.fee = Len(sent) + 1
      /\ new.payout = row[w].payout
  <2>1. old \in Row /\ old.status \in Open
        /\ old.payout = row[w].payout /\ old.fee = row[w].fee
    BY <1>1, RowsOfAVisit
  <2>2. hash = Len(sent) + 1 /\ hash \in Nat
    BY <1>2
  <2> HIDE DEF old, hash
  <2> QED
    BY <2>1, <2>2, RecordedRow
<1>4. CASE Sends(w, "fee", Fee)
  <2>1. sent' = Append(sent, tx) /\ Saves(w, new) /\ lost' = lost
    BY <1>4 DEF Sends
  <2> HIDE DEF tx, new
  <2>2. SendsOne(w, new)
    BY <1>1, <1>2, <1>3, <2>1 DEF SendsOne, tx
  <2> QED
    BY <1>1, <1>2, <1>3, <2>1, <2>2 DEF VisitSaves
<1>5. CASE SendsUnrecorded(w, "fee", Fee)
  <2>1. sent' = Append(sent, tx) /\ lost' = lost + 1 /\ lost < MaxLost
    BY <1>5 DEF SendsUnrecorded
  <2>2. PICK same \in {Processing(w), row[w]} : Saves(w, same)
    BY <1>5 DEF SendsUnrecorded
  <2>3. same \in Row /\ same.status \in Open /\ same.fee = 0 /\ same.payout = row[w].payout
    BY <1>1, <2>2, RowsOfAVisit
  <2> HIDE DEF tx, new
  <2>4. SendsOne(w, same)
    BY <1>1, <1>2, <2>1, <2>3 DEF SendsOne, tx
  <2> QED
    BY <1>1, <1>2, <2>1, <2>2, <2>3, <2>4, Amounts DEF VisitSaves
<1>6. CASE Refused(w) \/ MarkWaiting(w)
  BY <1>1, <1>2, <1>6, RowsOfAVisit DEF VisitSaves, Refused, MarkWaiting
<1> QED
  BY <1>1, <1>4, <1>5, <1>6 DEF SendStep

\* Every visit fails the transfer, finishes it, or saves it open.
LEMMA VisitStep ==
  ASSUME TypeOK, NEW w \in Withdrawals, ProcessOne(w)
  PROVE  \/ Visits(w) /\ Fails(w)
         \/ Finalize(w)
         \/ VisitSaves(w)
<1>1. lost \in 0..MaxLost
  BY DEF TypeOK
<1>2. CASE GasTopup(w)
  <2> DEFINE asks == [Processing(w) EXCEPT !.gas = "pool"]
  <2>1. Visits(w) /\ UNCHANGED <<sent, lost>>
    BY <1>2 DEF GasTopup, MarkWaiting, Refused
  <2>2. asks \in Row /\ asks.status \in Open /\ asks.payout = row[w].payout
        /\ asks.fee = row[w].fee
    BY <2>1, RowsOfAVisit DEF Row
  <2>3. CASE Saves(w, asks)
    <3> HIDE DEF asks
    <3> QED
      BY <1>1, <2>1, <2>2, <2>3 DEF VisitSaves
  <2>4. CASE MarkWaiting(w) \/ Refused(w)
    BY <1>1, <2>1, <2>4, RowsOfAVisit DEF VisitSaves, MarkWaiting, Refused
  <2> QED
    BY <1>2, <2>3, <2>4 DEF GasTopup
<1>3. CASE Pending(w)
  BY <1>1, <1>3, RowsOfAVisit DEF VisitSaves, Pending, Refused
<1> QED
  BY <1>2, <1>3, PayoutSaves, FeeSaves
  DEF ProcessOne, GasNeedExceedsMax, GasTopupFailed, PayoutTxFailed, FeeTxFailed

(***************************************************************************)
(* Types                                                                   *)
(***************************************************************************)

\* The initial state is well-typed.
LEMMA TypeInit == Init => TypeOK
<1> SUFFICES ASSUME Init
             PROVE  TypeOK
  OBVIOUS
<1>1. wallet \in [balance : Nat, reserved : Nat, active : BOOLEAN]
  BY LedgerConstants DEF Init
<1>2. row \in [Withdrawals -> Row]
  BY DEF Init, Row, Statuses
<1>3. deposit \in [Deposits -> {None, "mined", "pending", "success"}]
  BY DEF Init
<1>4. sent \in Seq(Transaction) /\ onchain \in Nat /\ lost \in 0..MaxLost
  BY LedgerConstants DEF Init
<1> QED
  BY <1>1, <1>2, <1>3, <1>4 DEF Init, TypeOK

\* The chain's steps keep the types.
LEMMA TypeMine ==
  ASSUME TypeOK, Mine
  PROVE  TypeOK'
<1>1. PICK n \in Pool :
        \/ /\ sent[n].amount <= onchain
           /\ sent' = [sent EXCEPT ![n].state = "ok"]
           /\ onchain' = onchain - sent[n].amount
        \/ sent' = [sent EXCEPT ![n].state = "reverted"] /\ UNCHANGED onchain
  BY DEF Mine
<1>2. n \in DOMAIN sent /\ sent[n] \in Transaction /\ onchain \in Nat
  BY DEF Pool, TypeOK
<1>3. onchain' \in Nat
  BY <1>1, <1>2 DEF Transaction
<1>4. sent' \in Seq(Transaction)
  <2>1. \A s \in {"ok", "reverted"} : [sent[n] EXCEPT !.state = s] \in Transaction
    BY <1>2 DEF Transaction
  <2>2. \A tx \in Transaction : [sent EXCEPT ![n] = tx] \in Seq(Transaction)
    BY <1>2, ExceptSeq DEF TypeOK
  <2> QED
    BY <1>1, <2>1, <2>2
<1> QED
  BY <1>3, <1>4 DEF Mine, TypeOK, workers

\* A visit keeps the types.
LEMMA TypeVisit ==
  ASSUME TypeOK, NEW w \in Withdrawals, ProcessOne(w)
  PROVE  TypeOK'
<1>1. row[w] \in Row /\ wallet \in [balance : Nat, reserved : Nat, active : BOOLEAN]
      /\ wallet.reserved \in Nat /\ Released(wallet.reserved) \in Nat
  BY ReleaseIsNat DEF TypeOK
<1>2. CASE Visits(w) /\ Fails(w)
  <2>1. row' \in [Withdrawals -> Row]
    BY <1>1, <1>2 DEF Fails, TypeOK, Row, Statuses
  <2>2. wallet' \in [balance : Nat, reserved : Nat, active : BOOLEAN]
    BY <1>1, <1>2 DEF Fails
  <2> QED
    BY <1>2, <2>1, <2>2 DEF Fails, TypeOK, workers, chain
<1>3. CASE Finalize(w)
  <2>1. row' \in [Withdrawals -> Row]
    BY <1>1, <1>3 DEF Finalize, TypeOK, Row, Statuses
  <2>2. wallet' \in [balance : Nat, reserved : Nat, active : BOOLEAN]
    BY <1>1, <1>3 DEF Finalize, TypeOK
  <2>3. rotating' \in BOOLEAN /\ due' \in BOOLEAN /\ missed' \in BOOLEAN
    BY <1>3, LedgerConstants DEF Finalize, TypeOK
  <2> QED
    BY <1>3, <2>1, <2>2, <2>3 DEF Finalize, TypeOK, chain
<1>4. CASE VisitSaves(w)
  <2>1. PICK new \in Row : Saves(w, new) /\ lost' \in 0..MaxLost
                           /\ (sent' = sent \/ SendsOne(w, new))
    BY <1>4 DEF VisitSaves
  <2>2. row' \in [Withdrawals -> Row]
    BY <2>1 DEF Saves, TypeOK
  <2>3. sent' \in Seq(Transaction)
    BY <2>1, AppendProperties DEF SendsOne, TypeOK
  <2> QED
    BY <2>1, <2>2, <2>3 DEF Saves, TypeOK, workers
<1> QED
  BY <1>2, <1>3, <1>4, VisitStep

\* Every step keeps the types.
LEMMA TypeNext == TypeOK /\ [Next]_vars => TypeOK'
<1> SUFFICES ASSUME TypeOK, [Next]_vars
             PROVE  TypeOK'
  OBVIOUS
<1>1. wallet \in [balance : Nat, reserved : Nat, active : BOOLEAN]
  BY DEF TypeOK
<1>2. CASE UNCHANGED vars
  BY <1>2 DEF vars, workers, chain, TypeOK
<1>3. CASE Mine
  BY <1>3, TypeMine
<1>4. ASSUME NEW w \in Withdrawals, MineGas(w)
      PROVE  TypeOK'
  <2>1. row[w] \in Row
    BY DEF TypeOK
  <2>2. row' \in [Withdrawals -> Row]
    <3>1. PICK verdict \in {"ok", "reverted"} : row' = [row EXCEPT ![w].gas = verdict]
      BY <1>4 DEF MineGas
    <3>2. [row[w] EXCEPT !.gas = verdict] \in Row
      BY <2>1 DEF Row
    <3> QED
      BY <3>1, <3>2 DEF TypeOK
  <2> QED
    BY <1>4, <2>2 DEF MineGas, TypeOK, workers, chain
<1>5. ASSUME NEW d \in Deposits, Receive(d) \/ InsertTransfer(d) \/ MarkSuccess(d)
      PROVE  TypeOK'
  <2>1. deposit' \in [Deposits -> {None, "mined", "pending", "success"}]
    BY <1>5 DEF Receive, InsertTransfer, MarkSuccess, TypeOK
  <2>2. onchain' \in Nat
    BY <1>5, LedgerConstants DEF Receive, InsertTransfer, MarkSuccess, TypeOK, chain
  <2> QED
    BY <1>5, <2>1, <2>2 DEF Receive, InsertTransfer, MarkSuccess, TypeOK, workers, chain
<1>6. CASE BalanceOf
  BY <1>6 DEF BalanceOf, TypeOK, chain
<1>7. CASE UpdateWalletBalance
  <2>1. wallet' \in [balance : Nat, reserved : Nat, active : BOOLEAN]
        /\ missed' \in BOOLEAN
    BY <1>1, <1>7 DEF UpdateWalletBalance, TypeOK
  <2> QED
    BY <1>7, <2>1 DEF UpdateWalletBalance, TypeOK, chain
<1>8. ASSUME NEW w \in Withdrawals, ConfirmReads(w)
      PROVE  TypeOK'
  <2>1. [transfer |-> w, reserved |-> wallet.reserved]
          \in [transfer : Withdrawals, reserved : Nat]
    BY <1>1
  <2> QED
    BY <1>8, <2>1 DEF ConfirmReads, TypeOK, chain
<1>9. CASE ConfirmCommits
  <2>1. PICK c \in confirming :
          /\ row' = [row EXCEPT ![c.transfer].status = "processing"]
          /\ wallet' = [wallet EXCEPT !.reserved = c.reserved + Gross]
    BY <1>9 DEF ConfirmCommits
  <2>2. c.transfer \in Withdrawals /\ c.reserved \in Nat
    BY DEF TypeOK
  <2>3. row[c.transfer] \in Row
    BY <2>2 DEF TypeOK
  <2>4. row' \in [Withdrawals -> Row]
    BY <2>1, <2>2, <2>3 DEF TypeOK, Row, Statuses, Open
  <2>5. wallet' \in [balance : Nat, reserved : Nat, active : BOOLEAN]
    BY <1>1, <2>1, <2>2, Amounts
  <2> QED
    BY <1>9, <2>4, <2>5 DEF ConfirmCommits, TypeOK, chain
<1>10. ASSUME NEW w \in Withdrawals, ProcessOne(w)
       PROVE  TypeOK'
  BY <1>10, TypeVisit
<1>11. CASE RotateBlockedWalletIfEmpty
  <2>1. wallet' \in [balance : Nat, reserved : Nat, active : BOOLEAN]
    BY <1>1, <1>11 DEF RotateBlockedWalletIfEmpty
  <2> QED
    BY <1>11, <2>1 DEF RotateBlockedWalletIfEmpty, TypeOK, chain
<1>12. CASE StopBeforeRotation
  <2>1. lost' \in 0..MaxLost
    BY <1>12, Amounts DEF StopBeforeRotation, TypeOK
  <2> QED
    BY <1>12, <2>1 DEF StopBeforeRotation, TypeOK, chain
<1> QED
  BY <1>2, <1>3, <1>4, <1>5, <1>6, <1>7, <1>8, <1>9, <1>10, <1>11, <1>12 DEF Next

\* The variables of the ledger stay within their types; a release or a payment never
\* takes reserve or balance below zero.
THEOREM LedgerTypes == Spec => []TypeOK
<1> QED
  BY TypeInit, TypeNext, PTL DEF Spec

(***************************************************************************)
(* Successes and fees                                                      *)
(***************************************************************************)

\* A transaction once mined stays as it is (tx_receipt_status of a mined hash).
ChainKept ==
  /\ DOMAIN sent' = DOMAIN sent /\ Len(sent') = Len(sent)
  /\ \A n \in DOMAIN sent :
       /\ sent'[n].kind = sent[n].kind /\ sent'[n].transfer = sent[n].transfer
       /\ sent[n].state = "ok" => sent'[n].state = "ok"

\* A step that records no new hash, and lets only what is paid succeed.
HashesKept ==
  \A w \in Withdrawals :
    /\ row'[w].payout = row[w].payout /\ row'[w].fee = row[w].fee
    /\ row'[w].status = "success" => Succeeded(row[w].payout) /\ Succeeded(row[w].fee)

\* Such a step on such a chain keeps the invariant.
LEMMA KeptInv ==
  ASSUME Inv, TypeOK', ChainKept, HashesKept
  PROVE  Inv'
<1>1. ASSUME NEW n \in Nat, n <= Len(sent), Receipt(n) = "ok"
      PROVE  (IF n = 0 THEN None ELSE sent'[n].state) = "ok"
  <2>1. sent \in Seq(Transaction)
    BY DEF Inv, TypeOK
  <2>2. n # 0 => n \in DOMAIN sent
    BY <1>1, <2>1
  <2> QED
    BY <1>1, <2>2 DEF Receipt, ChainKept, None
<1>2. \A w \in Withdrawals : row[w].payout \in Nat /\ row[w].fee \in Nat
  BY DEF Inv, TypeOK, Row
<1>3. Recorded'
  BY DEF Inv, Recorded, HashesKept, ChainKept
<1>4. SuccessIsPaid'
  BY <1>1, <1>2 DEF Inv, Recorded, HashesKept, SuccessIsPaid, Succeeded, Receipt
<1>5. FeeAfterPayout'
  <2>1. SUFFICES ASSUME NEW n \in DOMAIN sent, sent[n].kind = "fee"
                 PROVE  (Receipt(row[sent[n].transfer].payout))' = "ok"
    BY DEF FeeAfterPayout, ChainKept
  <2>2. sent[n].transfer \in Withdrawals
    <3>1. sent[n] \in Transaction
      BY DEF Inv, TypeOK
    <3> QED
      BY <3>1 DEF Transaction
  <2>3. Receipt(row[sent[n].transfer].payout) = "ok"
    BY <2>1 DEF Inv, FeeAfterPayout
  <2>4. sent'[n].transfer = sent[n].transfer
    BY DEF ChainKept
  <2>5. PICK w \in Withdrawals : w = sent[n].transfer
    BY <2>2
  <2>6. row[w].payout \in Nat /\ row[w].payout <= Len(sent)
        /\ Receipt(row[w].payout) = "ok" /\ row'[w].payout = row[w].payout
    BY <1>2, <2>3, <2>5 DEF Inv, Recorded, HashesKept
  <2>7. (IF row[w].payout = 0 THEN None ELSE sent'[row[w].payout].state) = "ok"
    BY <1>1, <2>6
  <2> QED
    BY <2>4, <2>5, <2>6, <2>7 DEF Receipt
<1> QED
  BY <1>3, <1>4, <1>5 DEF Inv

\* A visit that saves the transfer open keeps the invariant: a payout is sent only while
\* none is on record, so no fee of the transfer has been sent before it.
LEMMA SavedInv ==
  ASSUME Inv, TypeOK', NEW w \in Withdrawals, VisitSaves(w)
  PROVE  Inv'
<1>1. PICK new \in Row :
        /\ Saves(w, new) /\ new.status \in Open
        /\ \/ sent' = sent /\ new.payout = row[w].payout /\ new.fee = row[w].fee
           \/ SendsOne(w, new)
  BY DEF VisitSaves
<1>2. row' = [row EXCEPT ![w] = new] /\ row \in [Withdrawals -> Row]
      /\ sent \in Seq(Transaction) /\ row[w] \in Row /\ new.status # "success"
  BY <1>1 DEF Saves, Inv, TypeOK, Open
<1>3. row'[w] = new /\ \A v \in Withdrawals \ {w} : row'[v] = row[v]
  BY <1>2
<1>4. CASE sent' = sent /\ new.payout = row[w].payout /\ new.fee = row[w].fee
  <2>1. ChainKept
    BY <1>4 DEF ChainKept
  <2>2. HashesKept
    <3>1. \A v \in Withdrawals :
            row[v].status = "success" => Succeeded(row[v].payout) /\ Succeeded(row[v].fee)
      BY DEF Inv, SuccessIsPaid, Succeeded
    <3> QED
      BY <1>2, <1>3, <1>4, <3>1 DEF HashesKept
  <2> QED
    BY <2>1, <2>2, KeptInv
<1>5. CASE SendsOne(w, new)
  <2>1. PICK tx \in Transaction :
          /\ sent' = Append(sent, tx) /\ tx.transfer = w
          /\ \/ /\ tx.kind = "payout" /\ row[w].payout = 0
                /\ new.payout \in {0, Len(sent) + 1} /\ new.fee = row[w].fee
             \/ /\ tx.kind = "fee" /\ Succeeded(row[w].payout) /\ row[w].fee = 0
                /\ new.fee \in {0, Len(sent) + 1} /\ new.payout = row[w].payout
    BY <1>5 DEF SendsOne
  <2>2. Len(sent') = Len(sent) + 1 /\ DOMAIN sent' = 1..(Len(sent) + 1)
        /\ DOMAIN sent = 1..Len(sent) /\ Len(sent) \in Nat
        /\ sent'[Len(sent) + 1] = tx
        /\ \A n \in 1..Len(sent) : sent'[n] = sent[n]
    BY <1>2, <2>1
  <2>3. \A v \in Withdrawals : row[v].payout \in 0..Len(sent) /\ row[v].fee \in 0..Len(sent)
    BY DEF Inv, TypeOK, Recorded, Row
  <2>4. Recorded'
    BY <1>3, <2>1, <2>2, <2>3 DEF Recorded
  <2>5. ASSUME NEW n \in 0..Len(sent), Receipt(n) = "ok"
        PROVE  (IF n = 0 THEN None ELSE sent'[n].state) = "ok"
    BY <2>2, <2>5 DEF Receipt
  <2>6. SuccessIsPaid'
    <3>1. SUFFICES ASSUME NEW v \in Withdrawals, row'[v].status = "success"
                   PROVE  (Receipt(row[v].payout) = "ok" /\ Receipt(row[v].fee) = "ok")'
      BY DEF SuccessIsPaid
    <3>2. row'[v] = row[v] /\ v # w
      BY <1>2, <1>3, <3>1
    <3>3. Receipt(row[v].payout) = "ok" /\ Receipt(row[v].fee) = "ok"
      BY <3>1, <3>2 DEF Inv, SuccessIsPaid
    <3> QED
      BY <2>3, <2>5, <3>2, <3>3 DEF Receipt
  <2>7. FeeAfterPayout'
    <3>1. SUFFICES ASSUME NEW n \in DOMAIN sent', sent'[n].kind = "fee",
                          NEW v \in Withdrawals, v = sent'[n].transfer
                   PROVE  (Receipt(row[v].payout))' = "ok"
      <4>1. \A n \in DOMAIN sent' : sent'[n] \in Transaction
        BY DEF TypeOK
      <4> QED
        BY <4>1 DEF FeeAfterPayout, Transaction
    <3>2. Receipt(row[v].payout) = "ok"
      <4>1. CASE n \in DOMAIN sent
        BY <2>2, <3>1, <4>1 DEF Inv, FeeAfterPayout
      <4>2. CASE n = Len(sent) + 1
        BY <2>1, <2>2, <3>1, <4>2 DEF Succeeded
      <4> QED
        BY <2>2, <3>1, <4>1, <4>2
    <3>3. row[v].payout # 0
      BY <3>2 DEF Receipt, None
    <3>4. row'[v].payout = row[v].payout
      BY <1>3, <2>1, <3>3
    <3> QED
      BY <2>3, <2>5, <3>2, <3>4 DEF Receipt
  <2> QED
    BY <2>4, <2>6, <2>7 DEF Inv
<1> QED
  BY <1>1, <1>4, <1>5

\* The invariant holds at first, and every step keeps it.
LEMMA InvInit == Init => Inv
<1> SUFFICES ASSUME Init
             PROVE  Inv
  OBVIOUS
<1>1. TypeOK
  BY TypeInit
<1>2. Recorded /\ SuccessIsPaid /\ FeeAfterPayout
  BY DEF Init, Recorded, SuccessIsPaid, FeeAfterPayout, None
<1> QED
  BY <1>1, <1>2 DEF Inv

LEMMA InvNext == Inv /\ [Next]_vars => Inv'
<1> SUFFICES ASSUME Inv, [Next]_vars
             PROVE  Inv'
  OBVIOUS
<1>1. TypeOK' /\ TypeOK
  BY TypeNext DEF Inv
<1>2. row \in [Withdrawals -> Row] /\ \A w \in Withdrawals : row[w] \in Row
  BY <1>1 DEF TypeOK
<1>3. \A w \in Withdrawals :
        row[w].status = "success" => Succeeded(row[w].payout) /\ Succeeded(row[w].fee)
  BY DEF Inv, SuccessIsPaid, Succeeded
<1>4. sent' = sent => ChainKept
  BY DEF ChainKept
<1>5. row' = row => HashesKept
  BY <1>3 DEF HashesKept
<1>6. CASE sent' = sent /\ row' = row
  BY <1>1, <1>4, <1>5, <1>6, KeptInv
<1>7. CASE Mine
  <2>1. PICK n \in Pool, s \in {"ok", "reverted"} : sent' = [sent EXCEPT ![n].state = s]
    BY <1>7 DEF Mine
  <2>2. sent \in Seq(Transaction) /\ n \in DOMAIN sent /\ sent[n].state = "pool"
    BY <1>1 DEF Pool, TypeOK
  <2>3. \A m \in DOMAIN sent : sent[m] \in Transaction
    BY <2>2
  <2>4. DOMAIN sent' = DOMAIN sent /\ Len(sent') = Len(sent)
    BY <2>1, <2>2, ExceptSeq
  <2>5. \A m \in DOMAIN sent :
          /\ sent'[m].kind = sent[m].kind /\ sent'[m].transfer = sent[m].transfer
          /\ sent[m].state = "ok" => sent'[m].state = "ok"
    BY <2>1, <2>2, <2>3 DEF Transaction
  <2>6. ChainKept
    BY <2>4, <2>5 DEF ChainKept
  <2> QED
    BY <1>1, <1>5, <1>7, <2>6, KeptInv DEF Mine
<1>8. ASSUME NEW w \in Withdrawals, MineGas(w)
      PROVE  Inv'
  <2>1. PICK verdict : row' = [row EXCEPT ![w].gas = verdict]
    BY <1>8 DEF MineGas
  <2>2. HashesKept
    BY <1>2, <1>3, <2>1 DEF HashesKept, Row
  <2> QED
    BY <1>1, <1>4, <1>8, <2>2, KeptInv DEF MineGas, chain
<1>9. CASE ConfirmCommits
  <2>1. PICK c \in confirming : row' = [row EXCEPT ![c.transfer].status = "processing"]
    BY <1>9 DEF ConfirmCommits
  <2>2. c.transfer \in Withdrawals
    BY <1>1 DEF TypeOK
  <2>3. HashesKept
    BY <1>2, <1>3, <2>1, <2>2 DEF HashesKept, Row
  <2> QED
    BY <1>1, <1>4, <1>9, <2>3, KeptInv DEF ConfirmCommits, chain
<1>10. ASSUME NEW w \in Withdrawals, ProcessOne(w)
       PROVE  Inv'
  <2>1. CASE Fails(w)
    <3>1. HashesKept
      BY <1>2, <1>3, <2>1 DEF Fails, HashesKept, Row
    <3> QED
      BY <1>1, <1>4, <2>1, <3>1, KeptInv DEF Fails, chain
  <2>2. CASE Finalize(w)
    <3>1. HashesKept
      BY <1>2, <1>3, <2>2 DEF Finalize, HashesKept, Row
    <3> QED
      BY <1>1, <1>4, <2>2, <3>1, KeptInv DEF Finalize, chain
  <2> QED
    BY <1>1, <1>10, <2>1, <2>2, VisitStep, SavedInv
<1>11. CASE \/ UNCHANGED vars \/ BalanceOf \/ UpdateWalletBalance
            \/ RotateBlockedWalletIfEmpty \/ StopBeforeRotation
  BY <1>6, <1>11 DEF vars, chain, BalanceOf, UpdateWalletBalance,
    RotateBlockedWalletIfEmpty, StopBeforeRotation
<1>12. ASSUME NEW d \in Deposits, Receive(d) \/ InsertTransfer(d) \/ MarkSuccess(d)
       PROVE  Inv'
  BY <1>6, <1>12 DEF chain, Receive, InsertTransfer, MarkSuccess
<1>13. ASSUME NEW w \in Withdrawals, ConfirmReads(w)
       PROVE  Inv'
  BY <1>6, <1>13 DEF chain, ConfirmReads
<1> QED
  BY <1>7, <1>8, <1>9, <1>10, <1>11, <1>12, <1>13 DEF Next

\* The user is told of a success only after payout and fee have succeeded on the chain,
\* whatever was lost, sent twice or came late (db_mark_success of the processor).
THEOREM SuccessPaid == Spec => []SuccessIsPaid
<1>1. Inv => SuccessIsPaid
  BY DEF Inv
<1> QED
  BY <1>1, InvInit, InvNext, PTL DEF Spec

\* No fee leaves the wallet for a transfer whose recorded payout has not succeeded,
\* through every stop, lost answer and retry (step 3 of process_one).
THEOREM FeeFollowsPayout == Spec => []FeeAfterPayout
<1>1. Inv => FeeAfterPayout
  BY DEF Inv
<1> QED
  BY <1>1, InvInit, InvNext, PTL DEF Spec

(***************************************************************************)
(* The reserve                                                             *)
(***************************************************************************)
OpenSet == {w \in Withdrawals : row[w].status \in Open}
Begun == {w \in Withdrawals : row[w].status # None}

\* Enough for what is open, and no more than for what was ever begun.
Covers(reserved) ==
  /\ Gross * Cardinality(OpenSet) <= reserved
  /\ reserved <= Gross * Cardinality(Begun)

\* A confirmation under way is alone, its transfer does not exist yet, and the reserve it
\* has read still covers what is open, since the processor only takes from it meanwhile.
ReadsCover ==
  /\ \A c, d \in confirming : c = d
  /\ \A c \in confirming : row[c.transfer].status = None /\ Covers(c.reserved)

ReserveInv == TypeOK /\ Covers(wallet.reserved) /\ ReadsCover

\* Both sets are finite, and there are at most as many begun as there are withdrawals.
LEMMA Counts ==
  /\ IsFiniteSet(OpenSet) /\ IsFiniteSet(Begun)
  /\ Cardinality(OpenSet) \in Nat /\ Cardinality(Begun) \in Nat
  /\ Cardinality(Begun) <= Cardinality(Withdrawals) /\ Cardinality(Withdrawals) \in Nat
<1>1. OpenSet \subseteq Withdrawals /\ Begun \subseteq Withdrawals
  BY DEF OpenSet, Begun
<1> QED
  BY <1>1, LedgerConstants, FS_Subset, FS_CardinalityType

\* One more of them takes one more amount; fewer take less.
LEMMA Times ==
  ASSUME NEW g \in Nat, NEW m \in Nat, NEW n \in Nat
  PROVE  g * m \in Nat /\ g * (n + 1) = g * n + g /\ (m <= n => g * m <= g * n)
<1>1. g * m \in Nat /\ g * (n + 1) = g * n + g
  OBVIOUS
<1>2. ASSUME m <= n PROVE g * m <= g * n
  <2>1. PICK k \in Nat : n = m + k
    <3>1. n - m \in Nat /\ n = m + (n - m)
      BY <1>2
    <3> QED
      BY <3>1
  <2>2. g * n = g * m + g * k /\ g * k \in Nat /\ g * m \in Nat
    BY <2>1
  <2> QED
    BY <2>2
<1> QED
  BY <1>1, <1>2

\* What a step may do to the rows, as far as the reserve is concerned.
RowsSame == OpenSet' = OpenSet /\ Begun' = Begun
            /\ \A w \in Withdrawals : row[w].status = None => row'[w].status = None

Closes(w) ==
  /\ row[w].status \in Open
  /\ OpenSet' = OpenSet \ {w} /\ Begun' = Begun
  /\ \A v \in Withdrawals : row[v].status = None => row'[v].status = None

\* A row written with a status of the same kind leaves the sets alone; a transfer that
\* ends leaves the open ones.
LEMMA RowWritten ==
  ASSUME TypeOK, NEW w \in Withdrawals, NEW new, row' = [row EXCEPT ![w] = new],
         row[w].status \in Open
  PROVE  /\ new.status \in Open => RowsSame
         /\ new.status \in {"success", "failed"} => Closes(w)
<1>1. row'[w] = new /\ \A v \in Withdrawals \ {w} : row'[v] = row[v]
  BY DEF TypeOK
<1>2. None \notin Open /\ {"success", "failed"} \cap Open = {} /\ None \notin {"success", "failed"}
  BY DEF Open, None
<1> QED
  BY <1>1, <1>2 DEF RowsSame, Closes, OpenSet, Begun

\* A visit reserves nothing: it keeps the transfer open, or ends it and gives back what
\* the transfer took (process_one).
LEMMA VisitReserve ==
  ASSUME TypeOK, NEW w \in Withdrawals, ProcessOne(w)
  PROVE  /\ confirming' = confirming
         /\ \/ RowsSame /\ wallet'.reserved = wallet.reserved
            \/ Closes(w) /\ wallet'.reserved = Released(wallet.reserved)
<1>1. wallet \in [balance : Nat, reserved : Nat, active : BOOLEAN] /\ row[w] \in Row
  BY DEF TypeOK
<1>2. CASE Visits(w) /\ Fails(w)
  <2>1. PICK new : new = [row[w] EXCEPT !.status = "failed"]
    OBVIOUS
  <2>2. row' = [row EXCEPT ![w] = new] /\ new.status = "failed"
    BY <1>1, <1>2, <2>1 DEF Fails, Row
  <2>3. Closes(w)
    BY <1>2, <2>2, RowWritten DEF Visits
  <2> QED
    BY <1>1, <1>2, <2>3 DEF Fails, workers
<1>3. CASE Finalize(w)
  <2>1. PICK new : new = [row[w] EXCEPT !.status = "success"]
    OBVIOUS
  <2>2. row' = [row EXCEPT ![w] = new] /\ new.status = "success"
    BY <1>1, <1>3, <2>1 DEF Finalize, Row
  <2>3. Closes(w)
    BY <1>3, <2>2, RowWritten DEF Finalize, Visits
  <2>4. wallet'.reserved = Released(wallet.reserved)
    BY <1>1, <1>3 DEF Finalize
  <2> QED
    BY <1>3, <2>3, <2>4 DEF Finalize
<1>4. CASE VisitSaves(w)
  <2>1. PICK new \in Row : Visits(w) /\ Saves(w, new) /\ new.status \in Open
    BY <1>4 DEF VisitSaves
  <2>2. RowsSame
    BY <2>1, RowWritten DEF Visits, Saves
  <2> QED
    BY <2>1, <2>2 DEF Saves, workers
<1> QED
  BY <1>2, <1>3, <1>4, VisitStep

\* A step that leaves rows and reserve as they are.
LEMMA ReserveStays ==
  ASSUME ReserveInv, TypeOK', RowsSame, wallet'.reserved = wallet.reserved,
         \/ confirming' = confirming
         \/ /\ confirming = {}
            /\ \E w \in Withdrawals :
                 /\ row[w].status = None
                 /\ confirming' = {[transfer |-> w, reserved |-> wallet.reserved]}
  PROVE  ReserveInv'
<1>1. \A r : Covers(r) => Covers(r)'
  BY DEF Covers, RowsSame
<1>2. Covers(wallet.reserved)'
  BY <1>1 DEF ReserveInv, Covers, RowsSame
<1>3. ReadsCover'
  <2>1. CASE confirming' = confirming
    <3>1. \A c \in confirming : c.transfer \in Withdrawals
      BY DEF ReserveInv, TypeOK
    <3> QED
      BY <1>1, <2>1, <3>1 DEF ReserveInv, ReadsCover, RowsSame
  <2>2. ASSUME NEW w \in Withdrawals, row[w].status = None,
               confirming' = {[transfer |-> w, reserved |-> wallet.reserved]}
        PROVE  ReadsCover'
    <3>1. row'[w].status = None
      BY <2>2 DEF RowsSame
    <3>2. PICK r : r = wallet.reserved
      OBVIOUS
    <3>3. Covers(r)'
      BY <1>1, <3>2 DEF ReserveInv
    <3>4. confirming' = {[transfer |-> w, reserved |-> r]}
      BY <2>2, <3>2
    <3> QED
      BY <3>1, <3>3, <3>4 DEF ReadsCover
  <2> QED
    BY <2>1, <2>2
<1> QED
  BY <1>2, <1>3 DEF ReserveInv

\* A transfer that ends takes its amount out of both sides.
LEMMA ReserveGivenBack ==
  ASSUME ReserveInv, TypeOK', NEW w \in Withdrawals, Closes(w), confirming' = confirming,
         wallet'.reserved = Released(wallet.reserved)
  PROVE  ReserveInv'
<1>1. PICK n \in Nat, b \in Nat : n + 1 = Cardinality(OpenSet) /\ n = Cardinality(OpenSet')
                                  /\ b = Cardinality(Begun) /\ b = Cardinality(Begun')
  <2>1. w \in OpenSet /\ OpenSet' = OpenSet \ {w} /\ Begun' = Begun
    BY DEF Closes, OpenSet
  <2>2. Cardinality(OpenSet \ {w}) = Cardinality(OpenSet) - 1 /\ Cardinality(OpenSet \ {w}) \in Nat
    BY <2>1, Counts, FS_RemoveElement, FS_CardinalityType
  <2>3. Cardinality(OpenSet) \in Nat /\ Cardinality(Begun) \in Nat
    BY Counts
  <2> QED
    BY <2>1, <2>2, <2>3
<1>2. Gross \in Nat /\ Gross * n \in Nat /\ Gross * b \in Nat
      /\ Gross * (n + 1) = Gross * n + Gross
  BY <1>1, Amounts, Times
<1>3. \A r \in Nat : Covers(r) <=> Gross * n + Gross <= r /\ r <= Gross * b
  BY <1>1, <1>2 DEF Covers
<1>4. \A r \in Nat : Covers(r)' <=> Gross * n <= r /\ r <= Gross * b
  BY <1>1, <1>2 DEF Covers
<1>5. \A r \in Nat : Covers(r) => Covers(r)' /\ Covers(Released(r))'
  BY <1>2, <1>3, <1>4, ReleaseIsNat DEF Released
<1>6. wallet.reserved \in Nat /\ \A c \in confirming : c.transfer \in Withdrawals /\ c.reserved \in Nat
  BY DEF ReserveInv, TypeOK
<1>7. Covers(wallet.reserved)'
  <2>1. PICK r \in Nat : r = wallet.reserved
    BY <1>6
  <2>2. Covers(Released(r))'
    BY <1>5, <2>1 DEF ReserveInv
  <2> QED
    BY <2>1, <2>2 DEF Covers
<1>8. ReadsCover'
  BY <1>5, <1>6 DEF ReserveInv, ReadsCover, Closes
<1> QED
  BY <1>7, <1>8 DEF ReserveInv

\* A confirmation reserves its amount and opens its transfer (withdraw_confirm).
LEMMA ReserveTaken ==
  ASSUME ReserveInv, TypeOK', ConfirmCommits
  PROVE  ReserveInv'
<1>1. PICK c \in confirming :
        /\ row' = [row EXCEPT ![c.transfer].status = "processing"]
        /\ wallet' = [wallet EXCEPT !.reserved = c.reserved + Gross]
  BY DEF ConfirmCommits
<1>2. PICK w, r : w = c.transfer /\ r = c.reserved
  OBVIOUS
<1>3. w \in Withdrawals /\ r \in Nat /\ row[w] \in Row /\ row[w].status = None /\ Covers(r)
      /\ wallet \in [balance : Nat, reserved : Nat, active : BOOLEAN]
      /\ row \in [Withdrawals -> Row]
  BY <1>1, <1>2 DEF ReserveInv, ReadsCover, TypeOK
<1>4. row'[w].status = "processing" /\ \A v \in Withdrawals \ {w} : row'[v] = row[v]
  BY <1>1, <1>2, <1>3 DEF Row
<1>5. w \notin OpenSet /\ w \notin Begun
      /\ OpenSet' = OpenSet \cup {w} /\ Begun' = Begun \cup {w}
  BY <1>3, <1>4 DEF OpenSet, Begun, Open, None
<1>6. PICK n \in Nat, b \in Nat :
        /\ n = Cardinality(OpenSet) /\ n + 1 = Cardinality(OpenSet')
        /\ b = Cardinality(Begun) /\ b + 1 = Cardinality(Begun')
  <2>1. Cardinality(OpenSet \cup {w}) = Cardinality(OpenSet) + 1
        /\ Cardinality(Begun \cup {w}) = Cardinality(Begun) + 1
    BY <1>5, Counts, FS_AddElement
  <2>2. Cardinality(OpenSet) \in Nat /\ Cardinality(Begun) \in Nat
    BY Counts
  <2> QED
    BY <1>5, <2>1, <2>2
<1>7. /\ Gross \in Nat /\ Gross * n \in Nat /\ Gross * b \in Nat
      /\ Gross * (n + 1) = Gross * n + Gross /\ Gross * (b + 1) = Gross * b + Gross
  BY <1>6, Amounts, Times
<1>8. wallet'.reserved = r + Gross
  BY <1>1, <1>2, <1>3
<1>9. Covers(wallet.reserved)'
  BY <1>3, <1>6, <1>7, <1>8 DEF Covers
<1>10. ReadsCover'
  BY DEF ConfirmCommits, ReadsCover
<1> QED
  BY <1>9, <1>10 DEF ReserveInv

\* Every step keeps the reserve between what is open and what was begun.
LEMMA ReserveNext == ReserveInv /\ [Next]_vars => ReserveInv'
<1> SUFFICES ASSUME ReserveInv, [Next]_vars
             PROVE  ReserveInv'
  OBVIOUS
<1>1. TypeOK /\ TypeOK'
  BY TypeNext DEF ReserveInv
<1>2. wallet \in [balance : Nat, reserved : Nat, active : BOOLEAN]
      /\ row \in [Withdrawals -> Row]
  BY <1>1 DEF TypeOK
<1>3. row' = row => RowsSame
  BY DEF RowsSame, OpenSet, Begun
<1>4. CASE row' = row /\ wallet'.reserved = wallet.reserved /\ confirming' = confirming
  BY <1>1, <1>3, <1>4, ReserveStays
<1>5. CASE \/ Mine \/ BalanceOf \/ UpdateWalletBalance
           \/ RotateBlockedWalletIfEmpty \/ StopBeforeRotation \/ UNCHANGED vars
  BY <1>2, <1>4, <1>5 DEF Mine, BalanceOf, UpdateWalletBalance,
    RotateBlockedWalletIfEmpty, StopBeforeRotation, vars, workers
<1>6. ASSUME NEW d \in Deposits, Receive(d) \/ InsertTransfer(d) \/ MarkSuccess(d)
      PROVE  ReserveInv'
  BY <1>4, <1>6 DEF Receive, InsertTransfer, MarkSuccess, workers
<1>7. ASSUME NEW w \in Withdrawals, MineGas(w)
      PROVE  ReserveInv'
  <2>1. PICK verdict : row' = [row EXCEPT ![w].gas = verdict]
    BY <1>7 DEF MineGas
  <2>2. \A v \in Withdrawals : row'[v].status = row[v].status
    BY <1>2, <2>1 DEF Row
  <2>3. RowsSame
    BY <2>2 DEF RowsSame, OpenSet, Begun
  <2> QED
    BY <1>1, <1>7, <2>3, ReserveStays DEF MineGas, workers
<1>8. ASSUME NEW w \in Withdrawals, ConfirmReads(w)
      PROVE  ReserveInv'
  BY <1>1, <1>3, <1>8, ReserveStays DEF ConfirmReads
<1>9. ASSUME NEW w \in Withdrawals, ProcessOne(w)
      PROVE  ReserveInv'
  BY <1>1, <1>9, VisitReserve, ReserveStays, ReserveGivenBack
<1>10. CASE ConfirmCommits
  BY <1>1, <1>10, ReserveTaken
<1> QED
  BY <1>5, <1>6, <1>7, <1>8, <1>9, <1>10 DEF Next

\* What open withdrawals will take stays reserved, and no more than all of them could,
\* although a confirmation writes a sum it read before other withdrawals ended.
THEOREM OpenStaysReserved == Spec => []OpenIsReserved
<1>1. Init => ReserveInv
  <2> SUFFICES ASSUME Init
               PROVE  ReserveInv
    OBVIOUS
  <2>1. OpenSet = {} /\ Begun = {} /\ wallet.reserved = 0 /\ confirming = {}
    BY DEF Init, OpenSet, Begun, Open, None
  <2>2. Gross * 0 = 0
    BY Amounts
  <2> QED
    BY <2>1, <2>2, TypeInit, FS_EmptySet DEF ReserveInv, Covers, ReadsCover
<1>2. ReserveInv => OpenIsReserved
  <2> SUFFICES ASSUME ReserveInv
               PROVE  OpenIsReserved
    OBVIOUS
  <2>1. PICK n \in Nat, b \in Nat, all \in Nat :
          /\ n = Cardinality(OpenSet) /\ b = Cardinality(Begun)
          /\ all = Cardinality(Withdrawals) /\ b <= all
    BY Counts
  <2>2. Gross \in Nat /\ Gross * n \in Nat /\ Gross * b \in Nat /\ Gross * all \in Nat
        /\ Gross * b <= Gross * all
    BY <2>1, Amounts, Times
  <2>3. wallet.reserved \in Nat /\ Gross * n <= wallet.reserved /\ wallet.reserved <= Gross * b
    BY <2>1 DEF ReserveInv, TypeOK, Covers
  <2>4. OpenCount = n
    BY <2>1 DEF OpenCount, OpenSet
  <2>5. wallet.reserved \in (Gross * n)..(Gross * all)
    BY <2>2, <2>3
  <2> QED
    BY <2>1, <2>4, <2>5 DEF OpenIsReserved
<1> QED
  BY <1>1, <1>2, ReserveNext, PTL DEF Spec
=============================================================================
