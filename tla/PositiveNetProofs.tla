------------------------- MODULE PositiveNetProofs -------------------------
(***************************************************************************)
(* Proofs about PositiveNet, for any set of redeem orders and any bound on *)
(* the transactions: no order of receipts, rollbacks and repeated sends    *)
(* lets the net amount leave before the sellers are paid, or settles the   *)
(* orders before the money has arrived.                                    *)
(*                                                                         *)
(* What a pass knows lives in two books, its session and the database, and *)
(* either may become the other (a commit, a rollback).  So the invariant   *)
(* says of each of them that all it claims is true of the chain and of     *)
(* Bybit (Sound), and neither takes a success back (ChainGrows, BybitGrows).*)
(* NetOnce says that the chain has at most one net transaction, sent after *)
(* a commit that knew of the payouts, Agreed that session and database do  *)
(* not disagree about it, and StagesTrue what a pass has already made sure *)
(* of when it comes to a stage.                                            *)
(***************************************************************************)
EXTENDS PositiveNet, FiniteSetTheorems, TLAPS

-----------------------------------------------------------------------------
(* The inductive invariant.                                                *)

\* A hash on record is that of a transaction to the seller, and what counts as
\* confirmed has succeeded.
RowsTrue(w) ==
    \A o \in Redeems :
        /\ w.rows[o].tx # NoTx => w.rows[o].tx \in Sent(o)
        /\ w.rows[o].status = "confirmed" => w.rows[o].tx \in Paying(o)

\* A batch that is past its payouts has paid every seller, and only such a batch
\* waits or has a net transfer.
PayoutsTrue(w) ==
    /\ w.paidOut => \A o \in Redeems : Paying(o) # {}
    /\ w.status = "pending_confirmation" \/ w.net.status # "none" => w.paidOut

\* The same as RowsTrue, of the net transfer.
NetTrue(w) ==
    /\ w.net.tx # NoTx => w.net.tx \in Sent(Net)
    /\ w.net.status = "confirmed" => w.net.tx \in Paying(Net)

\* What is on record of Bybit's answers is what Bybit has.
BybitTrue(w) ==
    /\ w.account # "none" => bybit.deposit = w.account
    /\ w.deposited /\ w.cash > 0 => w.account # "none"
    /\ w.internal = "success" => bybit.transfer = "success"
    /\ w.internal = "skipped" /\ w.cash > 0 => w.account = "unified"
    /\ w.done => w.paidOut /\ (w.cash > 0 => w.account # "none" /\ w.internal \in Ready)

Sound(w) == w \in Books /\ RowsTrue(w) /\ PayoutsTrue(w) /\ NetTrue(w) /\ BybitTrue(w)

WorldTrue ==
    /\ txs \in Seq(TxRows) /\ Len(txs) <= MaxSends
    /\ bybit \in [deposit : {"none", "pending", "fund", "unified", "failed"},
                  transfer : {"none", "pending", "success", "failed"}]
    /\ bybit.deposit # "none" => Paying(Net) # {}

\* There is one net transaction at most, nothing takes its place, and the database knew
\* of it and of the payouts before it was sent.
NetOnce ==
    /\ \A m, n \in Sent(Net) : m = n
    /\ \A n \in Sent(Net) : txs[n].state # "replaced"
    /\ Sent(Net) # {} => db.net.status # "none"

\* The session and the database agree about the net transfer, as far as the chain is
\* concerned, until the pass is over.
Agreed ==
    pc # "idle" =>
        /\ db.net.status = "none" <=> work.net.status = "none"
        /\ db.net.status = "confirmed" => work.net.status = "confirmed"

StagesTrue ==
    /\ pc \in Stages /\ todo \subseteq Redeems
    /\ pc = "payouts" => ~db.paidOut
    /\ pc \in {"net", "broadcast", "deposit", "internal", "account"} => work.paidOut
    /\ pc \in {"payouts", "net", "broadcast"} => work.net = db.net
    /\ pc = "broadcast" => work.net.status \in {"prepared", "processing"}
    /\ pc \in {"deposit", "internal"} => work.cash > 0
    /\ pc = "internal" => work.deposited
    /\ pc = "account" /\ work.cash > 0 => work.account # "none" /\ work.internal \in Ready

IInv == Sound(db) /\ Sound(work) /\ WorldTrue /\ NetOnce /\ Agreed /\ StagesTrue

-----------------------------------------------------------------------------
(* The chain and Bybit.                                                    *)

\* What the chain has made of a transaction, and a success of Bybit, stay.
ChainGrows ==
    \A n \in DOMAIN txs :
        /\ n \in DOMAIN txs' /\ txs'[n].to = txs[n].to
        /\ txs[n].state = "ok" => txs'[n].state = "ok"

BybitGrows ==
    /\ bybit.deposit \in {"fund", "unified"} => bybit'.deposit = bybit.deposit
    /\ bybit.transfer = "success" => bybit'.transfer = "success"

\* Nonces count transactions.
LEMMA Nonces ==
    ASSUME WorldTrue
    PROVE  MinedNonce \in Nat /\ PendingNonce \in Nat
<1>1. IsFiniteSet(DOMAIN txs)
  BY FS_Interval DEF WorldTrue
<1>2. \A s : IsFiniteSet(Having(s))
  BY <1>1, FS_Subset DEF Having
<1>3. IsFiniteSet(Having("ok") \cup Having("reverted"))
  BY <1>2, FS_Union
<1> QED
  BY <1>2, <1>3, FS_CardinalityType DEF MinedNonce, PendingNonce

\* A node that accepts a transaction adds one and leaves every other where it is,
\* but for the state of those it replaces in the pool.
LEMMA Accepted ==
    ASSUME WorldTrue, NEW p \in Payees, NEW nonce \in Nat, Accept(p, nonce)
    PROVE  /\ txs' \in Seq(TxRows) /\ Len(txs') = Len(txs) + 1 /\ Len(txs') <= MaxSends
           /\ DOMAIN txs' = 1 .. Len(txs) + 1 /\ DOMAIN txs = 1 .. Len(txs)
           /\ Len(txs) \in Nat
           /\ txs'[Len(txs) + 1].to = p /\ txs'[Len(txs) + 1].state = "pooled"
           /\ \A n \in DOMAIN txs :
                 /\ txs'[n].to = txs[n].to
                 /\ \/ txs'[n] = txs[n]
                    \/ txs[n].state = "pooled" /\ txs'[n].state = "replaced"
           /\ ChainGrows
<1> DEFINE new == [to |-> p, nonce |-> nonce, state |-> "pooled"]
           was(n) == IF txs[n].state = "pooled" /\ txs[n].nonce = nonce
                     THEN [txs[n] EXCEPT !.state = "replaced"]
                     ELSE txs[n]
           L == Len(txs)
<1>1. L \in Nat /\ DOMAIN txs = 1 .. L /\ \A n \in 1 .. L : txs[n] \in TxRows
  BY DEF WorldTrue
<1>2. L + 1 <= MaxSends /\ txs' = [n \in 1 .. L + 1 |-> IF n = L + 1 THEN new ELSE was(n)]
  BY <1>1, PositiveNetAssumption DEF Accept
<1>3. new \in TxRows
  BY DEF TxRows
<1>4. ASSUME NEW n \in 1 .. L
      PROVE  /\ was(n) \in TxRows /\ was(n).to = txs[n].to
             /\ \/ was(n) = txs[n]
                \/ txs[n].state = "pooled" /\ was(n).state = "replaced"
  <2>1. txs[n] \in TxRows
    BY <1>1
  <2>2. /\ [txs[n] EXCEPT !.state = "replaced"] \in TxRows
        /\ [txs[n] EXCEPT !.state = "replaced"].to = txs[n].to
        /\ [txs[n] EXCEPT !.state = "replaced"].state = "replaced"
    BY <2>1 DEF TxRows
  <2> QED
    BY <2>1, <2>2
<1>5. txs'[L + 1] = new /\ \A n \in 1 .. L : txs'[n] = was(n)
  BY <1>1, <1>2
<1> HIDE DEF was
<1>6. \A n \in 1 .. L + 1 : (IF n = L + 1 THEN new ELSE was(n)) \in TxRows
  BY <1>1, <1>3, <1>4
<1>7. txs' \in Seq(TxRows) /\ Len(txs') = L + 1 /\ DOMAIN txs' = 1 .. L + 1
  BY <1>1, <1>2, <1>6
<1> QED
  BY <1>1, <1>2, <1>4, <1>5, <1>7 DEF ChainGrows

\* A transaction that is mined keeps its payee, and was in the pool.
LEMMA MinedOne ==
    ASSUME WorldTrue, Mine
    PROVE  /\ txs' \in Seq(TxRows) /\ Len(txs') = Len(txs) /\ DOMAIN txs' = DOMAIN txs
           /\ \E n \in DOMAIN txs, result \in {"ok", "reverted"} :
                 /\ txs[n].state = "pooled"
                 /\ txs'[n].to = txs[n].to /\ txs'[n].state = result
                 /\ \A m \in DOMAIN txs \ {n} : txs'[m] = txs[m]
           /\ ChainGrows
<1>1. PICK n \in Having("pooled"), result \in {"ok", "reverted"} :
         txs' = [txs EXCEPT ![n].state = result]
  BY DEF Mine
<1>2. n \in DOMAIN txs /\ txs[n].state = "pooled" /\ txs[n] \in TxRows
      /\ DOMAIN txs = 1 .. Len(txs) /\ Len(txs) \in Nat
      /\ \A m \in DOMAIN txs : txs[m] \in TxRows
  BY DEF Having, WorldTrue
<1>3. [txs[n] EXCEPT !.state = result] \in TxRows
      /\ [txs[n] EXCEPT !.state = result].to = txs[n].to
      /\ [txs[n] EXCEPT !.state = result].state = result
  BY <1>2 DEF TxRows
<1>4. txs'[n] = [txs[n] EXCEPT !.state = result]
      /\ \A m \in DOMAIN txs \ {n} : txs'[m] = txs[m]
  BY <1>1, <1>2
<1>5. txs' \in [1 .. Len(txs) -> TxRows]
  BY <1>1, <1>2, <1>3
<1>6. txs' \in Seq(TxRows) /\ Len(txs') = Len(txs) /\ DOMAIN txs' = DOMAIN txs
  BY <1>2, <1>5
<1> QED
  BY <1>2, <1>3, <1>4, <1>6 DEF ChainGrows

\* What was sent, or has paid, stays so.
LEMMA PayingGrows ==
    ASSUME ChainGrows, NEW p
    PROVE  Sent(p) \subseteq Sent(p)' /\ Paying(p) \subseteq Paying(p)'
BY DEF ChainGrows, Sent, Paying, Having

\* What a book claims stays true.
LEMMA SoundStays ==
    ASSUME NEW w, Sound(w), ChainGrows, BybitGrows
    PROVE  Sound(w)'
<1>1. \A p \in Payees : Sent(p) \subseteq Sent(p)' /\ Paying(p) \subseteq Paying(p)'
  BY PayingGrows
<1>2. RowsTrue(w)'
  BY <1>1 DEF Sound, RowsTrue, Payees
<1>3. PayoutsTrue(w)'
  BY <1>1 DEF Sound, PayoutsTrue, Payees
<1>4. NetTrue(w)'
  BY <1>1 DEF Sound, NetTrue, Payees
<1>5. BybitTrue(w)'
  <2>1. w.account \in {"none", "fund", "unified"}
    BY DEF Sound, Books
  <2> QED
    BY <2>1 DEF Sound, BybitTrue, BybitGrows
<1> QED
  BY <1>2, <1>3, <1>4, <1>5 DEF Sound

-----------------------------------------------------------------------------
(* What a stage writes into the session.  The lemmas speak of the state    *)
(* after the step, in which the chain may have moved on.                   *)

\* A new status; a batch waits only when it is past its payouts.
LEMMA StatusWritten ==
    ASSUME NEW w, Sound(w)', NEW s \in BatchStatuses, s = "pending_confirmation" => w.paidOut
    PROVE  LET new == [w EXCEPT !.status = s]
           IN  /\ Sound(new)' /\ new.status = s
               /\ new.paidOut = w.paidOut /\ new.net = w.net /\ new.cash = w.cash
               /\ new.deposited = w.deposited /\ new.account = w.account
               /\ new.internal = w.internal /\ new.rows = w.rows
<1> DEFINE new == [w EXCEPT !.status = s]
<1>1. w \in Books
  BY DEF Sound
<1>2. /\ new \in Books /\ new.status = s /\ new.rows = w.rows /\ new.net = w.net
      /\ new.paidOut = w.paidOut /\ new.cash = w.cash /\ new.done = w.done
      /\ new.deposited = w.deposited /\ new.account = w.account /\ new.internal = w.internal
  BY <1>1 DEF Books
<1> HIDE DEF new
<1>3. RowsTrue(new)' /\ PayoutsTrue(new)' /\ NetTrue(new)' /\ BybitTrue(new)'
  BY <1>2 DEF Sound, RowsTrue, PayoutsTrue, NetTrue, BybitTrue
<1> QED
  BY <1>2, <1>3 DEF Sound, new

\* The row of one seller.
LEMMA RowWritten ==
    ASSUME NEW w, Sound(w)', NEW o \in Redeems,
           NEW row \in [status : {"none", "sent", "pending_confirmation", "confirmed"},
                        tx : Txs \cup {NoTx}],
           row.tx # NoTx => row.tx \in Sent(o)',
           row.status = "confirmed" => row.tx \in Paying(o)'
    PROVE  LET new == [w EXCEPT !.rows[o] = row]
           IN  /\ Sound(new)' /\ new.paidOut = w.paidOut /\ new.net = w.net
<1> DEFINE new == [w EXCEPT !.rows[o] = row]
<1>1. w \in Books
  BY DEF Sound
<1>2. /\ new \in Books /\ new.status = w.status /\ new.net = w.net
      /\ new.paidOut = w.paidOut /\ new.cash = w.cash /\ new.done = w.done
      /\ new.deposited = w.deposited /\ new.account = w.account /\ new.internal = w.internal
      /\ new.rows[o] = row /\ \A p \in Redeems \ {o} : new.rows[p] = w.rows[p]
  BY <1>1 DEF Books
<1> HIDE DEF new
<1>3. RowsTrue(new)' /\ PayoutsTrue(new)' /\ NetTrue(new)' /\ BybitTrue(new)'
  BY <1>2 DEF Sound, RowsTrue, PayoutsTrue, NetTrue, BybitTrue
<1> QED
  BY <1>2, <1>3 DEF Sound, new

\* The state of the net transfer.
LEMMA NetWritten ==
    ASSUME NEW w, Sound(w)', w.paidOut,
           NEW net \in [status : {"none", "prepared", "processing", "sent",
                                 "pending_confirmation", "confirmed"},
                        nonce : Nat, tx : Txs \cup {NoTx}],
           net.tx # NoTx => net.tx \in Sent(Net)',
           net.status = "confirmed" => net.tx \in Paying(Net)'
    PROVE  LET new == [w EXCEPT !.net = net]
           IN  /\ Sound(new)' /\ new.net = net
               /\ new.paidOut = w.paidOut /\ new.cash = w.cash
<1> DEFINE new == [w EXCEPT !.net = net]
<1>1. w \in Books
  BY DEF Sound
<1>2. /\ new \in Books /\ new.status = w.status /\ new.net = net /\ new.rows = w.rows
      /\ new.paidOut = w.paidOut /\ new.cash = w.cash /\ new.done = w.done
      /\ new.deposited = w.deposited /\ new.account = w.account /\ new.internal = w.internal
  BY <1>1 DEF Books
<1> HIDE DEF new
<1>3. RowsTrue(new)' /\ PayoutsTrue(new)' /\ NetTrue(new)' /\ BybitTrue(new)'
  BY <1>2 DEF Sound, RowsTrue, PayoutsTrue, NetTrue, BybitTrue
<1> QED
  BY <1>2, <1>3 DEF Sound, new

\* The payout stage is passed: every seller is paid.
LEMMA PaidOutWritten ==
    ASSUME NEW w, Sound(w)', \A o \in Redeems : w.rows[o].status = "confirmed"
    PROVE  LET new == [w EXCEPT !.paidOut = TRUE]
           IN  Sound(new)' /\ new.paidOut /\ new.net = w.net
<1> DEFINE new == [w EXCEPT !.paidOut = TRUE]
<1>1. w \in Books
  BY DEF Sound
<1>2. /\ new \in Books /\ new.status = w.status /\ new.net = w.net /\ new.rows = w.rows
      /\ new.paidOut = TRUE /\ new.cash = w.cash /\ new.done = w.done
      /\ new.deposited = w.deposited /\ new.account = w.account /\ new.internal = w.internal
  BY <1>1 DEF Books
<1> HIDE DEF new
<1>3. RowsTrue(new)' /\ NetTrue(new)' /\ BybitTrue(new)'
  BY <1>2 DEF Sound, RowsTrue, NetTrue, BybitTrue
<1>4. \A o \in Redeems : w.rows[o].tx \in Paying(o)'
  BY DEF Sound, RowsTrue
<1>5. PayoutsTrue(new)'
  BY <1>2, <1>4 DEF PayoutsTrue
<1> QED
  BY <1>2, <1>3, <1>5 DEF Sound, new

\* Bybit's answers, and the accounting.
LEMMA AnswersWritten ==
    ASSUME NEW w, Sound(w)', NEW new \in Books, BybitTrue(new)',
           new.status = w.status \/ new.paidOut,
           new.rows = w.rows, new.paidOut = w.paidOut, new.net = w.net
    PROVE  Sound(new)'
BY DEF Sound, RowsTrue, PayoutsTrue, NetTrue

\* Steps that leave chain and Bybit alone.
LEMMA Quiet ==
    ASSUME IInv, UNCHANGED <<txs, bybit>>
    PROVE  /\ ChainGrows /\ BybitGrows /\ WorldTrue'
           /\ (db.net.status # "none" => db'.net.status # "none") => NetOnce'
<1>1. Sent(Net)' = Sent(Net) /\ Paying(Net)' = Paying(Net)
  BY DEF Sent, Paying, Having
<1> QED
  BY <1>1 DEF IInv, ChainGrows, BybitGrows, WorldTrue, NetOnce

\* A pass begins where the database is (process_positive_net_batch).
LEMMA BeginKeeps ==
    ASSUME IInv, Begin
    PROVE  IInv'
<1> DEFINE s == IF db.status = "awaiting_positive_net_execution"
                THEN "positive_net_processing" ELSE db.status
           started == [db EXCEPT !.status = s]
<1>1. PICK w : w = db
  OBVIOUS
<1>2. ChainGrows /\ BybitGrows /\ WorldTrue' /\ NetOnce' /\ db' = db
  BY Quiet DEF Begin, Go
<1>3. Sound(w)'
  BY <1>1, <1>2, SoundStays DEF IInv
<1>4. Sound(db)'
  BY <1>1, <1>2, <1>3
<1>5. w.status \in BatchStatuses /\ (w.status = "pending_confirmation" => w.paidOut)
  BY <1>3 DEF Sound, Books, PayoutsTrue
<1>6. PICK t \in BatchStatuses : t = s /\ (t = "pending_confirmation" => w.paidOut)
  BY <1>1, <1>5 DEF BatchStatuses, Active
<1>7. PICK v : v = [w EXCEPT !.status = t]
  OBVIOUS
<1>8. Sound(v)' /\ v.net = w.net /\ v.paidOut = w.paidOut
  BY <1>3, <1>6, <1>7, StatusWritten
<1>9. work' = v /\ pc' \in {"net", "payouts"} /\ (pc' = "net" <=> w.paidOut)
      /\ todo' \subseteq Redeems
  BY <1>1, <1>6, <1>7 DEF Begin, Go, IInv, StagesTrue
<1>10. Sound(work)'
  BY <1>8, <1>9
<1>11. Agreed' /\ StagesTrue'
  BY <1>1, <1>2, <1>8, <1>9 DEF Agreed, StagesTrue, Stages
<1> QED
  BY <1>2, <1>4, <1>10, <1>11 DEF IInv

\* The session is given up, or committed: one of the two books takes the place of the
\* other (the rollback and the commit of the worker).
LEMMA BooksKept ==
    ASSUME IInv, UNCHANGED <<txs, bybit>>, pc' = "idle", todo' \subseteq Redeems,
           \/ work' = db /\ db' = db
           \/ work' = work /\ db' = work /\ pc # "idle"
    PROVE  IInv'
<1>1. PICK v, w : v = db /\ w = work
  OBVIOUS
<1>2. ChainGrows /\ BybitGrows /\ WorldTrue' /\ NetOnce'
  BY Quiet DEF IInv, Agreed
<1>3. Sound(v)' /\ Sound(w)'
  BY <1>1, <1>2, SoundStays DEF IInv
<1>4. Sound(db)' /\ Sound(work)'
  <2>1. CASE work' = db /\ db' = db
    <3>1. work' = v /\ db' = v
      BY <1>1, <2>1
    <3> QED
      BY <1>3, <3>1
  <2>2. CASE work' = work /\ db' = work
    <3>1. work' = w /\ db' = w
      BY <1>1, <2>2
    <3> QED
      BY <1>3, <3>1
  <2> QED
    BY <2>1, <2>2
<1>5. Agreed' /\ StagesTrue'
  BY DEF Agreed, StagesTrue, Stages
<1> QED
  BY <1>2, <1>4, <1>5 DEF IInv

LEMMA AbandonKeeps ==
    ASSUME IInv, Abandon, UNCHANGED <<txs, bybit>>
    PROVE  IInv'
BY BooksKept DEF Abandon

LEMMA CommitKeeps ==
    ASSUME IInv, Commit
    PROVE  IInv'
BY BooksKept DEF Commit, IInv, StagesTrue

\* A step of the pass that leaves the database, the chain and Bybit alone keeps the
\* invariant if what it writes is true and fits the stage it goes to.
LEMMA GoKeeps ==
    ASSUME IInv, UNCHANGED <<db, txs, bybit>>, NEW w, work' = w, Sound(w)',
           pc # "idle", todo' \subseteq Redeems,
           w.net.status = "none" <=> work.net.status = "none",
           work.net.status = "confirmed" => w.net.status = "confirmed",
           StagesTrue'
    PROVE  IInv'
<1>1. PICK v : v = db
  OBVIOUS
<1>2. ChainGrows /\ BybitGrows /\ WorldTrue' /\ NetOnce'
  BY Quiet
<1>3. Sound(v)'
  BY <1>1, <1>2, SoundStays DEF IInv
<1>4. Sound(db)' /\ Sound(work)'
  BY <1>1, <1>3
<1>5. Agreed'
  BY DEF IInv, Agreed
<1> QED
  BY <1>2, <1>4, <1>5 DEF IInv

\* The receipt of a payout on record is looked at.
LEMMA CheckPayoutKeeps ==
    ASSUME IInv, NEW o \in Redeems, CheckPayout(o)
    PROVE  IInv'
<1>1. PICK w : w = work
  OBVIOUS
<1>2. UNCHANGED <<db, txs, bybit>> /\ pc = "payouts" /\ pc' = "payouts"
      /\ todo' = todo \ {o} /\ o \in todo
  BY DEF CheckPayout, Visiting, Visited, Payable, Go
<1>3. Sound(w)'
  BY <1>1, <1>2, Quiet, SoundStays DEF IInv
<1>4. w \in Books /\ w.rows[o] \in [status : {"none", "sent", "pending_confirmation", "confirmed"},
                                    tx : Txs \cup {NoTx}]
  BY <1>3 DEF Sound, Books
<1>5. PICK row : row = [w.rows[o] EXCEPT
                      !.status = IF @ = "confirmed" \/ Confirmed(w.rows[o].tx)
                                 THEN "confirmed" ELSE "pending_confirmation"]
  OBVIOUS
<1>6. /\ row \in [status : {"none", "sent", "pending_confirmation", "confirmed"},
                  tx : Txs \cup {NoTx}]
      /\ row.tx = w.rows[o].tx /\ row.tx # NoTx
      /\ row.status = "confirmed" => w.rows[o].status = "confirmed" \/ Confirmed(row.tx)
  BY <1>1, <1>4, <1>5 DEF CheckPayout
<1>7. row.tx \in Sent(o)' /\ (row.status = "confirmed" => row.tx \in Paying(o)')
  <2>1. w.rows[o].tx \in Sent(o)' /\ (w.rows[o].status = "confirmed" => w.rows[o].tx \in Paying(o)')
    BY <1>3, <1>6 DEF Sound, RowsTrue
  <2>2. Confirmed(row.tx) => row.tx \in Having("ok")'
    BY <1>2 DEF Confirmed, Having
  <2> QED
    BY <1>6, <2>1, <2>2 DEF Sent, Paying
<1>8. PICK v : v = [w EXCEPT !.rows[o] = row]
  OBVIOUS
<1>9. work' = v
  BY <1>1, <1>5, <1>8 DEF CheckPayout, Visited, Go
<1>10. Sound(v)' /\ v.paidOut = w.paidOut /\ v.net = w.net
  BY <1>3, <1>6, <1>7, <1>8, RowWritten
<1>11. StagesTrue'
  BY <1>1, <1>2, <1>9, <1>10 DEF IInv, StagesTrue
<1> QED
  BY <1>1, <1>2, <1>9, <1>10, <1>11, GoKeeps DEF StagesTrue

\* Every payout has been visited.
LEMMA PayoutsVisitedKeeps ==
    ASSUME IInv, PayoutsVisited
    PROVE  IInv'
<1>1. PICK w : w = work
  OBVIOUS
<1>2. UNCHANGED <<db, txs, bybit, todo>> /\ pc = "payouts"
  BY DEF PayoutsVisited, Payable, Go, End
<1>3. Sound(w)'
  BY <1>1, <1>2, Quiet, SoundStays DEF IInv
<1>4. CASE \A o \in Redeems : work.rows[o].status = "confirmed"
  <2>1. PICK v : v = [w EXCEPT !.paidOut = TRUE]
    OBVIOUS
  <2>2. work' = v /\ pc' = "net"
    BY <1>1, <1>4, <2>1 DEF PayoutsVisited, Go
  <2>3. Sound(v)' /\ v.paidOut /\ v.net = w.net
    BY <1>1, <1>3, <1>4, <2>1, PaidOutWritten
  <2>4. StagesTrue'
    BY <1>1, <1>2, <2>2, <2>3 DEF IInv, StagesTrue, Stages
  <2> QED
    BY <1>1, <1>2, <2>2, <2>3, <2>4, GoKeeps DEF StagesTrue
<1>5. CASE ~\A o \in Redeems : work.rows[o].status = "confirmed"
  <2>1. work' = w /\ pc' = "commit"
    BY <1>1, <1>5 DEF PayoutsVisited, End, Go
  <2>2. StagesTrue'
    BY <1>1, <1>2, <2>1 DEF IInv, StagesTrue, Stages
  <2> QED
    BY <1>1, <1>2, <1>3, <2>1, <2>2, GoKeeps DEF StagesTrue
<1> QED
  BY <1>4, <1>5

\* A node that accepts a payout, or the net transfer, while it has no net transfer yet
\* keeps what the books claim.
LEMMA AcceptKeeps ==
    ASSUME IInv, NEW p \in Payees, NEW nonce \in Nat, Accept(p, nonce), UNCHANGED bybit,
           Sent(Net) = {}
    PROVE  /\ ChainGrows /\ BybitGrows /\ WorldTrue'
           /\ Len(txs) + 1 \in Sent(p)' /\ Len(txs) + 1 \in Txs
           /\ Sent(Net)' = IF p = Net THEN {Len(txs) + 1} ELSE {}
           /\ (Sent(Net)' # {} => db'.net.status # "none") => NetOnce'
<1>1. WorldTrue /\ NetOnce /\ MaxSends \in Nat
  BY PositiveNetAssumption DEF IInv
<1>2. /\ txs' \in Seq(TxRows) /\ Len(txs') = Len(txs) + 1 /\ Len(txs') <= MaxSends
      /\ DOMAIN txs' = 1 .. Len(txs) + 1 /\ DOMAIN txs = 1 .. Len(txs) /\ Len(txs) \in Nat
      /\ txs'[Len(txs) + 1].to = p /\ txs'[Len(txs) + 1].state = "pooled"
      /\ \A n \in DOMAIN txs :
            /\ txs'[n].to = txs[n].to
            /\ \/ txs'[n] = txs[n]
               \/ txs[n].state = "pooled" /\ txs'[n].state = "replaced"
      /\ ChainGrows
  BY <1>1, Accepted
<1>3. BybitGrows
  BY DEF BybitGrows
<1>4. WorldTrue'
  <2>1. Paying(Net) \subseteq Paying(Net)'
    BY <1>2, PayingGrows
  <2> QED
    BY <1>1, <1>2, <2>1 DEF WorldTrue
<1>5. Sent(Net)' = IF p = Net THEN {Len(txs) + 1} ELSE {}
  BY <1>2 DEF Sent
<1>6. (Sent(Net)' # {} => db'.net.status # "none") => NetOnce'
  BY <1>2, <1>5 DEF NetOnce
<1>7. Len(txs) + 1 \in Sent(p)' /\ Len(txs) + 1 \in Txs
  BY <1>1, <1>2 DEF Sent, Txs
<1> QED
  BY <1>2, <1>3, <1>4, <1>5, <1>6, <1>7

\* A payout is sent, and its hash waits in the session or is lost with it.
LEMMA SendPayoutKeeps ==
    ASSUME IInv, NEW o \in Redeems, SendPayout(o)
    PROVE  IInv'
<1>1. PICK v, w : v = db /\ w = work
  OBVIOUS
<1>2. /\ pc = "payouts" /\ o \in todo /\ work.rows[o].tx = NoTx
      /\ Accept(o, MinedNonce) /\ UNCHANGED <<db, bybit>>
      /\ \/ Visited(o, [status |-> "sent", tx |-> Len(txs) + 1])
         \/ Abandon
  BY DEF SendPayout, Visiting, Payable, Visited, Go, Abandon
<1>3. Sent(Net) = {}
  BY <1>2 DEF IInv, StagesTrue, NetOnce, Sound, PayoutsTrue
<1>4. MinedNonce \in Nat /\ o \in Payees /\ o # Net
  BY Nonces, PositiveNetAssumption DEF IInv, Payees, Net
<1>5. /\ ChainGrows /\ BybitGrows /\ WorldTrue'
      /\ Len(txs) + 1 \in Sent(o)' /\ Len(txs) + 1 \in Txs /\ Sent(Net)' = {} /\ NetOnce'
  BY <1>2, <1>3, <1>4, AcceptKeeps
<1>6. Sound(v)' /\ Sound(w)'
  BY <1>1, <1>5, SoundStays DEF IInv
<1>7. Sound(db)'
  BY <1>1, <1>2, <1>6
<1>8. CASE Visited(o, [status |-> "sent", tx |-> Len(txs) + 1])
  <2>1. PICK row : row = [status |-> "sent", tx |-> Len(txs) + 1]
    OBVIOUS
  <2>2. /\ row \in [status : {"none", "sent", "pending_confirmation", "confirmed"},
                    tx : Txs \cup {NoTx}]
        /\ row.tx \in Sent(o)' /\ row.status # "confirmed"
    BY <1>5, <2>1
  <2>3. PICK u : u = [w EXCEPT !.rows[o] = row]
    OBVIOUS
  <2>4. Sound(u)' /\ u.paidOut = w.paidOut /\ u.net = w.net
    BY <1>6, <2>2, <2>3, RowWritten
  <2>5. work' = u /\ pc' = "payouts" /\ todo' \subseteq Redeems
    BY <1>1, <1>8, <2>1, <2>3 DEF Visited, Go, IInv, StagesTrue
  <2>6. Sound(work)'
    BY <2>4, <2>5
  <2>7. Agreed' /\ StagesTrue'
    BY <1>1, <1>2, <2>4, <2>5 DEF IInv, Agreed, StagesTrue
  <2> QED
    BY <1>5, <1>7, <2>6, <2>7 DEF IInv
<1>9. CASE Abandon
  <2>1. work' = v /\ pc' = "idle" /\ todo' = {}
    BY <1>1, <1>9 DEF Abandon
  <2>2. Sound(work)'
    BY <1>6, <2>1
  <2>3. Agreed' /\ StagesTrue'
    BY <2>1 DEF Agreed, StagesTrue, Stages
  <2> QED
    BY <1>5, <1>7, <2>2, <2>3 DEF IInv
<1> QED
  BY <1>2, <1>8, <1>9

-----------------------------------------------------------------------------
(* The net transfer.                                                       *)

\* Net cash of zero skips deposit and internal transfer.
LEMMA SkipNetKeeps ==
    ASSUME IInv, SkipNet
    PROVE  IInv'
<1>1. PICK w : w = work
  OBVIOUS
<1>2. UNCHANGED <<db, txs, bybit, todo>> /\ pc = "net" /\ pc' = "account" /\ w.cash = 0
  BY <1>1 DEF SkipNet, Go
<1>3. Sound(w)'
  BY <1>1, <1>2, Quiet, SoundStays DEF IInv
<1>4. PICK v : v = [w EXCEPT !.deposited = TRUE, !.internal = "skipped"]
  OBVIOUS
<1>5. /\ v \in Books /\ v.status = w.status /\ v.rows = w.rows /\ v.paidOut = w.paidOut
      /\ v.net = w.net /\ v.cash = 0 /\ v.account = w.account /\ v.done = w.done
      /\ v.internal = "skipped"
  BY <1>2, <1>3, <1>4 DEF Sound, Books, Ready
<1>6. Sound(v)'
  <2>1. BybitTrue(v)'
    BY <1>3, <1>5 DEF Sound, BybitTrue
  <2> QED
    BY <1>3, <1>5, <2>1, AnswersWritten
<1>7. work' = v
  BY <1>1, <1>4 DEF SkipNet, Go
<1>8. StagesTrue'
  BY <1>1, <1>2, <1>5, <1>7 DEF IInv, StagesTrue, Stages
<1> QED
  BY <1>1, <1>2, <1>5, <1>6, <1>7, <1>8, GoKeeps DEF StagesTrue

\* The receipt of the net transfer is looked at.
LEMMA CheckNetKeeps ==
    ASSUME IInv, CheckNet
    PROVE  IInv'
<1>1. PICK w : w = work
  OBVIOUS
<1>2. /\ UNCHANGED <<db, txs, bybit, todo>> /\ pc = "net" /\ w.cash > 0 /\ w.net.tx # NoTx
      /\ w.paidOut /\ w.net = db.net
  BY <1>1 DEF CheckNet, Go, End, IInv, StagesTrue
<1>3. Sound(w)'
  BY <1>1, <1>2, Quiet, SoundStays DEF IInv
<1>4. w \in Books /\ w.net.tx \in Sent(Net)'
      /\ (w.net.status = "confirmed" => w.net.tx \in Paying(Net)')
  BY <1>2, <1>3 DEF Sound, NetTrue
<1>5. w.net \in [status : {"none", "prepared", "processing", "sent", "pending_confirmation",
                           "confirmed"}, nonce : Nat, tx : Txs \cup {NoTx}]
  BY <1>4 DEF Books
<1>6. ASSUME NEW s \in {"confirmed", "pending_confirmation"},
             s = "confirmed" => w.net.tx \in Paying(Net)'
      PROVE  /\ Sound([w EXCEPT !.net.status = s])'
             /\ [w EXCEPT !.net.status = s].net.status = s
             /\ [w EXCEPT !.net.status = s].paidOut
             /\ [w EXCEPT !.net.status = s].cash > 0
  <2>1. PICK net : net = [w.net EXCEPT !.status = s]
    OBVIOUS
  <2>2. net \in [status : {"none", "prepared", "processing", "sent", "pending_confirmation",
                           "confirmed"}, nonce : Nat, tx : Txs \cup {NoTx}]
        /\ net.status = s /\ net.tx = w.net.tx
    BY <1>5, <2>1
  <2>3. PICK v : v = [w EXCEPT !.net = net]
    OBVIOUS
  <2>4. Sound(v)' /\ v.net = net /\ v.paidOut /\ v.cash > 0
    BY <1>2, <1>3, <1>4, <1>6, <2>2, <2>3, NetWritten
  <2>5. [w EXCEPT !.net.status = s] = v
    BY <1>4, <2>1, <2>3 DEF Books
  <2> QED
    BY <2>2, <2>4, <2>5
<1>7. CASE work.net.status = "confirmed" \/ Confirmed(work.net.tx)
  <2>1. PICK v : v = [w EXCEPT !.net.status = "confirmed"]
    OBVIOUS
  <2>2. work' = v /\ pc' = "deposit"
    BY <1>1, <1>7, <2>1 DEF CheckNet, Go, WithNet
  <2>3. w.net.tx \in Paying(Net)'
    <3>1. Confirmed(w.net.tx) => w.net.tx \in Having("ok")'
      BY <1>2 DEF Confirmed, Having
    <3> QED
      BY <1>1, <1>4, <1>7, <3>1 DEF Sent, Paying
  <2>4. Sound(v)' /\ v.net.status = "confirmed" /\ v.paidOut /\ v.cash > 0
    BY <1>6, <2>1, <2>3
  <2>5. StagesTrue'
    BY <1>1, <1>2, <2>2, <2>4 DEF IInv, StagesTrue, Stages
  <2>6. work.net.status # "none"
    BY <1>1, <1>2 DEF IInv, NetOnce, Sound, NetTrue
  <2> QED
    BY <1>1, <1>2, <2>2, <2>4, <2>5, <2>6, GoKeeps DEF StagesTrue
<1>8. CASE ~(work.net.status = "confirmed" \/ Confirmed(work.net.tx))
  <2>1. PICK u : u = [w EXCEPT !.net.status = "pending_confirmation"]
    OBVIOUS
  <2>2. Sound(u)' /\ u.net.status = "pending_confirmation" /\ u.paidOut
    BY <1>6, <2>1
  <2>3. PICK v : v = [u EXCEPT !.status = "pending_confirmation"]
    OBVIOUS
  <2>4. work' = v /\ pc' = "commit"
    BY <1>1, <1>8, <2>1, <2>3 DEF CheckNet, End, Go, WithNet, Waiting
  <2>5. Sound(v)' /\ v.net = u.net /\ v.paidOut
    <3>1. "pending_confirmation" \in BatchStatuses
      BY DEF BatchStatuses, Active
    <3>2. Sound(v)' /\ v.net = u.net /\ v.paidOut = u.paidOut
      BY <2>2, <2>3, <3>1, StatusWritten
    <3> QED
      BY <2>2, <3>2
  <2>6. StagesTrue'
    BY <1>1, <1>2, <2>4 DEF IInv, StagesTrue, Stages
  <2>7. work.net.status # "none"
    BY <1>1, <1>2 DEF IInv, NetOnce, Sound, NetTrue
  <2> QED
    BY <1>1, <1>2, <1>8, <2>2, <2>4, <2>5, <2>6, <2>7, GoKeeps DEF StagesTrue
<1> QED
  BY <1>7, <1>8

\* A signed transaction is committed, with what the session knows of the payouts.
LEMMA PrepareNetKeeps ==
    ASSUME IInv, PrepareNet
    PROVE  IInv'
<1>1. PICK w : w = work
  OBVIOUS
<1>2. UNCHANGED <<txs, bybit, todo>> /\ pc' = "broadcast" /\ db' = work' /\ w.paidOut
  BY <1>1 DEF PrepareNet, IInv, StagesTrue
<1>3. ChainGrows /\ BybitGrows /\ WorldTrue'
  BY <1>2, Quiet
<1>4. Sound(w)'
  BY <1>1, <1>3, SoundStays DEF IInv
<1>5. PICK nonce \in Nat : nonce = PendingNonce
  BY Nonces DEF IInv
<1>6. PICK net : net = [status |-> "prepared", nonce |-> nonce, tx |-> NoTx]
  OBVIOUS
<1>7. net \in [status : {"none", "prepared", "processing", "sent", "pending_confirmation",
                         "confirmed"}, nonce : Nat, tx : Txs \cup {NoTx}]
      /\ net.status = "prepared" /\ net.tx = NoTx
  BY <1>6
<1>8. PICK v : v = [w EXCEPT !.net = net]
  OBVIOUS
<1>9. Sound(v)' /\ v.net = net /\ v.paidOut
  BY <1>2, <1>4, <1>7, <1>8, NetWritten
<1>10. work' = v /\ db' = v
  BY <1>1, <1>2, <1>5, <1>6, <1>8 DEF PrepareNet
<1>11. Sound(db)' /\ Sound(work)'
  BY <1>9, <1>10
<1>12. NetOnce'
  BY <1>2, <1>7, <1>9, <1>10, Quiet
<1>13. Agreed' /\ StagesTrue'
  BY <1>2, <1>7, <1>9, <1>10 DEF IInv, Agreed, StagesTrue, Stages
<1> QED
  BY <1>3, <1>11, <1>12, <1>13 DEF IInv

\* A later pass takes up a prepared transaction.
LEMMA ResumeNetKeeps ==
    ASSUME IInv, ResumeNet
    PROVE  IInv'
<1>1. PICK w : w = work
  OBVIOUS
<1>2. UNCHANGED <<db, txs, bybit, todo>> /\ pc = "net" /\ pc' = "broadcast" /\ work' = w
  BY <1>1 DEF ResumeNet, Go
<1>3. Sound(w)'
  BY <1>1, <1>2, Quiet, SoundStays DEF IInv
<1>4. StagesTrue'
  BY <1>1, <1>2 DEF ResumeNet, IInv, StagesTrue, Stages
<1> QED
  BY <1>1, <1>2, <1>3, <1>4, GoKeeps DEF StagesTrue

\* The number of the net transaction on the chain.
LEMMA NetNumber ==
    /\ Sent(Net) # {} => NetTx \in Sent(Net)
    /\ Sent(Net) = {} => NetTx = Len(txs) + 1
BY DEF NetTx, Sent

\* A delivery makes the prepared transaction the net transaction of the chain,
\* at the first time, and changes nothing afterwards.
LEMMA DeliveredKeeps ==
    ASSUME IInv, pc = "broadcast", Delivered, UNCHANGED bybit, db'.net.status # "none"
    PROVE  /\ ChainGrows /\ BybitGrows /\ WorldTrue' /\ NetOnce'
           /\ NetTx \in Sent(Net)' /\ NetTx \in Txs
<1>1. WorldTrue /\ NetOnce /\ MaxSends \in Nat
  BY PositiveNetAssumption DEF IInv
<1>2. DOMAIN txs = 1 .. Len(txs) /\ Len(txs) \in Nat /\ Len(txs) <= MaxSends
  BY <1>1 DEF WorldTrue
<1>3. CASE Sent(Net) # {}
  <2>1. NetTx \in Sent(Net) /\ NetTx \in DOMAIN txs
    BY <1>3, NetNumber DEF Sent
  <2>2. UNCHANGED txs
    BY <2>1 DEF Delivered
  <2>3. ChainGrows /\ BybitGrows /\ WorldTrue' /\ NetOnce'
    BY <2>2, Quiet
  <2>4. Sent(Net)' = Sent(Net)
    BY <2>2 DEF Sent
  <2>5. NetTx \in Txs
    BY <1>1, <1>2, <2>1 DEF Txs
  <2> QED
    BY <2>1, <2>3, <2>4, <2>5
<1>4. CASE Sent(Net) = {}
  <2>1. NetTx = Len(txs) + 1
    BY <1>4, NetNumber
  <2>2. Accept(Net, work.net.nonce)
    BY <1>2, <2>1 DEF Delivered
  <2>3. work.net.nonce \in Nat /\ Net \in Payees
    BY DEF IInv, Sound, Books, Payees
  <2> QED
    BY <1>4, <2>1, <2>2, <2>3, AcceptKeeps
<1> QED
  BY <1>3, <1>4

\* The prepared transaction is sent, or sent again, and the outcome committed.
LEMMA BroadcastNetKeeps ==
    ASSUME IInv, BroadcastNet
    PROVE  IInv'
<1>1. PICK w, t : w = work /\ t = NetTx
  OBVIOUS
<1>2. pc = "broadcast" /\ pc' = "commit" /\ UNCHANGED <<bybit, todo>>
  BY <1>1 DEF BroadcastNet, IInv, StagesTrue
<1>3. work.paidOut /\ work.net = db.net /\ work.net.status \in {"prepared", "processing"}
  BY <1>2 DEF IInv, StagesTrue
<1>4. ASSUME NEW u, db' = u, work' = [u EXCEPT !.status = "pending_confirmation"],
             Sound(u)', u.paidOut, u.net.status \in {"sent", "processing"},
             WorldTrue', NetOnce'
      PROVE  IInv'
  <2>1. "pending_confirmation" \in BatchStatuses
    BY DEF BatchStatuses, Active
  <2>2. PICK v : v = [u EXCEPT !.status = "pending_confirmation"]
    OBVIOUS
  <2>3. Sound(v)' /\ v.net = u.net
    BY <1>4, <2>1, <2>2, StatusWritten
  <2>4. work' = v
    BY <1>4, <2>2
  <2>5. Sound(db)' /\ Sound(work)'
    BY <1>4, <2>3, <2>4
  <2>6. Agreed' /\ StagesTrue'
    BY <1>2, <1>4, <2>3, <2>4 DEF IInv, Agreed, StagesTrue, Stages
  <2> QED
    BY <1>4, <2>5, <2>6 DEF IInv
<1>5. w \in Books /\ w.net \in [status : {"none", "prepared", "processing", "sent",
                                          "pending_confirmation", "confirmed"},
                                nonce : Nat, tx : Txs \cup {NoTx}]
  BY <1>1 DEF IInv, Sound, Books
<1>6. CASE /\ Delivered
           /\ work' = Waiting([work EXCEPT !.net.status = "sent", !.net.tx = NetTx])
           /\ db' = [work EXCEPT !.net.status = "sent", !.net.tx = NetTx]
  <2>1. PICK u : u = [w EXCEPT !.net.status = "sent", !.net.tx = t]
    OBVIOUS
  <2>2. db' = u /\ work' = [u EXCEPT !.status = "pending_confirmation"]
    BY <1>1, <1>6, <2>1 DEF Waiting
  <2>3. PICK net : net = [w.net EXCEPT !.status = "sent", !.tx = t]
    OBVIOUS
  <2>4. net.status = "sent" /\ net.tx = t
    BY <1>5, <2>3
  <2>5. u = [w EXCEPT !.net = net] /\ u.net = net
    BY <1>5, <2>1, <2>3 DEF Books
  <2>6. /\ ChainGrows /\ BybitGrows /\ WorldTrue' /\ NetOnce'
        /\ t \in Sent(Net)' /\ t \in Txs
    BY <1>1, <1>2, <1>6, <2>2, <2>4, <2>5, DeliveredKeeps
  <2>7. Sound(w)'
    BY <1>1, <2>6, SoundStays DEF IInv
  <2>8. net \in [status : {"none", "prepared", "processing", "sent", "pending_confirmation",
                           "confirmed"}, nonce : Nat, tx : Txs \cup {NoTx}]
    BY <1>5, <2>3, <2>6
  <2>9. Sound(u)' /\ u.paidOut
    BY <1>1, <1>3, <2>4, <2>5, <2>6, <2>7, <2>8, NetWritten
  <2> QED
    BY <1>1, <1>3, <1>4, <2>2, <2>4, <2>5, <2>6, <2>9
<1>7. CASE /\ Delivered \/ UNCHANGED txs
           /\ work' = Waiting(WithNet("processing"))
           /\ db' = WithNet("processing")
  <2>1. PICK u : u = [w EXCEPT !.net.status = "processing"]
    OBVIOUS
  <2>2. db' = u /\ work' = [u EXCEPT !.status = "pending_confirmation"]
    BY <1>1, <1>7, <2>1 DEF Waiting, WithNet
  <2>3. PICK net : net = [w.net EXCEPT !.status = "processing"]
    OBVIOUS
  <2>4. net.status = "processing" /\ net.tx = w.net.tx
        /\ net \in [status : {"none", "prepared", "processing", "sent", "pending_confirmation",
                              "confirmed"}, nonce : Nat, tx : Txs \cup {NoTx}]
    BY <1>5, <2>3
  <2>5. u = [w EXCEPT !.net = net] /\ u.net = net
    BY <1>5, <2>1, <2>3 DEF Books
  <2>6. ChainGrows /\ BybitGrows /\ WorldTrue' /\ NetOnce'
    <3>1. db'.net.status # "none"
      BY <2>2, <2>4, <2>5
    <3>2. CASE Delivered
      BY <1>2, <3>1, <3>2, DeliveredKeeps
    <3>3. CASE UNCHANGED txs
      BY <1>2, <3>1, <3>3, Quiet
    <3> QED
      BY <1>7, <3>2, <3>3
  <2>7. Sound(w)'
    BY <1>1, <2>6, SoundStays DEF IInv
  <2>8. w.net.tx # NoTx => w.net.tx \in Sent(Net)'
    BY <2>7 DEF Sound, NetTrue
  <2>9. Sound(u)' /\ u.paidOut
    BY <1>1, <1>3, <2>4, <2>5, <2>7, <2>8, NetWritten
  <2> QED
    BY <1>1, <1>3, <1>4, <2>2, <2>4, <2>5, <2>6, <2>9
<1> QED
  BY <1>6, <1>7 DEF BroadcastNet

-----------------------------------------------------------------------------
(* Bybit and the accounting.                                               *)

\* The deposit is on record once Bybit has credited it.
LEMMA ConfirmDepositKeeps ==
    ASSUME IInv, ConfirmDeposit
    PROVE  IInv'
<1>1. PICK w : w = work
  OBVIOUS
<1>2. UNCHANGED <<db, txs, bybit, todo>> /\ pc = "deposit" /\ pc' \in {"internal", "commit"}
  BY DEF ConfirmDeposit, Go, End
<1>3. w.paidOut /\ w.cash > 0
  BY <1>1, <1>2 DEF IInv, StagesTrue
<1>4. Sound(w)'
  BY <1>1, <1>2, Quiet, SoundStays DEF IInv
<1>5. w \in Books
  BY <1>4 DEF Sound
<1>6. ASSUME NEW v, work' = v, Sound(v)', v.net = w.net, v.paidOut, v.cash = w.cash,
             pc' = "internal" => v.deposited
      PROVE  IInv'
  <2>1. StagesTrue'
    BY <1>1, <1>2, <1>3, <1>6 DEF IInv, StagesTrue, Stages
  <2> QED
    BY <1>1, <1>2, <1>6, <2>1, GoKeeps DEF StagesTrue
<1>7. CASE work.deposited /\ Go("internal", work)
  BY <1>1, <1>3, <1>4, <1>6, <1>7 DEF Go
<1>8. CASE /\ bybit.deposit \in {"fund", "unified"}
           /\ Go("internal", [work EXCEPT !.deposited = TRUE, !.account = bybit.deposit])
  <2>1. PICK a : a = bybit.deposit
    OBVIOUS
  <2>2. PICK v : v = [w EXCEPT !.deposited = TRUE, !.account = a]
    OBVIOUS
  <2>3. a \in {"fund", "unified"} /\ bybit'.deposit = a /\ work' = v
    BY <1>1, <1>2, <1>8, <2>1, <2>2 DEF Go
  <2>4. /\ v \in Books /\ v.status = w.status /\ v.rows = w.rows /\ v.paidOut = w.paidOut
        /\ v.net = w.net /\ v.cash = w.cash /\ v.account = a /\ v.done = w.done
        /\ v.internal = w.internal /\ v.deposited = TRUE
    BY <1>5, <2>2, <2>3 DEF Books
  <2>5. BybitTrue(v)'
    BY <1>4, <2>3, <2>4 DEF Sound, BybitTrue
  <2>6. Sound(v)'
    BY <1>4, <2>4, <2>5, AnswersWritten
  <2> QED
    BY <1>3, <1>6, <2>3, <2>4, <2>6
<1>9. ASSUME NEW s \in {"pending_confirmation", "failed_requires_review"},
             End([work EXCEPT !.status = s])
      PROVE  IInv'
  <2>1. PICK v : v = [w EXCEPT !.status = s]
    OBVIOUS
  <2>2. s \in BatchStatuses
    BY DEF BatchStatuses, Active
  <2>3. Sound(v)' /\ v.net = w.net /\ v.paidOut = w.paidOut /\ v.cash = w.cash
    BY <1>3, <1>4, <2>1, <2>2, StatusWritten
  <2>4. work' = v /\ pc' = "commit"
    BY <1>1, <1>9, <2>1 DEF End, Go
  <2> QED
    BY <1>3, <1>6, <2>3, <2>4
<1> QED
  BY <1>7, <1>8, <1>9 DEF ConfirmDeposit, Waiting

\* A deposit that is in the UNIFIED account already, or a transfer that is done.
LEMMA SkipTransferKeeps ==
    ASSUME IInv, SkipTransfer
    PROVE  IInv'
<1>1. PICK w : w = work
  OBVIOUS
<1>2. UNCHANGED <<db, txs, bybit, todo>> /\ pc = "internal" /\ pc' = "account"
  BY DEF SkipTransfer, Go
<1>3. w.paidOut /\ w.cash > 0 /\ w.deposited
  BY <1>1, <1>2 DEF IInv, StagesTrue
<1>4. Sound(w)'
  BY <1>1, <1>2, Quiet, SoundStays DEF IInv
<1>5. w \in Books /\ w.account # "none"
  BY <1>3, <1>4 DEF Sound, BybitTrue
<1>6. PICK t : t = IF w.account = "unified" THEN "skipped" ELSE w.internal
  OBVIOUS
<1>7. t \in Ready /\ (t # w.internal => t = "skipped" /\ w.account = "unified")
  BY <1>1, <1>6 DEF SkipTransfer, Ready
<1>8. PICK v : v = [w EXCEPT !.internal = t]
  OBVIOUS
<1>9. work' = v
  BY <1>1, <1>6, <1>8 DEF SkipTransfer, Go
<1>10. /\ v \in Books /\ v.status = w.status /\ v.rows = w.rows /\ v.paidOut = w.paidOut
       /\ v.net = w.net /\ v.cash = w.cash /\ v.account = w.account /\ v.done = w.done
       /\ v.deposited = w.deposited /\ v.internal = t
  BY <1>5, <1>7, <1>8 DEF Books
<1>11. BybitTrue(v)'
  BY <1>4, <1>7, <1>10 DEF Sound, BybitTrue, Ready
<1>12. Sound(v)'
  BY <1>4, <1>10, <1>11, AnswersWritten
<1>13. v.paidOut /\ v.account # "none" /\ v.internal \in Ready
  BY <1>3, <1>5, <1>7, <1>10
<1>14. StagesTrue'
  BY <1>1, <1>2, <1>9, <1>13 DEF IInv, StagesTrue, Stages
<1> QED
  BY <1>1, <1>2, <1>9, <1>10, <1>12, <1>14, GoKeeps DEF StagesTrue

\* What a pass writes of an answer about the internal transfer is true if the answer
\* does not claim a success Bybit has not had.
LEMMA AnsweredKeeps ==
    ASSUME IInv, UNCHANGED <<db, txs, todo>>, WorldTrue', BybitGrows, pc = "internal",
           work.account = "fund", work.internal \notin Ready,
           NEW t \in {"pending", "unknown", "failed", "success"}, Answered(t),
           t = "success" => bybit'.transfer = "success"
    PROVE  IInv'
<1>1. PICK v, w : v = db /\ w = work
  OBVIOUS
<1>2. w.paidOut /\ w.cash > 0 /\ w.deposited
  BY <1>1 DEF IInv, StagesTrue
<1>3. ChainGrows /\ Sent(Net)' = Sent(Net)
  BY DEF ChainGrows, Sent
<1>4. Sound(v)' /\ Sound(w)'
  BY <1>1, <1>3, SoundStays DEF IInv
<1>5. Sound(db)' /\ NetOnce'
  BY <1>1, <1>3, <1>4 DEF IInv, NetOnce
<1>6. PICK u : u = [w EXCEPT !.posted = TRUE, !.internal = t]
  OBVIOUS
<1>7. w \in Books /\ w.account = "fund" /\ w.internal \notin Ready
  BY <1>1, <1>4 DEF Sound
<1>8. /\ u \in Books /\ u.status = w.status /\ u.rows = w.rows /\ u.paidOut = w.paidOut
      /\ u.net = w.net /\ u.cash = w.cash /\ u.account = w.account /\ u.done = w.done
      /\ u.deposited = w.deposited /\ u.internal = t
  BY <1>6, <1>7 DEF Books, Ready
<1>9. BybitTrue(u)'
  BY <1>2, <1>4, <1>7, <1>8 DEF Sound, BybitTrue
<1>10. Sound(u)'
  BY <1>4, <1>8, <1>9, AnswersWritten
<1>11. ASSUME NEW x, work' = x, Sound(x)', x.net = u.net, x.paidOut, pc' \in {"account", "commit"},
              pc' = "account" => x.account = "fund" /\ x.internal = "success"
       PROVE  IInv'
  <2>1. StagesTrue'
    BY <1>11 DEF IInv, StagesTrue, Stages, Ready
  <2>2. Agreed'
    BY <1>1, <1>8, <1>11 DEF IInv, Agreed
  <2> QED
    BY <1>5, <1>11, <2>1, <2>2 DEF IInv
<1>12. u.paidOut /\ u.account = "fund"
  BY <1>2, <1>7, <1>8
<1>13. CASE t = "success"
  <2>1. work' = u /\ pc' = "account"
    BY <1>1, <1>6, <1>13 DEF Answered
  <2> QED
    BY <1>8, <1>10, <1>11, <1>12, <1>13, <2>1
<1>14. CASE t # "success"
  <2>1. PICK s \in {"pending_confirmation", "failed_requires_review"} :
           work' = [u EXCEPT !.status = s] /\ pc' = "commit"
    BY <1>1, <1>6, <1>14 DEF Answered, Waiting
  <2>2. PICK x : x = [u EXCEPT !.status = s]
    OBVIOUS
  <2>3. s \in BatchStatuses
    BY DEF BatchStatuses, Active
  <2>4. Sound(x)' /\ x.net = u.net /\ x.paidOut = u.paidOut
    BY <1>10, <1>12, <2>2, <2>3, StatusWritten
  <2> QED
    BY <1>11, <1>12, <2>1, <2>2, <2>4
<1> QED
  BY <1>13, <1>14

\* Bybit is asked about the transfer on record.
LEMMA QueryTransferKeeps ==
    ASSUME IInv, QueryTransfer
    PROVE  IInv'
<1>1. PICK t \in {"unknown", bybit.transfer} \ {"none"} : Answered(t)
  BY DEF QueryTransfer
<1>2. UNCHANGED <<db, txs, bybit, todo>> /\ pc = "internal"
      /\ work.account = "fund" /\ work.internal \notin Ready
  BY DEF QueryTransfer
<1>3. WorldTrue' /\ BybitGrows
  BY <1>2, Quiet
<1>4. t \in {"pending", "unknown", "failed", "success"}
      /\ (t = "success" => bybit'.transfer = "success")
  BY <1>1, <1>2 DEF IInv, WorldTrue
<1> QED
  BY <1>1, <1>2, <1>3, <1>4, AnsweredKeeps

\* The session is given up in a step in which Bybit may have moved on.
LEMMA GivenUp ==
    ASSUME IInv, Abandon, UNCHANGED txs, WorldTrue', BybitGrows
    PROVE  IInv'
<1>1. PICK v : v = db
  OBVIOUS
<1>2. ChainGrows /\ Sent(Net)' = Sent(Net)
  BY DEF ChainGrows, Sent
<1>3. Sound(v)'
  BY <1>1, <1>2, SoundStays DEF IInv
<1>4. db' = v /\ work' = v /\ pc' = "idle" /\ todo' = {}
  BY <1>1 DEF Abandon
<1>5. Sound(db)' /\ Sound(work)'
  BY <1>3, <1>4
<1>6. NetOnce'
  BY <1>1, <1>2, <1>4 DEF IInv, NetOnce
<1>7. Agreed' /\ StagesTrue'
  BY <1>4 DEF Agreed, StagesTrue, Stages
<1> QED
  BY <1>5, <1>6, <1>7 DEF IInv

\* The internal transfer is posted, and the answer may be lost.
LEMMA PostTransferKeeps ==
    ASSUME IInv, PostTransfer
    PROVE  IInv'
<1>1. PICK t \in {"pending", "success", "failed"} :
         /\ bybit.transfer \in {"none", t}
         /\ bybit' = [bybit EXCEPT !.transfer = t]
         /\ \/ Answered(t) /\ UNCHANGED <<db, todo>>
            \/ Answered("unknown") /\ UNCHANGED <<db, todo>>
            \/ Abandon
  BY DEF PostTransfer
<1>2. UNCHANGED txs /\ pc = "internal" /\ work.account = "fund" /\ work.internal \notin Ready
  BY DEF PostTransfer
<1>3. WorldTrue
  BY DEF IInv
<1>4. bybit'.deposit = bybit.deposit /\ bybit'.transfer = t
      /\ bybit' \in [deposit : {"none", "pending", "fund", "unified", "failed"},
                     transfer : {"none", "pending", "success", "failed"}]
  BY <1>1, <1>3 DEF WorldTrue
<1>5. WorldTrue' /\ BybitGrows
  <2>1. Paying(Net)' = Paying(Net)
    BY <1>2 DEF Paying, Having
  <2> QED
    BY <1>1, <1>2, <1>3, <1>4, <2>1 DEF WorldTrue, BybitGrows
<1>6. CASE Answered(t) /\ UNCHANGED <<db, todo>>
  BY <1>2, <1>4, <1>5, <1>6, AnsweredKeeps
<1>7. CASE Answered("unknown") /\ UNCHANGED <<db, todo>>
  BY <1>2, <1>5, <1>7, AnsweredKeeps
<1>8. CASE Abandon
  BY <1>2, <1>5, <1>8, GivenUp
<1> QED
  BY <1>1, <1>6, <1>7, <1>8

\* The orders are settled.
LEMMA AccountKeeps ==
    ASSUME IInv, Account
    PROVE  IInv'
<1>1. PICK w : w = work
  OBVIOUS
<1>2. UNCHANGED <<db, txs, bybit, todo>> /\ pc = "account" /\ pc' = "commit"
  BY DEF Account, End, Go
<1>3. w.paidOut /\ (w.cash > 0 => w.account # "none" /\ w.internal \in Ready)
  BY <1>1, <1>2 DEF IInv, StagesTrue
<1>4. Sound(w)'
  BY <1>1, <1>2, Quiet, SoundStays DEF IInv
<1>5. PICK v : v = [w EXCEPT !.done = TRUE, !.status = "completed"]
  OBVIOUS
<1>6. w \in Books
  BY <1>4 DEF Sound
<1>7. /\ v \in Books /\ v.rows = w.rows /\ v.paidOut = w.paidOut
      /\ v.net = w.net /\ v.cash = w.cash /\ v.account = w.account /\ v.done = TRUE
      /\ v.deposited = w.deposited /\ v.internal = w.internal
  BY <1>5, <1>6 DEF Books, BatchStatuses
<1>8. BybitTrue(v)'
  BY <1>3, <1>4, <1>7 DEF Sound, BybitTrue
<1>9. Sound(v)'
  BY <1>3, <1>4, <1>7, <1>8, AnswersWritten
<1>10. work' = v
  BY <1>1, <1>5 DEF Account, End, Go
<1>11. StagesTrue'
  BY <1>2, <1>10 DEF IInv, StagesTrue, Stages
<1> QED
  BY <1>1, <1>2, <1>7, <1>9, <1>10, <1>11, GoKeeps DEF StagesTrue

\* A refused share plan fails the batch and says nothing new of the money.
LEMMA RefuseSharesKeeps ==
    ASSUME IInv, RefuseShares
    PROVE  IInv'
<1>1. PICK w : /\ \/ w = db /\ pc = "idle"
                  \/ w = work /\ pc = "account"
               /\ work' = [w EXCEPT !.status = "failed_requires_review"]
  BY DEF RefuseShares, End, Go
<1>2. UNCHANGED <<db, txs, bybit, todo>> /\ pc' = "commit"
  BY DEF RefuseShares, End, Go
<1>3. ChainGrows /\ BybitGrows /\ WorldTrue' /\ NetOnce'
  BY <1>2, Quiet
<1>4. Sound(w)' /\ Sound(db)'
  <2>1. PICK d : d = db
    OBVIOUS
  <2>2. Sound(d)'
    BY <1>3, <2>1, SoundStays DEF IInv
  <2>3. Sound(w)'
    BY <1>1, <1>3, SoundStays DEF IInv
  <2> QED
    BY <1>2, <2>1, <2>2, <2>3
<1>5. PICK t \in BatchStatuses : t = "failed_requires_review"
  BY DEF BatchStatuses
<1>6. PICK v : v = [w EXCEPT !.status = t]
  OBVIOUS
<1>7. Sound(v)' /\ v.net = w.net
  BY <1>4, <1>5, <1>6, StatusWritten
<1>8. work' = v
  BY <1>1, <1>5, <1>6
<1>9. Sound(work)'
  BY <1>7, <1>8
<1>10. Agreed'
  BY <1>1, <1>2, <1>7, <1>8 DEF IInv, Agreed
<1>11. StagesTrue'
  BY <1>2 DEF IInv, StagesTrue, Stages
<1> QED
  BY <1>3, <1>4, <1>9, <1>10, <1>11 DEF IInv

-----------------------------------------------------------------------------
(* The world.                                                              *)

\* A step of the chain or of Bybit.
LEMMA WorldKeeps ==
    ASSUME IInv, UNCHANGED <<db, work, pc, todo>>, ChainGrows, BybitGrows, WorldTrue', NetOnce'
    PROVE  IInv'
<1>1. PICK v, w : v = db /\ w = work
  OBVIOUS
<1>2. Sound(v)' /\ Sound(w)'
  BY <1>1, SoundStays DEF IInv
<1>3. Sound(db)' /\ Sound(work)'
  BY <1>1, <1>2
<1>4. Agreed' /\ StagesTrue'
  BY DEF IInv, Agreed, StagesTrue
<1> QED
  BY <1>3, <1>4 DEF IInv

\* A transaction is mined.
LEMMA MineKeeps ==
    ASSUME IInv, Mine
    PROVE  IInv'
<1>1. WorldTrue /\ NetOnce
  BY DEF IInv
<1>2. /\ txs' \in Seq(TxRows) /\ Len(txs') = Len(txs) /\ DOMAIN txs' = DOMAIN txs
      /\ \E n \in DOMAIN txs, result \in {"ok", "reverted"} :
            /\ txs[n].state = "pooled"
            /\ txs'[n].to = txs[n].to /\ txs'[n].state = result
            /\ \A m \in DOMAIN txs \ {n} : txs'[m] = txs[m]
      /\ ChainGrows
  BY <1>1, MinedOne
<1>3. UNCHANGED <<db, work, pc, todo, bybit>>
  BY DEF Mine
<1>4. Paying(Net) \subseteq Paying(Net)'
  BY <1>2, PayingGrows
<1>5. WorldTrue'
  BY <1>1, <1>2, <1>3, <1>4 DEF WorldTrue
<1>6. Sent(Net)' = Sent(Net) /\ (\A n \in Sent(Net) : txs'[n].state # "replaced")
  BY <1>1, <1>2 DEF Sent, NetOnce
<1>7. NetOnce'
  BY <1>1, <1>3, <1>6 DEF NetOnce
<1>8. BybitGrows
  BY <1>3 DEF BybitGrows
<1> QED
  BY <1>2, <1>3, <1>5, <1>7, <1>8, WorldKeeps

\* Bybit credits the deposit.
LEMMA CreditKeeps ==
    ASSUME IInv, Credit
    PROVE  IInv'
<1>1. WorldTrue /\ NetOnce
  BY DEF IInv
<1>2. PICK d \in {"pending", "fund", "unified", "failed"} \ {bybit.deposit} :
         bybit' = [bybit EXCEPT !.deposit = d]
  BY DEF Credit
<1>3. NetTx \in Having("ok") /\ bybit.deposit \in {"none", "pending"}
      /\ UNCHANGED <<db, work, pc, todo, txs>>
  BY DEF Credit
<1>4. NetTx \in Paying(Net)
  <2>1. NetTx \in DOMAIN txs /\ DOMAIN txs = 1 .. Len(txs) /\ Len(txs) \in Nat
    BY <1>1, <1>3 DEF Having, WorldTrue
  <2>2. NetTx \in Sent(Net)
    BY <2>1, NetNumber
  <2> QED
    BY <1>3, <2>2 DEF Sent, Paying
<1>5. Paying(Net)' = Paying(Net) /\ Sent(Net)' = Sent(Net) /\ ChainGrows
  BY <1>3 DEF Paying, Having, Sent, ChainGrows
<1>6. bybit'.transfer = bybit.transfer
      /\ bybit' \in [deposit : {"none", "pending", "fund", "unified", "failed"},
                     transfer : {"none", "pending", "success", "failed"}]
  BY <1>1, <1>2 DEF WorldTrue
<1>7. WorldTrue' /\ NetOnce' /\ BybitGrows
  BY <1>1, <1>3, <1>4, <1>5, <1>6 DEF WorldTrue, NetOnce, BybitGrows
<1> QED
  BY <1>3, <1>5, <1>7, WorldKeeps

\* The internal transfer ends.
LEMMA SettleTransferKeeps ==
    ASSUME IInv, SettleTransfer
    PROVE  IInv'
<1>1. WorldTrue /\ NetOnce
  BY DEF IInv
<1>2. PICK t \in {"success", "failed"} : bybit' = [bybit EXCEPT !.transfer = t]
  BY DEF SettleTransfer
<1>3. bybit.transfer = "pending" /\ UNCHANGED <<db, work, pc, todo, txs>>
  BY DEF SettleTransfer
<1>4. Paying(Net)' = Paying(Net) /\ Sent(Net)' = Sent(Net) /\ ChainGrows
  BY <1>3 DEF Paying, Having, Sent, ChainGrows
<1>5. bybit'.deposit = bybit.deposit
      /\ bybit' \in [deposit : {"none", "pending", "fund", "unified", "failed"},
                     transfer : {"none", "pending", "success", "failed"}]
  BY <1>1, <1>2 DEF WorldTrue
<1>6. WorldTrue' /\ NetOnce' /\ BybitGrows
  BY <1>1, <1>3, <1>4, <1>5 DEF WorldTrue, NetOnce, BybitGrows
<1> QED
  BY <1>3, <1>4, <1>6, WorldKeeps

-----------------------------------------------------------------------------
(* The invariant.                                                          *)

\* A batch that has just got its settlement wallet claims nothing.
LEMMA InitInv == Init => IInv
<1> SUFFICES ASSUME Init PROVE IInv
  OBVIOUS
<1>1. PICK cash \in {0, 1} :
         db = [status |-> "awaiting_positive_net_execution", cash |-> cash,
               rows |-> [o \in Redeems |-> [status |-> "none", tx |-> NoTx]], paidOut |-> FALSE,
               net |-> [status |-> "none", nonce |-> 0, tx |-> NoTx],
               deposited |-> FALSE, account |-> "none",
               posted |-> FALSE, internal |-> "none", done |-> FALSE]
  BY DEF Init
<1>2. work = db /\ pc = "idle" /\ todo = {} /\ txs = << >>
      /\ bybit = [deposit |-> "none", transfer |-> "none"]
  BY DEF Init
<1>3. db \in Books
  BY <1>1 DEF Books, BatchStatuses, Active
<1>4. /\ \A o \in Redeems : db.rows[o].status = "none" /\ db.rows[o].tx = NoTx
      /\ db.net.status = "none" /\ db.net.tx = NoTx /\ db.status # "pending_confirmation"
      /\ db.account = "none" /\ db.internal = "none"
      /\ db.paidOut = FALSE /\ db.deposited = FALSE /\ db.done = FALSE
  BY <1>1
<1>5. Sound(db)
  BY <1>3, <1>4 DEF Sound, RowsTrue, PayoutsTrue, NetTrue, BybitTrue
<1>6. WorldTrue /\ Sent(Net) = {}
  BY <1>2, PositiveNetAssumption DEF WorldTrue, Sent
<1>7. NetOnce /\ Agreed /\ StagesTrue
  BY <1>2, <1>6 DEF NetOnce, Agreed, StagesTrue, Stages
<1> QED
  BY <1>2, <1>5, <1>6, <1>7 DEF IInv

\* Every step of a pass, of the chain and of Bybit keeps the invariant.
LEMMA NextInv == IInv /\ [Next]_vars => IInv'
<1> SUFFICES ASSUME IInv, [Next]_vars PROVE IInv'
  OBVIOUS
<1>1. CASE Begin
  BY <1>1, BeginKeeps
<1>2. CASE Payouts
  <2>1. CASE PayoutsVisited
    BY <2>1, PayoutsVisitedKeeps
  <2>2. ASSUME NEW o \in Redeems, CheckPayout(o) \/ SendPayout(o)
        PROVE  IInv'
    BY <2>2, CheckPayoutKeeps, SendPayoutKeeps
  <2> QED
    BY <1>2, <2>1, <2>2 DEF Payouts
<1>3. CASE NetTransfer
  BY <1>3, SkipNetKeeps, CheckNetKeeps, PrepareNetKeeps, ResumeNetKeeps, BroadcastNetKeeps
  DEF NetTransfer
<1>4. CASE Deposit
  BY <1>4, ConfirmDepositKeeps, SkipTransferKeeps, QueryTransferKeeps, PostTransferKeeps
  DEF Deposit
<1>5. CASE Account
  BY <1>5, AccountKeeps
<1>10. CASE RefuseShares
  BY <1>10, RefuseSharesKeeps
<1>6. CASE Commit
  BY <1>6, CommitKeeps
<1>7. CASE Rollback
  BY <1>7, AbandonKeeps DEF Rollback
<1>8. CASE World
  BY <1>8, MineKeeps, CreditKeeps, SettleTransferKeeps DEF World
<1>9. CASE UNCHANGED vars
  <2>1. UNCHANGED <<db, work, pc, todo, txs, bybit>>
    BY <1>9 DEF vars
  <2>2. ChainGrows /\ BybitGrows /\ WorldTrue' /\ NetOnce'
    BY <2>1, Quiet
  <2> QED
    BY <2>1, <2>2, WorldKeeps
<1> QED
  BY <1>1, <1>2, <1>3, <1>4, <1>5, <1>6, <1>7, <1>8, <1>9, <1>10 DEF Next

\* The invariant holds in every state.
LEMMA Invariant == Spec => []IInv
BY InitInv, NextInv, PTL DEF Spec

-----------------------------------------------------------------------------
(* What follows from it.                                                   *)

\* The batch and its transfer rows have their types, in the session and in the
\* database, and a hash on record is that of a transaction to the payee of the row
\* (fund_settlement_transfers of payout_service and bybit_deposit_service).
THEOREM NetTypes == Spec => []TypeOK
<1>1. IInv => TypeOK
  <2> SUFFICES ASSUME IInv PROVE TypeOK
    OBVIOUS
  <2>1. db \in Books /\ work \in Books /\ pc \in Stages /\ todo \subseteq Redeems
    BY DEF IInv, Sound, StagesTrue
  <2>2. Len(txs) <= MaxSends /\ \A n \in DOMAIN txs : txs[n] \in TxRows
    BY DEF IInv, WorldTrue
  <2>3. bybit \in [deposit : {"none", "pending", "fund", "unified", "failed"},
                   transfer : {"none", "pending", "success", "failed"}]
    BY DEF IInv, WorldTrue
  <2>4. \A o \in Redeems :
           db.rows[o].tx # NoTx => db.rows[o].tx \in DOMAIN txs /\ txs[db.rows[o].tx].to = o
    BY DEF IInv, Sound, RowsTrue, Sent
  <2>5. db.net.tx # NoTx => db.net.tx \in DOMAIN txs /\ txs[db.net.tx].to = Net
    BY DEF IInv, Sound, NetTrue, Sent
  <2> QED
    BY <2>1, <2>2, <2>3, <2>4, <2>5 DEF TypeOK
<1> QED
  BY <1>1, Invariant, PTL

\* The net amount leaves the settlement wallet only when every seller has been paid,
\* whatever is rolled back, lost or sent again (process_positive_net_batch runs the
\* payout stage before the net transfer).
THEOREM NetLeavesLast == Spec => []NetAfterSellers
<1>1. IInv => NetAfterSellers
  <2> SUFFICES ASSUME IInv, NEW n \in DOMAIN txs, txs[n].to = Net
               PROVE  \A o \in Redeems : Paying(o) # {}
    BY DEF NetAfterSellers
  <2>1. Sent(Net) # {}
    BY DEF Sent
  <2>2. db.paidOut
    BY <2>1 DEF IInv, NetOnce, Sound, PayoutsTrue
  <2> QED
    BY <2>2 DEF IInv, Sound, PayoutsTrue
<1> QED
  BY <1>1, Invariant, PTL

\* The orders of a batch are settled only when all sellers are paid, exactly one net
\* transaction has succeeded and its amount is where the fund trades from
\* (finalize_positive_net_accounting, "Caller must call this only after").
THEOREM SettledAfterFunding == Spec => []SettledIsFunded
<1>1. IInv => SettledIsFunded
  <2> SUFFICES ASSUME IInv, db.done
               PROVE  /\ \A o \in Redeems : Paying(o) # {}
                      /\ db.cash > 0 => /\ Cardinality(Paying(Net)) = 1
                                        /\ bybit.deposit = "unified" \/ bybit.transfer = "success"
    BY DEF SettledIsFunded
  <2>1. Sound(db) /\ WorldTrue /\ NetOnce
    BY DEF IInv
  <2>2. db.paidOut /\ (db.cash > 0 => db.account # "none" /\ db.internal \in Ready)
    BY <2>1 DEF Sound, BybitTrue
  <2>3. \A o \in Redeems : Paying(o) # {}
    BY <2>1, <2>2 DEF Sound, PayoutsTrue
  <2>4. ASSUME db.cash > 0
        PROVE  /\ Cardinality(Paying(Net)) = 1
               /\ bybit.deposit = "unified" \/ bybit.transfer = "success"
    <3>1. db.account # "none" /\ bybit.deposit = db.account
      BY <2>1, <2>2, <2>4 DEF Sound, BybitTrue
    <3>2. PICK n : n \in Paying(Net)
      BY <2>1, <3>1 DEF WorldTrue
    <3>3. Paying(Net) = {n}
      BY <2>1, <3>2 DEF NetOnce, Paying, Sent, Having
    <3>4. Cardinality(Paying(Net)) = 1
      BY <3>3, FS_Singleton
    <3>5. bybit.deposit = "unified" \/ bybit.transfer = "success"
      BY <2>1, <2>2, <2>4, <3>1 DEF Sound, BybitTrue, Ready
    <3> QED
      BY <3>4, <3>5
  <2> QED
    BY <2>3, <2>4
<1> QED
  BY <1>1, Invariant, PTL

\* A batch that waits for the chain or for Bybit is past its payout stage, which would
\* refuse it (process_seller_payouts_for_batch): it can go on.
THEOREM WaitingCanGoOn == Spec => []WaitingIsPaidOut
<1>1. IInv => WaitingIsPaidOut
  BY DEF IInv, Sound, PayoutsTrue, WaitingIsPaidOut
<1> QED
  BY <1>1, Invariant, PTL

-----------------------------------------------------------------------------
(* The net transfer implements a durable intent.                           *)

\* What the chain has made of the net transfer.
Outcome ==
    IF Sent(Net) = {} \/ NetTx \in Having("pooled") THEN "none" ELSE txs[NetTx].state

Signed == db.net.status # "none"

Received == Sent(Net) # {}

Booked == db.net.status = "confirmed"

\* The outcome is that of the one net transaction.
LEMMA OutcomeIs ==
    ASSUME NetOnce
    PROVE  /\ ~Received => Outcome = "none"
           /\ \A n \in Sent(Net) : Outcome = IF txs[n].state = "pooled" THEN "none" ELSE txs[n].state
<1>1. \A n \in Sent(Net) : NetTx = n
  BY NetNumber DEF NetOnce
<1> QED
  BY <1>1 DEF Outcome, Received, Having, Sent

\* The same, after a step.
LEMMA OutcomeIsNext ==
    ASSUME NetOnce'
    PROVE  /\ ~Received' => Outcome' = "none"
           /\ \A n \in Sent(Net)' :
                 Outcome' = IF txs'[n].state = "pooled" THEN "none" ELSE txs'[n].state
<1>1. Sent(Net)' # {} => NetTx' \in Sent(Net)'
  BY DEF NetTx, Sent
<1>2. \A n \in Sent(Net)' : NetTx' = n
  BY <1>1 DEF NetOnce
<1> QED
  BY <1>2 DEF Outcome, Received, Having, Sent

\* What a step may do to the net transfer, apart from booking it.
NetStep ==
    \/ Signed' = Signed /\ Received' = Received /\ Outcome' = Outcome
    \/ ~Signed /\ Signed' /\ Received' = Received /\ Outcome' = Outcome
    \/ Signed /\ Signed' /\ Received' /\ Outcome' = Outcome
    \/ /\ Received /\ Outcome = "none"
       /\ Signed' = Signed /\ Received' = Received /\ Outcome' \in {"ok", "reverted"}

\* A step books the net transfer after its success, and for good.
BookStep == (Booked => Booked') /\ (Booked' /\ ~Booked => Received /\ Outcome = "ok")

\* What the chain knows of the net transfer is as before.
LEMMA ChainQuiet ==
    ASSUME NetOnce, NetOnce', UNCHANGED txs
    PROVE  Received' = Received /\ Outcome' = Outcome
<1>1. Sent(Net)' = Sent(Net)
  BY DEF Sent
<1>2. Received' = Received
  BY <1>1 DEF Received
<1>3. CASE Sent(Net) = {}
  BY <1>1, <1>3, OutcomeIs, OutcomeIsNext DEF Received
<1>4. CASE Sent(Net) # {}
  <2>1. PICK n : n \in Sent(Net)
    BY <1>4
  <2>2. n \in Sent(Net)' /\ txs'[n] = txs[n]
    BY <1>1, <2>1
  <2>3. Outcome' = Outcome
    BY <2>1, <2>2, OutcomeIs, OutcomeIsNext
  <2> QED
    BY <1>2, <2>3
<1> QED
  BY <1>2, <1>3, <1>4

\* The chain changes only by a send of this worker and by mining, the record of the
\* net transfer only at its preparation, its broadcast and a commit.
LEMMA NetSteps ==
    ASSUME IInv, IInv', [Next]_vars
    PROVE  NetStep /\ BookStep
<1>1. NetOnce /\ NetOnce' /\ WorldTrue
  BY DEF IInv
<1>2. CASE UNCHANGED <<db, txs>>
  BY <1>1, <1>2, ChainQuiet DEF NetStep, BookStep, Signed, Booked
<1>3. CASE Commit
  <2>1. UNCHANGED txs /\ db' = work /\ pc # "idle"
    BY <1>3 DEF Commit
  <2>2. Received' = Received /\ Outcome' = Outcome
    BY <1>1, <2>1, ChainQuiet
  <2>3. Signed' = Signed /\ (Booked => Booked')
    BY <2>1 DEF IInv, Agreed, Signed, Booked
  <2>4. ASSUME Booked' PROVE Received /\ Outcome = "ok"
    <3>1. work.net.tx \in Paying(Net)
      BY <2>1, <2>4 DEF Booked, IInv, Sound, NetTrue
    <3>2. work.net.tx \in Sent(Net) /\ txs[work.net.tx].state = "ok"
      BY <3>1 DEF Paying, Sent, Having
    <3> QED
      BY <1>1, <3>2, OutcomeIs DEF Received
  <2> QED
    BY <2>2, <2>3, <2>4 DEF NetStep, BookStep
<1>4. CASE PrepareNet
  <2>1. UNCHANGED txs /\ db' = work' /\ pc' = "broadcast" /\ pc = "net" /\ work.net.status = "none"
    BY <1>4 DEF PrepareNet
  <2>2. Received' = Received /\ Outcome' = Outcome
    BY <1>1, <2>1, ChainQuiet
  <2>3. db.net.status = "none" /\ db'.net.status \in {"prepared", "processing"}
    BY <2>1 DEF IInv, StagesTrue
  <2> QED
    BY <2>2, <2>3 DEF NetStep, BookStep, Signed, Booked
<1>5. CASE BroadcastNet
  <2>1. pc = "broadcast"
    BY <1>5 DEF BroadcastNet
  <2>2. db.net.status \in {"prepared", "processing"} /\ work \in Books
    BY <2>1 DEF IInv, StagesTrue, Sound
  <2>3. db'.net.status \in {"sent", "processing"}
    <3>1. \/ db' = [work EXCEPT !.net.status = "sent", !.net.tx = NetTx]
          \/ db' = [work EXCEPT !.net.status = "processing"]
      BY <1>5 DEF BroadcastNet, WithNet
    <3>2. PICK t, w : t = NetTx /\ w = work
      OBVIOUS
    <3>3. [w EXCEPT !.net.status = "sent", !.net.tx = t].net.status = "sent"
          /\ [w EXCEPT !.net.status = "processing"].net.status = "processing"
      BY <2>2, <3>2 DEF Books
    <3> QED
      BY <3>1, <3>2, <3>3
  <2>4. Signed /\ Signed' /\ BookStep
    BY <2>2, <2>3 DEF Signed, BookStep, Booked
  <2>5. CASE UNCHANGED txs
    BY <1>1, <2>4, <2>5, ChainQuiet DEF NetStep
  <2>6. CASE txs' # txs
    <3>1. Delivered /\ NetTx \notin DOMAIN txs /\ Accept(Net, work.net.nonce)
      BY <1>5, <2>6 DEF BroadcastNet, Delivered
    <3>2. Sent(Net) = {}
      BY <3>1, NetNumber DEF Sent
    <3>3. work.net.nonce \in Nat /\ Net \in Payees
      BY <2>2 DEF Books, Payees
    <3>4. txs'[Len(txs) + 1].state = "pooled"
      BY <1>1, <3>1, <3>3, Accepted
    <3>5. Len(txs) + 1 \in Sent(Net)'
      BY <1>5, <3>1, <3>2, <3>3, AcceptKeeps DEF BroadcastNet
    <3>6. Received' /\ Outcome' = Outcome
      BY <1>1, <3>2, <3>4, <3>5, OutcomeIs, OutcomeIsNext DEF Received
    <3> QED
      BY <2>4, <3>6 DEF NetStep
  <2> QED
    BY <2>5, <2>6
<1>6. ASSUME NEW o \in Redeems, SendPayout(o)
      PROVE  NetStep /\ BookStep
  <2>1. /\ pc = "payouts" /\ Accept(o, MinedNonce) /\ UNCHANGED <<db, bybit>>
    BY <1>6 DEF SendPayout, Visiting, Payable, Visited, Go, Abandon
  <2>2. Sent(Net) = {}
    BY <2>1 DEF IInv, StagesTrue, NetOnce, Sound, PayoutsTrue
  <2>3. MinedNonce \in Nat /\ o \in Payees /\ o # Net
    BY <1>1, Nonces, PositiveNetAssumption DEF Payees, Net
  <2>4. Sent(Net)' = {}
    BY <2>1, <2>2, <2>3, AcceptKeeps
  <2>5. ~Received /\ ~Received' /\ Outcome' = Outcome
    BY <1>1, <2>2, <2>4, OutcomeIs, OutcomeIsNext DEF Received
  <2>6. Received' = Received /\ Signed' = Signed /\ (Booked' <=> Booked)
    BY <2>1, <2>5 DEF Signed, Booked, Received
  <2> QED
    BY <2>5, <2>6 DEF NetStep, BookStep
<1>7. CASE Mine
  <2>1. UNCHANGED db
    BY <1>7 DEF Mine
  <2>2. /\ DOMAIN txs' = DOMAIN txs
        /\ \E n \in DOMAIN txs, result \in {"ok", "reverted"} :
              /\ txs[n].state = "pooled"
              /\ txs'[n].to = txs[n].to /\ txs'[n].state = result
              /\ \A m \in DOMAIN txs \ {n} : txs'[m] = txs[m]
    BY <1>1, <1>7, MinedOne
  <2>3. Sent(Net)' = Sent(Net)
    BY <2>2 DEF Sent
  <2>4. Signed' = Signed /\ Received' = Received /\ BookStep
    BY <2>1, <2>3 DEF Signed, Received, BookStep, Booked
  <2>5. CASE Sent(Net) = {}
    BY <1>1, <2>3, <2>4, <2>5, OutcomeIs, OutcomeIsNext DEF NetStep, Received
  <2>6. CASE Sent(Net) # {}
    <3>1. PICK n : n \in Sent(Net)
      BY <2>6
    <3>2. /\ Outcome = IF txs[n].state = "pooled" THEN "none" ELSE txs[n].state
          /\ Outcome' = IF txs'[n].state = "pooled" THEN "none" ELSE txs'[n].state
      BY <1>1, <2>3, <3>1, OutcomeIs, OutcomeIsNext
    <3>3. n \in DOMAIN txs
      BY <3>1 DEF Sent
    <3>4. \/ txs[n].state = "pooled" /\ txs'[n].state \in {"ok", "reverted"}
          \/ txs'[n] = txs[n]
      BY <2>2, <3>3
    <3> QED
      BY <2>4, <2>6, <3>2, <3>4 DEF NetStep, Received
  <2> QED
    BY <2>5, <2>6
<1>8. [Next]_vars => \/ UNCHANGED <<db, txs>>
                     \/ Commit \/ PrepareNet \/ BroadcastNet \/ Mine
                     \/ \E o \in Redeems : SendPayout(o)
  <2>1. Begin \/ PayoutsVisited \/ (\E o \in Redeems : CheckPayout(o)) => UNCHANGED <<db, txs>>
    BY DEF Begin, PayoutsVisited, CheckPayout, Visited, End, Go
  <2>2. SkipNet \/ CheckNet \/ ResumeNet \/ Account \/ RefuseShares \/ Rollback
           => UNCHANGED <<db, txs>>
    BY DEF SkipNet, CheckNet, ResumeNet, Account, RefuseShares, Rollback, Abandon, End, Go
  <2>3. Deposit => UNCHANGED <<db, txs>>
    BY DEF Deposit, ConfirmDeposit, SkipTransfer, QueryTransfer, PostTransfer, Abandon, End, Go
  <2>4. Credit \/ SettleTransfer \/ UNCHANGED vars => UNCHANGED <<db, txs>>
    BY DEF Credit, SettleTransfer, vars
  <2> QED
    BY <2>1, <2>2, <2>3, <2>4 DEF Next, Payouts, NetTransfer, World
<1> QED
  BY <1>2, <1>3, <1>4, <1>5, <1>6, <1>7, <1>8

\* Every step is one of the intent, or leaves it alone.
LEMMA IntentStep ==
    ASSUME IInv, IInv', [Next]_vars
    PROVE  Intent!Next
<1> DEFINE S == [p \in {Net} |-> IF db.net.status = "none" THEN 0 ELSE 1]
           R == IF Sent(Net) = {} THEN {} ELSE {Net}
           F == [p \in {Net} |-> IF Sent(Net) = {} \/ NetTx \in Having("pooled") THEN "none"
                                 ELSE txs[NetTx].state]
           C == IF db.net.status = "confirmed" THEN {Net} ELSE {}
<1>1. /\ S = [p \in {Net} |-> IF Signed THEN 1 ELSE 0]
      /\ R = (IF Received THEN {Net} ELSE {})
      /\ F = [p \in {Net} |-> Outcome]
      /\ C = (IF Booked THEN {Net} ELSE {})
  BY DEF Signed, Received, Outcome, Booked
<1>2. /\ S' = [p \in {Net} |-> IF Signed' THEN 1 ELSE 0]
      /\ R' = (IF Received' THEN {Net} ELSE {})
      /\ F' = [p \in {Net} |-> Outcome']
      /\ C' = (IF Booked' THEN {Net} ELSE {})
  BY DEF Signed, Received, Outcome, Booked
<1> HIDE DEF S, R, F, C
<1>3. NetStep /\ BookStep
  BY NetSteps
<1>4. C \subseteq C' /\ \A p \in C' \ C : F[p] = "ok"
  BY <1>1, <1>2, <1>3 DEF BookStep
<1>5. \/ S' = S /\ R' = R /\ F' = F
      \/ S[Net] = 0 /\ S' = [S EXCEPT ![Net] = 1] /\ R' = R /\ F' = F
      \/ S[Net] = 1 /\ R' = R \cup {Net} /\ S' = S /\ F' = F
      \/ /\ Net \in R /\ F[Net] = "none" /\ S' = S /\ R' = R
         /\ \E r \in {"ok", "reverted"} : F' = [F EXCEPT ![Net] = r]
  <2>1. CASE Signed' = Signed /\ Received' = Received /\ Outcome' = Outcome
    BY <1>1, <1>2, <2>1
  <2>2. CASE ~Signed /\ Signed' /\ Received' = Received /\ Outcome' = Outcome
    BY <1>1, <1>2, <2>2
  <2>3. CASE Signed /\ Signed' /\ Received' /\ Outcome' = Outcome
    BY <1>1, <1>2, <2>3
  <2>4. CASE /\ Received /\ Outcome = "none"
             /\ Signed' = Signed /\ Received' = Received /\ Outcome' \in {"ok", "reverted"}
    BY <1>1, <1>2, <2>4
  <2> QED
    BY <1>3, <2>1, <2>2, <2>3, <2>4 DEF NetStep
<1> USE DEF S, R, F, C
<1>6. Intent!Book
  BY <1>4 DEF Intent!Book
<1>7. \/ UNCHANGED <<S, R, F>>
      \/ \E p \in {Net} : Intent!Sign(p) \/ Intent!Broadcast(p) \/ Intent!Mine(p)
  BY <1>5 DEF Intent!Sign, Intent!Broadcast, Intent!Mine, Intent!Results
<1> QED
  BY <1>6, <1>7 DEF Intent!Next

\* The net transfer keeps the promise of TransferIntent: it is signed once, on record
\* before the chain can receive it, and booked only after it has succeeded.
THEOREM NetIntentKept == Spec => NetKeepsIntent
<1>1. Init => Intent!Init
  <2> SUFFICES ASSUME Init PROVE Intent!Init
    OBVIOUS
  <2>1. db.net.status = "none" /\ Sent(Net) = {}
    BY DEF Init, Sent
  <2> QED
    BY <2>1 DEF Intent!Init
<1>2. IInv /\ IInv' /\ [Next]_vars => [Intent!Next]_(Intent!avars)
  BY IntentStep
<1> QED
  BY <1>1, <1>2, Invariant, PTL DEF Spec, NetKeepsIntent, Intent!Spec
=============================================================================
