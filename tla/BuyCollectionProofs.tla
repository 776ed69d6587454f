------------------------ MODULE BuyCollectionProofs ------------------------
(***************************************************************************)
(* Proofs about BuyCollection, for every set of orders and collectors,     *)
(* every wallet and every combination of faults; and, at the end, what     *)
(* holds besides when a single collector works without the confirmation    *)
(* worker.                                                                 *)
(***************************************************************************)
EXTENDS BuyCollection, TLAPS

-----------------------------------------------------------------------------
(* Lemmas about the operators of a visit.                                  *)

\* A visit leaves a well-formed order row.
LEMMA OrderAfterType ==
    ASSUME TypeOK, NEW o \in Orders, NEW k \in Outcome, NEW s \in OrderRow
    PROVE  OrderAfter(o, k, s) \in OrderRow
BY DEF TypeOK, OrderAfter, OrderRow, OrderStatus, Releasable, Traceless, Outcome

\* A debit is only made when the wallet can pay it, so no reserve and no
\* balance goes below zero.
LEMMA WalletAfterType ==
    ASSUME TypeOK, NEW o \in Orders, NEW k \in Outcome, NEW s \in OrderRow,
           k = "collect" => Solvent(o)
    PROVE  WalletAfter(o, k, s) \in WalletRow
<1> DEFINE w == wallet[o]
<1>1. w \in [reserved : Nat, balance : Nat]
  BY DEF TypeOK, WalletRow
<1>2. CASE k = "collect"
  <2>1. w.reserved - 1 \in Nat /\ w.balance - 1 \in Nat
    BY <1>1, <1>2 DEF Solvent
  <2> QED
    BY <1>2, <2>1 DEF WalletAfter, WalletRow
<1>3. CASE k = "fail" /\ Releasable(o, s)
  <2>1. w.reserved - 1 \in Nat
    BY <1>1, <1>3 DEF Releasable
  <2>2. WalletAfter(o, k, s) = [w EXCEPT !.reserved = @ - 1]
    BY <1>3 DEF WalletAfter
  <2> QED
    BY <1>1, <2>1, <2>2 DEF WalletRow
<1>4. CASE k # "collect" /\ ~(k = "fail" /\ Releasable(o, s))
  BY <1>1, <1>4 DEF WalletAfter, WalletRow
<1> QED
  BY <1>2, <1>3, <1>4

\* A visit collects only from a solvent wallet, for a mined transfer.
LEMMA QuietCollects ==
    ASSUME NEW o \in Orders, NEW s, "collect" \in Quiet(o, s)
    PROVE  Solvent(o) /\ Done(<<o, "usdt">>)
BY DEF Quiet

\* Signing, recording and refreshing a transfer leave a well-formed row.
LEMMA XferRows ==
    ASSUME TypeOK, NEW x \in Xfers
    PROVE  /\ Recorded(x) \in XferRow
           /\ Signed(x) \in XferRow
           /\ Touched(x) \in XferRow
<1> DEFINE r == xfer[x]
<1>1. r \in [st : XferStatus, raw : Nat, hash : BOOLEAN]
  BY DEF TypeOK, XferRow
<1>2. Recorded(x) \in XferRow
  BY <1>1 DEF Recorded, XferRow, XferStatus
<1>3. Touched(x) \in XferRow
  BY <1>1 DEF Touched, XferRow, XferStatus
<1>4. Signed(x) \in XferRow
  <2>1. r.raw + 1 \in Nat
    BY <1>1
  <2>2. [r EXCEPT !.raw = @ + 1, !.st = "prepared"] \in XferRow
    BY <1>1, <2>1 DEF XferRow, XferStatus
  <2> QED
    BY <1>1, <2>2 DEF Signed, XferRow
<1> QED
  BY <1>2, <1>3, <1>4

\* At most one order commits in a stretch.
LEMMA ReceiveType ==
    ASSUME TypeOK, NEW got, Receive(got)
    PROVE  delivered' \in [Xfers -> SUBSET Nat]
<1>1. \A x \in Xfers : xfer[x].raw \in Nat
  BY DEF TypeOK, XferRow
<1> QED
  BY <1>1 DEF TypeOK, Receive

-----------------------------------------------------------------------------
(* What a step may do to the intents, the chain and the bookings.          *)

Same(x) ==
    /\ xfer'[x].raw = xfer[x].raw
    /\ delivered'[x] = delivered[x]
    /\ fate'[x] = fate[x]

Signs(x) ==
    /\ xfer[x].raw = 0 /\ xfer'[x].raw = 1
    /\ x[2] = "usdt" => GasReady(x[1])
    /\ delivered'[x] = delivered[x]
    /\ fate'[x] = fate[x]

Sends(x) ==
    /\ xfer[x].raw # 0 /\ xfer'[x].raw = xfer[x].raw
    /\ delivered'[x] = delivered[x] \cup {xfer[x].raw}
    /\ fate'[x] = fate[x]

Settles(x) ==
    /\ delivered[x] # {} /\ fate[x] = "none" /\ fate'[x] \in {"ok", "reverted"}
    /\ xfer'[x].raw = xfer[x].raw
    /\ delivered'[x] = delivered[x]

LedgerStep ==
    /\ \A x \in Xfers : Same(x) \/ Signs(x) \/ Sends(x) \/ Settles(x)
    /\ \A x, y \in Xfers : Same(x) \/ Same(y) \/ x = y
    /\ \A x \in Xfers : xfer'[x].hash => xfer[x].hash \/ delivered'[x] # {}
    /\ \A x \in Xfers : xfer'[x].st = "confirmed" => xfer[x].st = "confirmed" \/ Mined(x)
    /\ \A o \in Orders : ord[o].collected => ord'[o].collected
    /\ \A o \in Orders : ord'[o].collected => ord[o].collected \/ Done(<<o, "usdt">>)

PassStep(c) ==
    /\ \/ pc'[c] \in {"idle", "loop"}
       \/ pc'[c] = "broadcast" /\ cur'[c] \in Xfers /\ xfer'[cur'[c]].raw # 0
    /\ \A d \in Collectors \ {c} : pc'[d] = pc[d] /\ cur'[d] = cur[d]

-----------------------------------------------------------------------------
(* Type correctness.                                                       *)

\* A stretch of a collection pass keeps the types, signs or sends at most one
\* transaction, and books only what the chain has confirmed.
LEMMA StretchStep ==
    ASSUME TypeOK, NEW c \in Collectors, NEW T \in SUBSET Orders,
           NEW V \in [Orders -> OrderRow], NEW vb \in BatchStatus,
           NEW st \in BatchStatus, Stretch(c, T, V, vb, st)
    PROVE  TypeOK' /\ LedgerStep /\ PassStep(c)
<1>1. PICK P \in Prefixes(T) : \E out \in [P -> Outcome] :
      \E K \in {{}} \cup {{x} : x \in First(T \ P) \X Kinds} :
      \E gk \in Broadcast(K \ Fresh(K)) :
          StretchBy(c, T, V, vb, st, P, out, K, gk[1], gk[2])
  BY DEF Stretch
<1>2. PICK out \in [P -> Outcome] :
      \E K \in {{}} \cup {{x} : x \in First(T \ P) \X Kinds} :
      \E gk \in Broadcast(K \ Fresh(K)) :
          StretchBy(c, T, V, vb, st, P, out, K, gk[1], gk[2])
  BY <1>1
<1>3. PICK K \in {{}} \cup {{x} : x \in First(T \ P) \X Kinds} :
      \E gk \in Broadcast(K \ Fresh(K)) :
          StretchBy(c, T, V, vb, st, P, out, K, gk[1], gk[2])
  BY <1>2
<1>4. PICK gk \in Broadcast(K \ Fresh(K)) :
          StretchBy(c, T, V, vb, st, P, out, K, gk[1], gk[2])
  BY <1>3
<1> DEFINE got == gk[1]
           known == gk[2]
<1>5. /\ P \subseteq T
      /\ known \subseteq got
      /\ got \subseteq K \ Fresh(K)
  BY DEF Prefixes, Broadcast
<1>6. K = {} \/ \E x \in Xfers : K = {x}
  <2>1. ASSUME NEW x \in First(T \ P) \X Kinds
        PROVE  x \in Xfers
    BY DEF First, Xfers
  <2> QED
    BY <2>1
<1>7. /\ Visits(c, T, V, P, out, K)
      /\ Receive(got)
      /\ RowsAfter(V, P, out, K, known)
      /\ PassAfter(c, T, P, out, K, vb, st)
      /\ cur' = [cur EXCEPT ![c] = IF Fresh(K) = {} THEN NoXfer
                                   ELSE CHOOSE x \in Fresh(K) : TRUE]
      /\ view' = [view EXCEPT ![c] = NoView]
      /\ vbatch' = [vbatch EXCEPT ![c] = "collecting"]
      /\ UNCHANGED <<pricing, fate, cand>>
  BY <1>4 DEF StretchBy
<1> HIDE DEF got, known
<1>8. P \subseteq Orders /\ K \subseteq Xfers
  BY <1>5, <1>6
<1>9. xfer' \in [Xfers -> XferRow]
  <2>1. \A x \in Xfers : xfer[x] \in XferRow
    BY DEF TypeOK
  <2> QED
    BY <1>7, <2>1, XferRows DEF RowsAfter
<1>10. ord' \in [Orders -> OrderRow]
  <2>1. \A o \in P : OrderAfter(o, out[o], V[o]) \in OrderRow
    BY <1>5, <1>8, OrderAfterType
  <2>2. \A o \in Orders : OrderAfter(o, "wait", V[o]) \in OrderRow
    BY OrderAfterType DEF Outcome
  <2>3. \A o \in Orders : ord[o] \in OrderRow
    BY DEF TypeOK
  <2> QED
    BY <1>7, <2>1, <2>2, <2>3 DEF RowsAfter
<1>11. wallet' \in [Orders -> WalletRow]
  <2>1. ASSUME NEW o \in P
       PROVE  WalletAfter(o, out[o], V[o]) \in WalletRow
    <3>1. out[o] = "collect" => Solvent(o)
      BY <1>7, <1>8, <2>1, QuietCollects DEF Visits
    <3> QED
      BY <1>5, <1>8, <2>1, <3>1, WalletAfterType
  <2>2. \A o \in Orders : wallet[o] \in WalletRow
    BY DEF TypeOK
  <2> QED
    BY <1>7, <2>1, <2>2 DEF RowsAfter
<1>12. batch' \in BatchStatus
  <2>1. Result(c, P, out) \in BatchStatus
    BY DEF Result, BatchStatus
  <2> QED
    BY <1>7, <2>1 DEF PassAfter
<1>13. /\ pc' \in [Collectors -> {"idle", "scanned", "loop", "loaded", "broadcast", "record"}]
      /\ todo' \in [Collectors -> SUBSET Orders]
  <2> DEFINE rest == T \ (P \cup {x[1] : x \in K})
  <2>1. rest \in SUBSET Orders /\ {} \in SUBSET Orders
    OBVIOUS
  <2>2. \/ pc' = [pc EXCEPT ![c] = "idle"] /\ todo' = [todo EXCEPT ![c] = {}]
        \/ /\ \E s \in {"loop", "broadcast"} : pc' = [pc EXCEPT ![c] = s]
           /\ todo' = [todo EXCEPT ![c] = rest]
    BY <1>7 DEF PassAfter
  <2> HIDE DEF rest
  <2> QED
    BY <2>1, <2>2 DEF TypeOK
<1>14. pend' \in [Collectors -> BOOLEAN] /\ bad' \in [Collectors -> BOOLEAN]
  <2>1. Fails(c, P, out) \in BOOLEAN
    BY DEF Fails, TypeOK
  <2> QED
    BY <1>7, <2>1 DEF PassAfter, TypeOK
<1>15. cur' \in [Collectors -> Xfers \cup {NoXfer}]
  <2>1. Fresh(K) # {} => (CHOOSE x \in Fresh(K) : TRUE) \in Fresh(K)
    OBVIOUS
  <2>2. Fresh(K) \subseteq Xfers
    BY <1>8 DEF Fresh
  <2>3. (IF Fresh(K) = {} THEN NoXfer ELSE CHOOSE x \in Fresh(K) : TRUE)
           \in Xfers \cup {NoXfer}
    BY <2>1, <2>2
  <2> QED
    BY <1>7, <2>3 DEF TypeOK
<1>16. view' \in [Collectors -> [Orders -> OrderRow]] /\ vbatch' \in [Collectors -> BatchStatus]
  <2>1. NoView \in [Orders -> OrderRow] /\ "collecting" \in BatchStatus
    BY DEF NoView, FreshOrder, OrderRow, OrderStatus, BatchStatus
  <2> QED
    BY <1>7, <2>1 DEF TypeOK
<1>17. delivered' \in [Xfers -> SUBSET Nat]
  BY <1>7, ReceiveType
<1>18. TypeOK'
  BY <1>7, <1>9, <1>10, <1>11, <1>12, <1>13, <1>14, <1>15, <1>16, <1>17 DEF TypeOK
<1>19. ASSUME NEW x \in Xfers, x \notin K
       PROVE  /\ Same(x)
              /\ xfer'[x].hash => xfer[x].hash
              /\ xfer'[x].st = "confirmed" => xfer[x].st = "confirmed" \/ Mined(x)
  <2>1. xfer'[x] = Touched(x) \/ xfer'[x] = xfer[x]
    BY <1>5, <1>7, <1>19 DEF RowsAfter
  <2>2. delivered'[x] = delivered[x] /\ fate'[x] = fate[x]
    BY <1>5, <1>7, <1>19 DEF Receive
  <2>3. xfer[x] \in XferRow
    BY DEF TypeOK
  <2> QED
    BY <2>1, <2>2, <2>3 DEF Same, Touched, XferRow
<1>20. ASSUME NEW x \in Xfers, x \in K
       PROVE  /\ Same(x) \/ Signs(x) \/ Sends(x)
              /\ xfer'[x].hash => xfer[x].hash \/ delivered'[x] # {}
              /\ xfer'[x].st = "confirmed" => xfer[x].st = "confirmed"
              /\ x \in Fresh(K) => xfer'[x].raw # 0
  <2>1. xfer[x] \in XferRow
    BY DEF TypeOK
  <2>2. xfer'[x] = (IF x \in known THEN Recorded(x) ELSE Signed(x))
    BY <1>7, <1>20 DEF RowsAfter
  <2>3. /\ delivered'[x] = IF x \in got THEN delivered[x] \cup {xfer[x].raw} ELSE delivered[x]
        /\ fate'[x] = fate[x]
    BY <1>7 DEF Receive
  <2>4. CASE x \in Fresh(K)
    <3>1. x \notin got /\ x \notin known /\ xfer[x].raw = 0
      BY <1>5, <2>4 DEF Fresh, Unprepared
    <3>2. x[2] = "usdt" => GasReady(x[1])
      BY <1>7, <1>20 DEF Visits, Broadcasts
    <3>3. xfer'[x] = [xfer[x] EXCEPT !.raw = @ + 1, !.st = "prepared"]
      BY <2>2, <3>1 DEF Signed, Unprepared
    <3>4. xfer'[x].raw = 1 /\ xfer'[x].hash = xfer[x].hash /\ xfer'[x].st = "prepared"
      BY <2>1, <3>1, <3>3 DEF XferRow
    <3> QED
      BY <2>3, <3>1, <3>2, <3>4 DEF Signs
  <2>5. CASE x \notin Fresh(K)
    <3>1. xfer[x].raw # 0
      BY <1>20, <2>5 DEF Fresh, Unprepared
    <3>2. xfer'[x] = (IF x \in known THEN Recorded(x) ELSE xfer[x])
      BY <2>2, <3>1 DEF Signed, Unprepared
    <3>3. xfer'[x].raw = xfer[x].raw
      BY <2>1, <3>2 DEF Recorded, XferRow
    <3>4. Same(x) \/ Sends(x)
      BY <2>3, <3>1, <3>3 DEF Same, Sends
    <3>5. /\ xfer'[x].hash => xfer[x].hash \/ delivered'[x] # {}
          /\ xfer'[x].st = "confirmed" => xfer[x].st = "confirmed"
      BY <1>5, <2>1, <2>3, <3>2 DEF Recorded, XferRow
    <3> QED
      BY <2>5, <3>4, <3>5
  <2> QED
    BY <2>4, <2>5
<1>21. ASSUME NEW o \in Orders
       PROVE  /\ ord[o].collected => ord'[o].collected
              /\ ord'[o].collected => ord[o].collected \/ Done(<<o, "usdt">>)
  <2>1. ord[o] \in OrderRow
    BY DEF TypeOK
  <2>2. CASE o \in P
    <3>1. ord'[o] = OrderAfter(o, out[o], V[o])
      BY <1>7, <2>2 DEF RowsAfter
    <3>2. out[o] = "collect" => Done(<<o, "usdt">>)
      BY <1>7, <2>2, QuietCollects DEF Visits
    <3> QED
      BY <2>1, <3>1, <3>2 DEF OrderAfter, OrderRow
  <2>3. CASE o \notin P
    <3>1. ord'[o] = OrderAfter(o, "wait", V[o]) \/ ord'[o] = ord[o]
      BY <1>7, <2>3 DEF RowsAfter
    <3> QED
      BY <2>1, <3>1 DEF OrderAfter, OrderRow
  <2> QED
    BY <2>2, <2>3
<1>22. LedgerStep
  <2>1. \A x, y \in Xfers : x \in K /\ y \in K => x = y
    BY <1>6
  <2> QED
    BY <1>19, <1>20, <1>21, <2>1 DEF LedgerStep
<1>23. PassStep(c)
  <2>1. \A d \in Collectors \ {c} : pc'[d] = pc[d] /\ cur'[d] = cur[d]
    BY <1>7 DEF PassAfter, TypeOK
  <2>2. CASE Fresh(K) = {}
    BY <1>7, <2>1, <2>2 DEF PassAfter, PassStep, TypeOK
  <2>3. CASE Fresh(K) # {}
    <3>1. (CHOOSE x \in Fresh(K) : TRUE) \in Fresh(K)
      BY <2>3
    <3>2. cur'[c] \in Fresh(K) /\ K # {}
      BY <1>7, <2>3, <3>1 DEF TypeOK, Fresh
    <3>3. cur'[c] \in Xfers /\ cur'[c] \in K
      BY <1>8, <3>2 DEF Fresh
    <3>4. xfer'[cur'[c]].raw # 0
      BY <1>20, <3>2, <3>3
    <3>5. pc'[c] = "broadcast"
      BY <1>7, <2>3, <3>2 DEF PassAfter, TypeOK
    <3> QED
      BY <2>1, <3>3, <3>4, <3>5 DEF PassStep
  <2> QED
    BY <2>2, <2>3
<1> QED
  BY <1>18, <1>22, <1>23

\* The initial state is well typed.
LEMMA InitType == Init => TypeOK
<1> SUFFICES ASSUME Init PROVE TypeOK
  OBVIOUS
<1>1. ord \in [Orders -> OrderRow] /\ NoView \in [Orders -> OrderRow]
  BY DEF Init, NoView, FreshOrder, OrderRow, OrderStatus
<1>2. xfer \in [Xfers -> XferRow]
  BY DEF Init, XferRow, XferStatus
<1>3. wallet \in [Orders -> WalletRow]
  BY BuyCollectionAssumption DEF Init, WalletRow
<1> QED
  BY <1>1, <1>2, <1>3 DEF Init, TypeOK, BatchStatus

\* A step of a collector other than a stretch, given that its open broadcast has
\* a signed transaction.
LEMMA CollectorKeeps ==
    ASSUME TypeOK, NEW c \in Collectors, CollectorStep(c),
           pc[c] \in {"broadcast", "record"} => cur[c] \in Xfers /\ xfer[cur[c]].raw # 0,
           pc[c] = "record" => delivered[cur[c]] # {}
    PROVE  /\ TypeOK' /\ LedgerStep
           /\ \A d \in Collectors \ {c} : pc'[d] = pc[d] /\ cur'[d] = cur[d]
           /\ \/ PassStep(c)
              \/ pc'[c] = "scanned" \/ pc'[c] = "loaded"
              \/ /\ pc'[c] = "record" /\ cur'[c] = cur[c] /\ pc[c] = "broadcast"
                 /\ delivered'[cur[c]] # {} /\ xfer' = xfer
<1>0. \A x \in Xfers : xfer[x] \in XferRow
  BY DEF TypeOK
<1>00. \A o \in Orders : ord[o] \in OrderRow
  BY DEF TypeOK
<1>1. CASE Scan(c)
  BY <1>1 DEF Scan, TypeOK, LedgerStep, Same, rows, chain
<1>2. CASE StartScanned(c)
  <2> DEFINE T == {o \in Orders : ord[o].st \in ActiveBuy}
  <2>1. Stretch(c, T, ord, "collecting", "collecting")
    BY <1>2 DEF StartScanned
  <2>2. T \in SUBSET Orders /\ "collecting" \in BatchStatus /\ ord \in [Orders -> OrderRow]
    BY DEF BatchStatus, TypeOK
  <2> HIDE DEF T
  <2> QED
    BY <2>1, <2>2, StretchStep DEF PassStep
<1>3. CASE Reload(c)
  BY <1>3 DEF Reload, TypeOK, LedgerStep, Same, rows, chain
<1>4. CASE Continue(c)
  <2>1. Stretch(c, todo[c], view[c], vbatch[c], batch)
    BY <1>4 DEF Continue
  <2>2. /\ todo[c] \in SUBSET Orders /\ view[c] \in [Orders -> OrderRow]
        /\ vbatch[c] \in BatchStatus /\ batch \in BatchStatus
    BY DEF TypeOK
  <2> QED
    BY <2>1, <2>2, StretchStep DEF PassStep
<1>5. CASE Finish(c)
  <2>1. batch' \in BatchStatus
    BY <1>5 DEF Finish, BatchStatus
  <2> QED
    BY <1>5, <2>1 DEF Finish, TypeOK, LedgerStep, Same, chain, PassStep
<1>6. CASE AlreadySent(c)
  BY <1>6 DEF AlreadySent, TypeOK, LedgerStep, Same, rows, chain, PassStep
<1>7. CASE Deliver(c)
  <2>1. delivered' \in [Xfers -> SUBSET Nat]
    BY <1>7, ReceiveType DEF Deliver
  <2>2. TypeOK'
    BY <1>7, <2>1 DEF Deliver, TypeOK, rows
  <2>3. cur[c] \in Xfers /\ xfer[cur[c]].raw # 0
    BY <1>7 DEF Deliver
  <2>4. Sends(cur[c]) /\ \A x \in Xfers \ {cur[c]} : Same(x)
    BY <1>7, <2>3 DEF Deliver, Receive, Sends, Same, rows
  <2>5. LedgerStep
    BY <1>7, <2>4 DEF Deliver, LedgerStep, rows
  <2>6. delivered'[cur[c]] # {}
    BY <2>3, <2>4 DEF Sends
  <2> QED
    BY <1>7, <2>2, <2>5, <2>6 DEF Deliver, TypeOK, rows
<1>8. CASE Record(c)
  <2>1. cur[c] \in Xfers /\ delivered[cur[c]] # {}
    BY <1>8 DEF Record
  <2>2. Recorded(cur[c]) \in XferRow
    BY <2>1, XferRows
  <2>3. TypeOK'
    BY <1>8, <2>2 DEF Record, TypeOK, chain
  <2>4. xfer' = [xfer EXCEPT ![cur[c]] = Recorded(cur[c])]
    BY <1>8 DEF Record
  <2>5. \A x \in Xfers : /\ xfer'[x].raw = xfer[x].raw
                         /\ xfer'[x].hash => xfer[x].hash \/ delivered[x] # {}
                         /\ xfer'[x].st = "confirmed" => xfer[x].st = "confirmed"
    BY <1>0, <2>1, <2>4 DEF Recorded, XferRow, TypeOK
  <2>6. LedgerStep
    BY <1>8, <2>5 DEF Record, LedgerStep, Same, chain
  <2> QED
    BY <1>8, <2>3, <2>6 DEF Record, PassStep, TypeOK
<1>9. CASE BroadcastError(c)
  <2>1. PICK got \in {{}, {cur[c]}} : Receive(got)
    BY <1>9 DEF BroadcastError
  <2>2. delivered' \in [Xfers -> SUBSET Nat]
    BY <2>1, ReceiveType
  <2>3. TypeOK'
    BY <1>9, <2>2 DEF BroadcastError, TypeOK, rows
  <2>4. cur[c] \in Xfers /\ xfer[cur[c]].raw # 0
    BY <1>9 DEF BroadcastError
  <2>5. \A x \in Xfers : Same(x) \/ (x = cur[c] /\ Sends(x))
    BY <1>9, <2>1, <2>4 DEF BroadcastError, Receive, Sends, Same, rows
  <2>6. LedgerStep
    BY <1>9, <2>5 DEF BroadcastError, LedgerStep, rows
  <2> QED
    BY <1>9, <2>3, <2>6 DEF BroadcastError, PassStep, TypeOK
<1>11. CASE BroadcastRaises(c)
  <2>1. cur[c] \in Xfers
    BY <1>11 DEF BroadcastRaises
  <2>2. todo[c] \cup {cur[c][1]} \in SUBSET Orders
    BY <2>1 DEF Xfers, TypeOK
  <2>3. TypeOK'
    BY <1>11, <2>2 DEF BroadcastRaises, TypeOK, rows, chain
  <2>4. LedgerStep
    BY <1>11 DEF BroadcastRaises, LedgerStep, Same, rows, chain
  <2> QED
    BY <1>11, <2>3, <2>4 DEF BroadcastRaises, PassStep, TypeOK
<1>10. CASE Crash(c)
  <2>1. PICK got \in {{}} \cup {{x} : x \in {y \in Xfers : Rebroadcasting(c, y)}} : Receive(got)
    BY <1>10 DEF Crash
  <2>2. delivered' \in [Xfers -> SUBSET Nat]
    BY <2>1, ReceiveType
  <2>3. NoView \in [Orders -> OrderRow] /\ "collecting" \in BatchStatus
    BY DEF NoView, FreshOrder, OrderRow, OrderStatus, BatchStatus
  <2>4. TypeOK'
    BY <1>10, <2>2, <2>3 DEF Crash, TypeOK, rows
  <2>5. \A x \in got : x \in Xfers /\ xfer[x].raw # 0
    BY <2>1 DEF Rebroadcasting, Unprepared
  <2>6. \A x, y \in got : x = y
    BY <2>1
  <2>7. \A x \in Xfers : Same(x) \/ (x \in got /\ Sends(x))
    BY <1>10, <2>1, <2>5 DEF Crash, Receive, Sends, Same, rows
  <2>8. LedgerStep
    BY <1>10, <2>6, <2>7 DEF Crash, LedgerStep, rows
  <2> QED
    BY <1>10, <2>4, <2>8 DEF Crash, PassStep, TypeOK
<1> QED
  BY <1>1, <1>2, <1>3, <1>4, <1>5, <1>6, <1>7, <1>8, <1>9, <1>10, <1>11
  DEF CollectorStep

\* The chain and the confirmation worker keep the types and the ledger, and leave
\* the passes alone.
LEMMA ChainKeeps ==
    ASSUME TypeOK, ConfirmStep \/ \E x \in Xfers : Mine(x)
    PROVE  TypeOK' /\ LedgerStep /\ UNCHANGED <<pc, cur>>
<1>0. /\ \A x \in Xfers : xfer[x] \in XferRow
      /\ \A o \in Orders : ord[o] \in OrderRow /\ wallet[o] \in WalletRow
      /\ \A o \in Orders, k \in Kinds : <<o, k>> \in Xfers
  BY DEF TypeOK, Xfers
<1>1. ASSUME NEW x \in Xfers, Mine(x)
      PROVE  TypeOK' /\ LedgerStep /\ UNCHANGED <<pc, cur>>
  <2>1. PICK f \in {"ok", "reverted"} : fate' = [fate EXCEPT ![x] = f]
    BY <1>1 DEF Mine
  <2>2. TypeOK'
    BY <1>1, <2>1 DEF Mine, TypeOK, rows, pass
  <2>3. Settles(x) /\ \A y \in Xfers \ {x} : Same(y)
    BY <1>1, <2>1 DEF Mine, Settles, Same, rows, TypeOK
  <2> QED
    BY <1>1, <2>2, <2>3 DEF Mine, LedgerStep, rows, pass
<1>2. CASE ConfirmScan
  BY <1>2 DEF ConfirmScan, TypeOK, LedgerStep, Same, rows, chain, pass
<1>3. CASE ConfirmCrash
  BY <1>3 DEF ConfirmCrash, TypeOK, LedgerStep, Same, rows, chain, pass
<1>4. ASSUME NEW x \in Xfers, ConfirmNothing(x)
      PROVE  TypeOK' /\ LedgerStep /\ UNCHANGED <<pc, cur>>
  BY <1>4 DEF ConfirmNothing, TypeOK, LedgerStep, Same, rows, chain, pass
<1>5. ASSUME NEW o \in Orders, ConfirmUsdt(o)
      PROVE  TypeOK' /\ LedgerStep /\ UNCHANGED <<pc, cur>>
  <2> DEFINE x == <<o, "usdt">>
             w == IF ord[o].st = "buy_collected" THEN wallet[o]
                  ELSE WalletAfter(o, "collect", ord[o])
             r == IF ord[o].st = "buy_collected" THEN ord[o]
                  ELSE OrderAfter(o, "collect", ord[o])
  <2>1. x \in Xfers /\ "collect" \in Outcome
    BY <1>0 DEF Kinds, Outcome
  <2>2. w \in WalletRow
    BY <1>0, <1>5, <2>1, WalletAfterType DEF ConfirmUsdt
  <2>3. r \in OrderRow
    BY <1>0, <2>1, OrderAfterType
  <2>4. /\ wallet' = [wallet EXCEPT ![o] = w]
        /\ ord' = [ord EXCEPT ![o] = r]
        /\ xfer' = [xfer EXCEPT ![x].st = "confirmed"]
        /\ cand' = cand \ {x}
        /\ UNCHANGED <<pricing, chain, pass>>
    BY <1>5 DEF ConfirmUsdt
  <2>5. batch' \in BatchStatus
    <3>1. Advanced(o) \in {"awaiting", "collecting", batch}
      BY DEF Advanced
    <3> QED
      BY <1>5, <3>1 DEF ConfirmUsdt, BatchStatus, TypeOK
  <2>6. Mined(x) /\ Done(x)
    BY <1>5 DEF ConfirmUsdt, Sending, Done
  <2>7. r.collected = TRUE \/ r = ord[o]
    BY <1>0 DEF OrderAfter, OrderRow
  <2> HIDE DEF w, r
  <2>8. xfer' \in [Xfers -> XferRow]
    BY <1>0, <2>1, <2>4 DEF TypeOK, XferRow, XferStatus
  <2>9. TypeOK'
    BY <2>2, <2>3, <2>4, <2>5, <2>8 DEF TypeOK, chain, pass
  <2>10. \A y \in Xfers : /\ Same(y) /\ xfer'[y].hash = xfer[y].hash
                          /\ xfer'[y].st = "confirmed" => xfer[y].st = "confirmed" \/ Mined(y)
    BY <1>0, <2>1, <2>4, <2>6 DEF Same, chain, TypeOK, XferRow
  <2>11. \A p \in Orders : /\ ord[p].collected => ord'[p].collected
                           /\ ord'[p].collected => ord[p].collected \/ Done(<<p, "usdt">>)
    BY <2>4, <2>6, <2>7 DEF TypeOK
  <2>12. LedgerStep
    BY <2>10, <2>11 DEF LedgerStep
  <2> QED
    BY <2>4, <2>9, <2>12 DEF pass
<1>6. ASSUME NEW o \in Orders, ConfirmRaises(o)
      PROVE  TypeOK' /\ LedgerStep /\ UNCHANGED <<pc, cur>>
  BY <1>6 DEF ConfirmRaises, TypeOK, LedgerStep, Same, rows, chain, pass
<1>7. ASSUME NEW o \in Orders, ConfirmGas(o)
      PROVE  TypeOK' /\ LedgerStep /\ UNCHANGED <<pc, cur>>
  <2> DEFINE x == <<o, "gas">>
  <2>1. x \in Xfers
    BY <1>0 DEF Kinds
  <2>2. /\ Mined(x)
        /\ xfer' = [xfer EXCEPT ![x].st = "confirmed"]
        /\ cand' = cand \ {x}
        /\ UNCHANGED <<batch, pricing, ord, wallet, chain, pass>>
    BY <1>7 DEF ConfirmGas
  <2>3. xfer' \in [Xfers -> XferRow]
    BY <1>0, <2>1, <2>2 DEF TypeOK, XferRow, XferStatus
  <2>4. TypeOK'
    BY <2>2, <2>3 DEF TypeOK, chain, pass
  <2>5. \A y \in Xfers : /\ Same(y) /\ xfer'[y].hash = xfer[y].hash
                         /\ xfer'[y].st = "confirmed" => xfer[y].st = "confirmed" \/ Mined(y)
    BY <1>0, <2>1, <2>2 DEF Same, chain, TypeOK, XferRow
  <2>6. LedgerStep
    BY <2>2, <2>5 DEF LedgerStep
  <2> QED
    BY <2>2, <2>4, <2>6 DEF pass
<1>8. ASSUME NEW o \in Orders, NEW k \in Kinds, ConfirmFailed(o, k)
      PROVE  TypeOK' /\ LedgerStep /\ UNCHANGED <<pc, cur>>
  <2> DEFINE x == <<o, k>>
  <2>1. x \in Xfers
    BY <1>0
  <2>2. PICK w \in WalletRow, r \in OrderRow :
          /\ wallet' = [wallet EXCEPT ![o] = w]
          /\ ord' = [ord EXCEPT ![o] = r]
          /\ r.collected = ord[o].collected
    <3> DEFINE free == /\ ord[o].st # "buy_collected"
                       /\ ~ord[o].released /\ ~ord[o].collected
                       /\ k = "usdt" \/ Traceless(<<o, "usdt">>)
                       /\ wallet[o].reserved >= 1
               w == [wallet[o] EXCEPT !.reserved = IF free THEN @ - 1 ELSE @]
               r == [ord[o] EXCEPT !.st = "failed", !.released = @ \/ free]
    <3>1. wallet' = [wallet EXCEPT ![o] = w] /\ ord' = [ord EXCEPT ![o] = r]
      BY <1>8, Zenon DEF ConfirmFailed
    <3>2. free \in BOOLEAN /\ (free => wallet[o].reserved >= 1)
      OBVIOUS
    <3> HIDE DEF free
    <3>3. (IF free THEN wallet[o].reserved - 1 ELSE wallet[o].reserved) \in Nat
      BY <1>0, <3>2 DEF WalletRow
    <3>4. w \in WalletRow
      BY <1>0, <3>3 DEF WalletRow
    <3>5. (ord[o].released \/ free) \in BOOLEAN
      OBVIOUS
    <3>6. r \in OrderRow /\ r.collected = ord[o].collected
      BY <1>0, <3>5 DEF OrderRow, OrderStatus
    <3> QED
      BY <3>1, <3>4, <3>6
  <2>3. /\ xfer' = [xfer EXCEPT ![x].st = "failed"]
        /\ batch' = "failed" /\ pricing' = "unlocked"
        /\ cand' = cand \ {x}
        /\ UNCHANGED <<chain, pass>>
    BY <1>8 DEF ConfirmFailed
  <2>4. wallet' \in [Orders -> WalletRow]
    BY <2>2 DEF TypeOK
  <2>5. ord' \in [Orders -> OrderRow]
    BY <2>2 DEF TypeOK
  <2>6. xfer' \in [Xfers -> XferRow]
    BY <1>0, <2>1, <2>3 DEF TypeOK, XferRow, XferStatus
  <2>7. TypeOK'
    BY <2>3, <2>4, <2>5, <2>6 DEF TypeOK, chain, pass, BatchStatus
  <2>8. \A y \in Xfers : /\ Same(y) /\ xfer'[y].hash = xfer[y].hash
                         /\ xfer'[y].st = "confirmed" => xfer[y].st = "confirmed"
    BY <1>0, <2>1, <2>3 DEF Same, chain, TypeOK, XferRow
  <2>9. \A p \in Orders : ord'[p].collected = ord[p].collected
    BY <2>2 DEF TypeOK
  <2>10. LedgerStep
    BY <2>8, <2>9 DEF LedgerStep
  <2> QED
    BY <2>3, <2>7, <2>10 DEF pass
<1> QED
  BY <1>1, <1>2, <1>3, <1>4, <1>5, <1>6, <1>7, <1>8 DEF ConfirmStep

-----------------------------------------------------------------------------
(* The inductive invariant.                                                *)

\* The chain has at most the one transaction that was signed, what is recorded
\* as sent or confirmed really is, and what the chain settled it has received.
Durable ==
    \A x \in Xfers :
        /\ xfer[x].raw \in {0, 1}
        /\ delivered[x] = {} \/ (xfer[x].raw = 1 /\ delivered[x] = {1})
        /\ xfer[x].hash => delivered[x] # {}
        /\ xfer[x].st = "confirmed" => Mined(x)
        /\ fate[x] # "none" => delivered[x] # {}

\* USDT is signed for only once the gas has arrived.
Funded == \A o \in NeedGas : xfer[<<o, "usdt">>].raw # 0 => Mined(<<o, "gas">>)

\* A pass that broadcasts has a signed transaction to broadcast.
Passes ==
    \A c \in Collectors :
        /\ pc[c] \in {"broadcast", "record"} => cur[c] \in Xfers /\ xfer[cur[c]].raw # 0
        /\ pc[c] = "record" => delivered[cur[c]] # {}

Inv == TypeOK /\ Durable /\ Funded /\ Passes /\ CollectedIsMined

\* The invariant holds initially.
LEMMA InitInv == Init => Inv
<1> SUFFICES ASSUME Init PROVE Inv
  OBVIOUS
<1>1. TypeOK
  BY InitType
<1>2. \A x \in Xfers : xfer[x] = [st |-> "none", raw |-> 0, hash |-> FALSE]
  BY DEF Init
<1>3. Durable
  BY <1>2 DEF Init, Durable
<1>4. Funded
  BY <1>2, BuyCollectionAssumption DEF Funded, Xfers, Kinds
<1>5. Passes
  BY DEF Init, Passes
<1>6. CollectedIsMined
  BY DEF Init, NoView, FreshOrder, CollectedIsMined
<1> QED
  BY <1>1, <1>3, <1>4, <1>5, <1>6 DEF Inv

\* What a step may do to the broadcasts under way.
BroadcastsStep ==
    \A c \in Collectors :
        \/ pc'[c] \notin {"broadcast", "record"}
        \/ pc'[c] = "broadcast" /\ cur'[c] \in Xfers /\ xfer'[cur'[c]].raw # 0
        \/ pc'[c] = pc[c] /\ cur'[c] = cur[c]
        \/ /\ pc'[c] = "record" /\ cur'[c] = cur[c] /\ pc[c] = "broadcast"
           /\ delivered'[cur[c]] # {}

\* What every step of the system does to the types, the ledger and the broadcasts.
LEMMA NextStep ==
    ASSUME Inv, [Next]_vars
    PROVE  TypeOK' /\ LedgerStep /\ BroadcastsStep
<1> USE DEF Inv
<1>1. CASE StartSettlement
  <2> DEFINE T == {o \in Orders : ord[o].st \in ActiveBuy}
  <2>1. Stretch(Settler, T, ord, "collecting", "collecting")
    BY <1>1 DEF StartSettlement
  <2>2. T \in SUBSET Orders /\ "collecting" \in BatchStatus
        /\ ord \in [Orders -> OrderRow] /\ Settler \in Collectors
    BY BuyCollectionAssumption DEF BatchStatus, TypeOK
  <2> HIDE DEF T
  <2>3. TypeOK' /\ LedgerStep /\ PassStep(Settler)
    BY <2>1, <2>2, StretchStep
  <2> QED
    BY <2>3 DEF PassStep, BroadcastsStep
<1>2. ASSUME NEW c \in Collectors, CollectorStep(c)
      PROVE  TypeOK' /\ LedgerStep /\ BroadcastsStep
  <2>1. /\ pc[c] \in {"broadcast", "record"} => cur[c] \in Xfers /\ xfer[cur[c]].raw # 0
        /\ pc[c] = "record" => delivered[cur[c]] # {}
    BY DEF Passes
  <2> QED
    BY <1>2, <2>1, CollectorKeeps DEF PassStep, BroadcastsStep
<1>3. CASE ConfirmStep \/ \E x \in Xfers : Mine(x)
  BY <1>3, ChainKeeps DEF BroadcastsStep
<1>4. CASE UNCHANGED vars
  BY <1>4 DEF vars, rows, chain, pass, TypeOK, LedgerStep, Same, BroadcastsStep
<1> QED
  BY <1>1, <1>2, <1>3, <1>4 DEF Next

\* The invariant is inductive.
LEMMA NextInv == Inv /\ [Next]_vars => Inv'
<1> SUFFICES ASSUME Inv, [Next]_vars PROVE Inv'
  OBVIOUS
<1>1. TypeOK' /\ LedgerStep
  BY NextStep
<1>2. \A x \in Xfers : xfer[x] \in XferRow
  BY DEF Inv, TypeOK
<1>3. ASSUME NEW x \in Xfers
      PROVE  /\ xfer[x].raw # 0 => xfer'[x].raw # 0
             /\ delivered[x] # {} => delivered'[x] # {}
             /\ Mined(x) => Mined(x)'
             /\ Same(x) \/ Signs(x) \/ Sends(x) \/ Settles(x)
  BY <1>1 DEF LedgerStep, Same, Signs, Sends, Settles, Mined
<1>4. ASSUME NEW x \in Xfers, Done(x)
      PROVE  Mined(x)
  BY <1>4 DEF Inv, Durable, Done
<1>5. Durable'
  <2> SUFFICES ASSUME NEW x \in Xfers
               PROVE  /\ xfer'[x].raw \in {0, 1}
                      /\ delivered'[x] = {} \/ (xfer'[x].raw = 1 /\ delivered'[x] = {1})
                      /\ xfer'[x].hash => delivered'[x] # {}
                      /\ xfer'[x].st = "confirmed" => Mined(x)'
                      /\ fate'[x] # "none" => delivered'[x] # {}
    BY DEF Durable, Mined
  <2>1. /\ xfer[x].raw \in {0, 1}
        /\ delivered[x] = {} \/ (xfer[x].raw = 1 /\ delivered[x] = {1})
        /\ xfer[x].hash => delivered[x] # {}
        /\ xfer[x].st = "confirmed" => Mined(x)
        /\ fate[x] # "none" => delivered[x] # {}
    BY DEF Inv, Durable
  <2>2. /\ xfer'[x].hash => xfer[x].hash \/ delivered'[x] # {}
        /\ xfer'[x].st = "confirmed" => xfer[x].st = "confirmed" \/ Mined(x)
    BY <1>1 DEF LedgerStep
  <2>3. /\ xfer'[x].raw \in {0, 1}
        /\ delivered'[x] = {} \/ (xfer'[x].raw = 1 /\ delivered'[x] = {1})
        /\ fate'[x] # "none" => delivered'[x] # {}
    BY <1>3, <2>1 DEF Same, Signs, Sends, Settles
  <2> QED
    BY <1>3, <2>1, <2>2, <2>3
<1>6. Funded'
  <2> SUFFICES ASSUME NEW o \in NeedGas, xfer'[<<o, "usdt">>].raw # 0
               PROVE  Mined(<<o, "gas">>)'
    BY DEF Funded, Mined
  <2>1. o \in Orders /\ <<o, "usdt">> \in Xfers /\ <<o, "gas">> \in Xfers
    BY BuyCollectionAssumption DEF Xfers, Kinds
  <2>2. CASE xfer[<<o, "usdt">>].raw # 0
    BY <1>3, <2>1, <2>2 DEF Inv, Funded
  <2>3. CASE xfer[<<o, "usdt">>].raw = 0
    <3>1. Signs(<<o, "usdt">>)
      BY <1>3, <2>1, <2>3 DEF Same, Sends, Settles
    <3>2. GasReady(o)
      BY <3>1 DEF Signs
    <3>3. Mined(<<o, "gas">>)
      BY <1>4, <2>1, <3>2 DEF GasReady
    <3> QED
      BY <1>3, <2>1, <3>3
  <2> QED
    BY <2>2, <2>3
<1>7. Passes'
  <2> SUFFICES ASSUME NEW c \in Collectors
               PROVE  /\ pc'[c] \in {"broadcast", "record"} =>
                            cur'[c] \in Xfers /\ xfer'[cur'[c]].raw # 0
                      /\ pc'[c] = "record" => delivered'[cur'[c]] # {}
    BY DEF Passes
  <2>1. /\ pc[c] \in {"broadcast", "record"} => cur[c] \in Xfers /\ xfer[cur[c]].raw # 0
        /\ pc[c] = "record" => delivered[cur[c]] # {}
    BY DEF Inv, Passes
  <2> QED
    BY <1>3, <2>1, NextStep DEF BroadcastsStep
<1>8. CollectedIsMined'
  <2> SUFFICES ASSUME NEW o \in Orders, ord'[o].collected
               PROVE  Mined(<<o, "usdt">>)'
    BY DEF CollectedIsMined, Mined
  <2>1. <<o, "usdt">> \in Xfers
    BY DEF Xfers, Kinds
  <2>2. ord[o].collected \/ Done(<<o, "usdt">>)
    BY <1>1 DEF LedgerStep
  <2> QED
    BY <1>3, <1>4, <2>1, <2>2 DEF Inv, CollectedIsMined
<1> QED
  BY <1>1, <1>5, <1>6, <1>7, <1>8 DEF Inv

\* The invariant holds in every reachable state.
LEMMA Invariance == Spec => []Inv
BY InitInv, NextInv, PTL DEF Spec

-----------------------------------------------------------------------------
(* What follows for the buyers.                                            *)

\* Every row keeps its type: in particular no reserve and no balance is ever
\* debited below zero, whatever the passes read stale.
THEOREM TypeCorrect == Spec => []TypeOK
BY Invariance, PTL DEF Inv

\* Whatever the number of workers, crashes and retries, the chain never gets two
\* transactions for one transfer row.
THEOREM PaidOnce == Spec => []AtMostOneTransaction
<1>1. Inv => AtMostOneTransaction
  BY DEF Inv, Durable, AtMostOneTransaction
<1> QED
  BY <1>1, Invariance, PTL

\* An order is booked as collected only after its USDT arrived.
THEOREM BookedWhenMined == Spec => []CollectedIsMined
BY Invariance, PTL DEF Inv

\* A wallet without gas gets its gas before its USDT is sent.
THEOREM GasBeforeUsdt == Spec => []GasFirst
<1>1. Inv => GasFirst
  <2> SUFFICES ASSUME Inv, NEW o \in NeedGas, delivered[<<o, "usdt">>] # {}
               PROVE  Mined(<<o, "gas">>)
    BY DEF GasFirst
  <2>1. <<o, "usdt">> \in Xfers
    BY BuyCollectionAssumption DEF Xfers, Kinds
  <2> QED
    BY <2>1 DEF Inv, Durable, Funded
<1> QED
  BY <1>1, Invariance, PTL

-----------------------------------------------------------------------------
(* The collection implements the abstract intents.                         *)

\* Every step is a step of the durable intents, or leaves them alone.
LEMMA IntentsStep ==
    ASSUME Inv, [Next]_vars
    PROVE  Intents!Next
<1> DEFINE S == [x \in Xfers |-> xfer[x].raw]
           R == {x \in Xfers : delivered[x] # {}}
           C == {<<o, "usdt">> : o \in {p \in Orders : ord[p].collected}}
<1>1. LedgerStep /\ fate \in [Xfers -> {"none", "ok", "reverted"}]
      /\ fate' \in [Xfers -> {"none", "ok", "reverted"}]
  BY NextStep DEF Inv, TypeOK
<1>2. C \subseteq C' /\ \A x \in C' \ C : fate[x] = "ok"
  <2>1. \A o \in Orders : ord[o].collected => ord'[o].collected
    BY <1>1 DEF LedgerStep
  <2>2. ASSUME NEW o \in Orders, ord'[o].collected, ~ord[o].collected
        PROVE  fate[<<o, "usdt">>] = "ok"
    BY <1>1, <2>2 DEF LedgerStep, Inv, Durable, Done, Mined, Xfers, Kinds
  <2> QED
    BY <2>1, <2>2
<1>3. CASE \A x \in Xfers : Same(x)
  <2>1. S' = S /\ R' = R /\ fate' = fate
    BY <1>1, <1>3 DEF Same
  <2> QED
    BY <1>2, <2>1 DEF Intents!Next, Intents!Book
<1>4. ASSUME NEW x \in Xfers, ~Same(x)
      PROVE  Intents!Next
  <2>1. \A y \in Xfers \ {x} : Same(y)
    BY <1>1, <1>4 DEF LedgerStep
  <2>2. CASE Signs(x)
    <3>1. S[x] = 0 /\ S' = [S EXCEPT ![x] = 1] /\ R' = R /\ fate' = fate
      <4>1. S[x] = 0
        BY <2>2 DEF Signs
      <4>2. S' = [S EXCEPT ![x] = 1]
        BY <2>1, <2>2 DEF Signs, Same
      <4>3. \A y \in Xfers : delivered'[y] = delivered[y] /\ fate'[y] = fate[y]
        BY <2>1, <2>2 DEF Signs, Same
      <4>4. R' = R
        BY <4>3
      <4>5. fate' = fate
        BY <1>1, <4>3
      <4> QED
        BY <4>1, <4>2, <4>4, <4>5
    <3>2. Intents!Sign(x)
      BY <3>1 DEF Intents!Sign
    <3> QED
      BY <1>2, <3>2 DEF Intents!Next, Intents!Book
  <2>3. CASE Sends(x)
    <3>1. S[x] = 1 /\ S' = S /\ R' = R \cup {x} /\ fate' = fate
      <4>1. S[x] = 1
        BY <2>3 DEF Sends, Inv, Durable
      <4>2. S' = S
        BY <2>1, <2>3 DEF Sends, Same
      <4>3. \A y \in Xfers : fate'[y] = fate[y]
        BY <2>1, <2>3 DEF Sends, Same
      <4>4. xfer[x].raw \in delivered'[x]
        BY <2>3 DEF Sends
      <4>5. delivered'[x] # {}
        BY <4>4
      <4>6. R' = R \cup {x}
        <5>1. \A y \in Xfers \ {x} : delivered'[y] = delivered[y]
          BY <2>1 DEF Same
        <5> QED
          BY <4>5, <5>1
      <4>7. fate' = fate
        BY <1>1, <4>3
      <4> QED
        BY <4>1, <4>2, <4>6, <4>7
    <3>2. Intents!Broadcast(x)
      BY <3>1 DEF Intents!Broadcast
    <3> QED
      BY <1>2, <3>2 DEF Intents!Next, Intents!Book
  <2>4. CASE Settles(x)
    <3>1. /\ x \in R /\ fate[x] = "none" /\ S' = S /\ R' = R
          /\ \E r \in {"ok", "reverted"} : fate' = [fate EXCEPT ![x] = r]
      BY <1>1, <2>1, <2>4 DEF Settles, Same
    <3>2. Intents!Mine(x)
      BY <3>1 DEF Intents!Mine, Intents!Results
    <3> QED
      BY <1>2, <3>2 DEF Intents!Next, Intents!Book
  <2> QED
    BY <1>1, <1>4, <2>2, <2>3, <2>4 DEF LedgerStep
<1> QED
  BY <1>3, <1>4

\* The durable intents of the code keep the promise TransferIntent states:
\* signed once, on record before the chain sees it, booked after it succeeded.
THEOREM IntentsKept == Spec => KeepsIntents
<1>1. ASSUME Init PROVE Intents!Init
  <2>1. /\ [x \in Xfers |-> xfer[x].raw] = [p \in Xfers |-> 0]
        /\ fate = [p \in Xfers |-> "none"]
    BY <1>1 DEF Init
  <2>2. {x \in Xfers : delivered[x] # {}} = {}
    BY <1>1 DEF Init
  <2>3. {<<o, "usdt">> : o \in {p \in Orders : ord[p].collected}} = {}
    <3>1. \A p \in Orders : ord[p].collected = FALSE
      BY <1>1 DEF Init, NoView, FreshOrder
    <3> QED
      BY <3>1
  <2> QED
    BY <2>1, <2>2, <2>3 DEF Intents!Init
<1>2. Inv /\ [Next]_vars => [Intents!Next]_(Intents!avars)
  BY IntentsStep
<1> QED
  BY <1>1, <1>2, Invariance, PTL DEF Spec, KeepsIntents, Intents!Spec

-----------------------------------------------------------------------------
(* One collector, and no confirmation worker: nothing is read stale.       *)

OneCollector == Collectors = {Settler} /\ ~ConfirmEnabled

\* An order is booked as collected while it has that status, its reserve is given back
\* only when it fails without a transaction, and its wallet follows.
RowAlone(o) ==
    /\ ord[o].collected <=> ord[o].st = "buy_collected"
    /\ ord[o].released => ord[o].st = "failed" /\ xfer[<<o, "usdt">>].raw = 0
    /\ wallet[o].reserved = OtherReserve + (IF ord[o].collected \/ ord[o].released THEN 0 ELSE 1)
    /\ wallet[o].balance = OtherReserve + (IF ord[o].collected THEN 0 ELSE 1)

\* The order may still be failed: it was neither collected nor failed.
Open(o) == ord[o].st \in {"settling", "buy_collecting"}

\* A pass is only under way in a batch that collects, it knows the orders as they
\* are, it has no order before it that failed, and the order it broadcasts for, or
\* is to fail because that raised, is open.
Alone ==
    /\ cand = {}
    /\ pc[Settler] # "idle" => batch = "collecting"
    /\ pc[Settler] = "loaded" => view[Settler] = ord
    /\ \A o \in todo[Settler] : ord[o].st \in ActiveBuy
    /\ pc[Settler] \in {"broadcast", "record"} => Open(cur[Settler][1])
    /\ \A o \in Raised(Settler) : Open(o)
    /\ \A o \in Orders : RowAlone(o)

\* A visit without a commit, of an order read as it is.
LEMMA VisitAlone ==
    ASSUME Inv, NEW o \in Orders, RowAlone(o), ord[o].st \in ActiveBuy,
           NEW k, k \in Quiet(o, ord[o]) \/ (k = "fail" /\ Open(o)),
           ord'[o] = OrderAfter(o, k, ord[o]), wallet'[o] = WalletAfter(o, k, ord[o]),
           xfer'[<<o, "usdt">>].raw = xfer[<<o, "usdt">>].raw
    PROVE  RowAlone(o)'
<1>1. /\ ord[o] \in [st : OrderStatus, collected : BOOLEAN, released : BOOLEAN]
      /\ wallet[o] \in [reserved : Nat, balance : Nat]
      /\ OtherReserve \in Nat
  BY BuyCollectionAssumption DEF Inv, TypeOK, OrderRow, WalletRow
<1>2. ~ord[o].released /\ k \in Outcome
  BY DEF RowAlone, ActiveBuy, Quiet, Outcome
<1>3. CASE ord[o].st = "buy_collected"
  <2>1. k = "skip"
    BY <1>3 DEF Quiet, Open
  <2>2. ord'[o] = ord[o] /\ wallet'[o] = wallet[o]
    BY <2>1 DEF OrderAfter, WalletAfter
  <2> QED
    BY <2>2 DEF RowAlone
<1>4. CASE ord[o].st # "buy_collected"
  <2>1. ~ord[o].collected /\ wallet[o].reserved = OtherReserve + 1
       /\ wallet[o].balance = OtherReserve + 1
    BY <1>2, <1>4 DEF RowAlone
  <2>2. CASE k = "collect"
    <3>1. /\ ord'[o] = [ord[o] EXCEPT !.st = "buy_collected", !.collected = TRUE]
          /\ wallet'[o] = [reserved |-> wallet[o].reserved - 1, balance |-> wallet[o].balance - 1]
      BY <2>2 DEF OrderAfter, WalletAfter
    <3> QED
      BY <1>1, <1>2, <2>1, <3>1 DEF RowAlone
  <2>3. CASE k = "fail" /\ Releasable(o, ord[o])
    <3>1. /\ ord'[o] = [ord[o] EXCEPT !.st = "failed", !.released = @ \/ Releasable(o, ord[o])]
          /\ wallet'[o] = [wallet[o] EXCEPT !.reserved = @ - 1]
      BY <2>3 DEF OrderAfter, WalletAfter
    <3>2. ord'[o] = [ord[o] EXCEPT !.st = "failed", !.released = TRUE]
      <4>1. (ord[o].released \/ Releasable(o, ord[o])) = TRUE
        BY <2>3
      <4> QED
        BY <1>1, <3>1, <4>1
    <3>4. ord'[o].st = "failed" /\ ~ord'[o].collected /\ ord'[o].released
      BY <1>1, <2>1, <3>2
    <3>5. wallet'[o].reserved = OtherReserve /\ wallet'[o].balance = OtherReserve + 1
      BY <1>1, <2>1, <3>1
    <3>3. xfer'[<<o, "usdt">>].raw = 0
      BY <2>3 DEF Releasable, Traceless
    <3> QED
      BY <1>1, <3>3, <3>4, <3>5 DEF RowAlone
  <2>4. CASE k = "fail" /\ ~Releasable(o, ord[o])
    <3>1. /\ ord'[o] = [ord[o] EXCEPT !.st = "failed", !.released = @ \/ Releasable(o, ord[o])]
          /\ wallet'[o] = wallet[o]
      BY <2>4 DEF OrderAfter, WalletAfter
    <3>2. ord'[o].st = "failed" /\ ord'[o].collected = FALSE /\ ~ord'[o].released
      BY <1>1, <1>2, <2>1, <2>4, <3>1
    <3> QED
      BY <1>1, <2>1, <3>1, <3>2 DEF RowAlone
  <2>5. CASE k \in {"skip", "gaswait", "wait"}
    <3>1. /\ wallet'[o] = wallet[o]
          /\ ord'[o] = ord[o] \/ ord'[o] = [ord[o] EXCEPT !.st = "buy_collecting"]
      BY <1>1, <2>5 DEF OrderAfter, WalletAfter
    <3> QED
      BY <1>1, <1>2, <2>1, <3>1 DEF RowAlone
  <2> QED
    BY <1>2, <2>2, <2>3, <2>4, <2>5 DEF Outcome
<1> QED
  BY <1>3, <1>4

\* A stretch of the only pass, over orders none of which failed.
LEMMA StretchAlone ==
    ASSUME Inv, Alone, OneCollector, NEW T \in SUBSET Orders, NEW vb \in BatchStatus,
           \A o \in T : ord[o].st \in ActiveBuy,
           Stretch(Settler, T, ord, vb, "collecting")
    PROVE  Alone'
<1>1. PICK P \in Prefixes(T) : \E out \in [P -> Outcome] :
      \E K \in {{}} \cup {{x} : x \in First(T \ P) \X Kinds} :
      \E gk \in Broadcast(K \ Fresh(K)) :
          StretchBy(Settler, T, ord, vb, "collecting", P, out, K, gk[1], gk[2])
  BY DEF Stretch
<1>2. PICK out \in [P -> Outcome] :
      \E K \in {{}} \cup {{x} : x \in First(T \ P) \X Kinds} :
      \E gk \in Broadcast(K \ Fresh(K)) :
          StretchBy(Settler, T, ord, vb, "collecting", P, out, K, gk[1], gk[2])
  BY <1>1
<1>3. PICK K \in {{}} \cup {{x} : x \in First(T \ P) \X Kinds} :
      \E gk \in Broadcast(K \ Fresh(K)) :
          StretchBy(Settler, T, ord, vb, "collecting", P, out, K, gk[1], gk[2])
  BY <1>2
<1>4. PICK gk \in Broadcast(K \ Fresh(K)) :
          StretchBy(Settler, T, ord, vb, "collecting", P, out, K, gk[1], gk[2])
  BY <1>3
<1>5. P \subseteq T /\ gk[2] \subseteq K \ Fresh(K)
  BY DEF Prefixes, Broadcast
<1>6. /\ Visits(Settler, T, ord, P, out, K)
      /\ RowsAfter(ord, P, out, K, gk[2])
      /\ PassAfter(Settler, T, P, out, K, vb, "collecting")
      /\ cand' = cand
  BY <1>4 DEF StretchBy
<1>7. ASSUME NEW x \in K  PROVE  x \in Xfers /\ x[1] \in T \ P /\ ord[x[1]].st # "buy_collected"
  BY <1>6, <1>7 DEF First, Xfers, Visits
<1>8. \A x \in Xfers : xfer[x] \in [st : XferStatus, raw : Nat, hash : BOOLEAN]
  BY DEF Inv, TypeOK, XferRow
<1>9. ASSUME NEW x \in Xfers, x \notin Fresh(K)  PROVE  xfer'[x].raw = xfer[x].raw
  <2>1. x \in K => Signed(x) = xfer[x]
    BY <1>9 DEF Fresh, Signed
  <2>2. xfer'[x] \in {Recorded(x), Touched(x), xfer[x]}
    BY <1>5, <1>6, <2>1 DEF RowsAfter
  <2>3. Recorded(x).raw = xfer[x].raw
    BY <1>8 DEF Recorded
  <2>4. Touched(x).raw = xfer[x].raw
    BY <1>8 DEF Touched
  <2> QED
    BY <2>2, <2>3, <2>4
<1>10. ASSUME NEW o \in Orders
       PROVE  /\ RowAlone(o)'
              /\ o \in T \ P => ord'[o].st \in ActiveBuy
              /\ o \in T \ P /\ Open(o) => Open(o)'
  <2>1. <<o, "usdt">> \in Xfers
    BY DEF Xfers, Kinds
  <2>2. RowAlone(o) /\ ord[o] \in [st : OrderStatus, collected : BOOLEAN, released : BOOLEAN]
    BY DEF Alone, Inv, TypeOK, OrderRow
  <2>3. CASE o \in P
    <3>1. <<o, "usdt">> \notin Fresh(K)
      BY <1>7, <2>3 DEF Fresh
    <3>2. xfer'[<<o, "usdt">>].raw = xfer[<<o, "usdt">>].raw
      BY <1>9, <2>1, <3>1
    <3>3. out[o] \in Quiet(o, ord[o]) \/ (out[o] = "fail" /\ Open(o))
      BY <1>6, <2>3 DEF Visits, Alone
    <3>4. ord'[o] = OrderAfter(o, out[o], ord[o]) /\ wallet'[o] = WalletAfter(o, out[o], ord[o])
      BY <1>6, <2>3 DEF RowsAfter
    <3> QED
      BY <1>5, <2>2, <2>3, <3>2, <3>3, <3>4, VisitAlone
  <2>4. CASE o \notin P /\ <<o, "usdt">> \in Fresh(K)
    <3>1. o \in T /\ ord[o].st # "buy_collected"
      BY <1>7, <2>4 DEF Fresh
    <3>2. ord[o].st \in {"settling", "buy_collecting"} /\ ~ord[o].collected /\ ~ord[o].released
      BY <2>2, <3>1 DEF ActiveBuy, RowAlone
    <3>3. wallet'[o] = wallet[o] /\ ord'[o] = OrderAfter(o, "wait", ord[o])
      BY <1>6, <2>4 DEF RowsAfter
    <3>4. ord'[o] = ord[o] \/ ord'[o] = [ord[o] EXCEPT !.st = "buy_collecting"]
      BY <2>2, <3>3 DEF OrderAfter
    <3> QED
      BY <2>2, <3>2, <3>3, <3>4 DEF RowAlone, ActiveBuy, Open
  <2>5. CASE o \notin P /\ <<o, "usdt">> \notin Fresh(K)
    <3>1. wallet'[o] = wallet[o] /\ ord'[o] = ord[o]
      BY <1>6, <2>5 DEF RowsAfter
    <3>2. xfer'[<<o, "usdt">>].raw = xfer[<<o, "usdt">>].raw
      BY <1>9, <2>1, <2>5
    <3> QED
      BY <2>2, <3>1, <3>2 DEF RowAlone, Open
  <2> QED
    BY <2>3, <2>4, <2>5
<1>11. /\ Settler \in Collectors
       /\ pc \in [Collectors -> {"idle", "scanned", "loop", "loaded", "broadcast", "record"}]
       /\ todo \in [Collectors -> SUBSET Orders]
  BY BuyCollectionAssumption DEF Inv, TypeOK
<1>12. /\ pc'[Settler] # "loaded"
       /\ pc'[Settler] # "idle" => batch' = "collecting"
       /\ todo'[Settler] \subseteq T \ P
  BY <1>6, <1>11 DEF PassAfter
<1>13. cand' = {}
  BY <1>6 DEF Alone
<1>14. ASSUME NEW o \in todo'[Settler]  PROVE  ord'[o].st \in ActiveBuy
  <2>1. o \in T \ P
    BY <1>12, <1>14
  <2> QED
    BY <1>10, <2>1
<1>15. \A o \in Orders : RowAlone(o)'
  BY <1>10
<1>16. /\ pc'[Settler] \in {"broadcast", "record"} => Open(cur[Settler][1])'
       /\ \A o \in Raised(Settler)' : Open(o)'
  <2>1. /\ cur \in [Collectors -> Xfers \cup {NoXfer}]
        /\ cur' = [cur EXCEPT ![Settler] = IF Fresh(K) = {} THEN NoXfer
                                           ELSE CHOOSE x \in Fresh(K) : TRUE]
    BY <1>4 DEF StretchBy, Inv, TypeOK
  <2>2. CASE Fresh(K) = {}
    <3>1. cur'[Settler] = NoXfer
      BY <1>11, <2>1, <2>2
    <3>2. pc'[Settler] \in {"idle", "loop"}
      BY <1>6, <1>11, <2>2 DEF PassAfter
    <3> QED
      BY <3>1, <3>2 DEF Raised
  <2>3. CASE Fresh(K) # {}
    <3>1. cur'[Settler] \in K /\ K # {}
      BY <1>11, <2>1, <2>3 DEF Fresh
    <3>2. pc'[Settler] = "broadcast"
      BY <1>6, <1>11, <2>3, <3>1 DEF PassAfter
    <3>3. PICK o \in Orders : o = cur'[Settler][1] /\ o \in T \ P /\ Open(o)
      BY <1>7, <3>1 DEF Open, ActiveBuy
    <3>4. Open(o)'
      BY <1>10, <3>3
    <3> QED
      BY <3>2, <3>3, <3>4 DEF Raised, Open
  <2> QED
    BY <2>2, <2>3
<1> QED
  BY <1>12, <1>13, <1>14, <1>15, <1>16 DEF Alone

\* The only collector is in no pass once the batch has left collection.
LEMMA AloneSteps ==
    ASSUME Inv, Alone, OneCollector, [Next]_vars
    PROVE  Alone' /\ (batch \in {"awaiting", "failed"} => batch' = batch)
<1> DEFINE T == {o \in Orders : ord[o].st \in ActiveBuy}
<1>0. /\ Settler \in Collectors /\ ord \in [Orders -> OrderRow]
      /\ pc \in [Collectors -> {"idle", "scanned", "loop", "loaded", "broadcast", "record"}]
      /\ todo \in [Collectors -> SUBSET Orders] /\ view \in [Collectors -> [Orders -> OrderRow]]
      /\ vbatch \in [Collectors -> BatchStatus] /\ cur \in [Collectors -> Xfers \cup {NoXfer}]
      /\ \A x \in Xfers : xfer[x] \in [st : XferStatus, raw : Nat, hash : BOOLEAN]
  BY BuyCollectionAssumption DEF Inv, TypeOK, XferRow
<1>00. /\ Settler \in DOMAIN pc /\ pc = [c \in DOMAIN pc |-> pc[c]]
       /\ Settler \in DOMAIN todo /\ todo = [c \in DOMAIN todo |-> todo[c]]
       /\ Settler \in DOMAIN view /\ view = [c \in DOMAIN view |-> view[c]]
  BY <1>0
<1>1. CASE StartSettlement
  <2>1. Stretch(Settler, T, ord, "collecting", "collecting") /\ batch = "gas_ready"
    BY <1>1 DEF StartSettlement
  <2>2. Alone'
    BY <2>1, StretchAlone DEF BatchStatus
  <2> QED
    BY <2>1, <2>2
<1>2. CASE StartScanned(Settler)
  <2>1. Stretch(Settler, T, ord, "collecting", "collecting") /\ batch = "collecting"
    BY <1>2 DEF StartScanned, Alone
  <2>2. Alone'
    BY <2>1, StretchAlone DEF BatchStatus
  <2> QED
    BY <2>1, <2>2
<1>3. CASE Continue(Settler)
  <2>1. Stretch(Settler, todo[Settler], ord, vbatch[Settler], "collecting") /\ batch = "collecting"
    BY <1>3 DEF Continue, Alone
  <2>2. Alone'
    BY <1>0, <2>1, StretchAlone DEF Alone
  <2> QED
    BY <2>1, <2>2
<1>4. CASE Scan(Settler) \/ Reload(Settler) \/ Finish(Settler) \/ Crash(Settler)
  <2>1. /\ UNCHANGED <<ord, xfer, wallet, cand>>
        /\ batch' = batch \/ (pc[Settler] # "idle" /\ pc'[Settler] = "idle")
        /\ pc'[Settler] # "idle" => batch = "collecting"
        /\ pc'[Settler] = "loaded" => view'[Settler] = ord
        /\ todo'[Settler] \subseteq todo[Settler]
        /\ pc'[Settler] \notin {"broadcast", "record"}
        /\ Raised(Settler)' \subseteq Raised(Settler)
    <3>1. CASE Scan(Settler)
      <4>1. /\ batch = "collecting" /\ UNCHANGED <<rows, todo, cand>>
            /\ pc' = [pc EXCEPT ![Settler] = "scanned"]
        BY <3>1 DEF Scan
      <4> QED
        BY <1>00, <4>1 DEF rows, Raised
    <3>2. CASE Reload(Settler)
      <4>1. /\ batch = "collecting" /\ UNCHANGED <<rows, todo, cur, cand>>
            /\ pc[Settler] = "loop" /\ pc' = [pc EXCEPT ![Settler] = "loaded"]
            /\ view' = [view EXCEPT ![Settler] = ord]
        BY <3>2 DEF Reload, Alone
      <4> QED
        BY <1>00, <4>1 DEF rows, Raised
    <3>3. CASE Finish(Settler)
      BY <1>00, <3>3 DEF Finish, Raised
    <3>4. CASE Crash(Settler)
      <4>1. /\ UNCHANGED <<rows, cand>>
            /\ pc' = [pc EXCEPT ![Settler] = "idle"] /\ todo' = [todo EXCEPT ![Settler] = {}]
        BY <3>4 DEF Crash
      <4> QED
        BY <1>00, <4>1 DEF rows, Raised
    <3> QED
      BY <1>4, <3>1, <3>2, <3>3, <3>4
  <2> QED
    BY <2>1 DEF Alone, RowAlone, Open
<1>5. CASE \/ AlreadySent(Settler) \/ Deliver(Settler) \/ Record(Settler)
           \/ BroadcastError(Settler) \/ BroadcastRaises(Settler)
  <2>1. /\ UNCHANGED <<batch, ord, wallet, cand>>
        /\ pc[Settler] \in {"broadcast", "record"}
        /\ pc'[Settler] \in {"loop", "record"}
        /\ todo'[Settler] \subseteq todo[Settler] \cup {cur[Settler][1]}
        /\ \/ cur'[Settler] = cur[Settler]
           \/ pc'[Settler] = "loop" /\ cur'[Settler] = NoXfer
    BY <1>0, <1>5 DEF AlreadySent, Deliver, Record, BroadcastError, BroadcastRaises, rows, chain
  <2>2. ASSUME NEW x \in Xfers  PROVE  xfer'[x].raw = xfer[x].raw
    <3>1. CASE Record(Settler)
      <4>1. xfer'[x] \in {Recorded(x), xfer[x]}
        BY <3>1 DEF Record, Inv, TypeOK
      <4>2. Recorded(x).raw = xfer[x].raw
        BY <1>0 DEF Recorded
      <4> QED
        BY <4>1, <4>2
    <3>2. CASE ~Record(Settler)
      BY <1>5, <3>2 DEF AlreadySent, Deliver, BroadcastError, BroadcastRaises, rows
    <3> QED
      BY <3>1, <3>2
  <2>3. \A o \in Orders : RowAlone(o)'
    BY <2>1, <2>2 DEF Alone, RowAlone, Xfers, Kinds
  <2>4. Open(cur[Settler][1]) /\ \A o \in todo[Settler] : ord[o].st \in ActiveBuy
    BY <2>1 DEF Alone
  <2>5. \A o \in todo'[Settler] : ord'[o].st \in ActiveBuy
    BY <2>1, <2>4 DEF Open, ActiveBuy
  <2>6. /\ pc'[Settler] \in {"broadcast", "record"} => Open(cur[Settler][1])'
        /\ \A o \in Raised(Settler)' : Open(o)'
    BY <2>1, <2>4 DEF Raised, Open
  <2> QED
    BY <2>1, <2>3, <2>5, <2>6 DEF Alone
<1>6. CASE \E x \in Xfers : Mine(x)
  BY <1>6 DEF Mine, rows, pass, Alone, RowAlone, Open, Raised
<1>7. ~ConfirmStep
  BY DEF ConfirmStep, ConfirmScan, ConfirmCrash, ConfirmNothing, ConfirmUsdt, ConfirmRaises,
         ConfirmGas, ConfirmFailed, Sending, Alone, OneCollector
<1>8. CASE UNCHANGED vars
  BY <1>8 DEF vars, rows, pass, Alone, RowAlone, Open, Raised
<1> QED
  BY <1>1, <1>2, <1>3, <1>4, <1>5, <1>6, <1>7, <1>8 DEF Next, CollectorStep, OneCollector

\* What is known of a single collector holds in every reachable state.
LEMMA AloneInvariance == OneCollector => (Spec => [](Inv /\ Alone))
<1> SUFFICES ASSUME OneCollector  PROVE  Spec => [](Inv /\ Alone)
  OBVIOUS
<1>1. Init => Alone
  <2> SUFFICES ASSUME Init  PROVE  Alone
    OBVIOUS
  <2>1. Settler \in Collectors /\ OtherReserve \in Nat
    BY BuyCollectionAssumption
  <2>2. \A o \in Orders : ord[o] = FreshOrder /\ wallet[o].reserved = 1 + OtherReserve
                         /\ wallet[o].balance = 1 + OtherReserve
    BY DEF Init, NoView
  <2> QED
    BY <2>1, <2>2 DEF Init, FreshOrder, Alone, RowAlone, Raised
<1>2. Inv /\ Alone /\ [Next]_vars => Inv' /\ Alone'
  BY AloneSteps, NextInv
<1> QED
  BY <1>1, <1>2, InitInv, PTL DEF Spec

\* With one collector and no confirmation worker a reserve is taken once, by the
\* collection or by the release, however often the collector stops and starts again
\* (release_buy_reserve_if_safe, _confirm_buy_collection).
THEOREM ReserveTakenOnce == OneCollector => (Spec => []ReserveConserved)
<1> SUFFICES ASSUME OneCollector  PROVE  Spec => []ReserveConserved
  OBVIOUS
<1>1. Inv /\ Alone => ReserveConserved
  BY DEF Alone, RowAlone, ReserveConserved
<1> QED
  BY <1>1, AloneInvariance, PTL

\* And the balance is debited once: what two workers can break, because the order is
\* read before the wallet is locked, one cannot (confirm_sent_settlement_transfer).
THEOREM BalanceDebitedOnce == OneCollector => (Spec => []DebitedOnce)
<1> SUFFICES ASSUME OneCollector  PROVE  Spec => []DebitedOnce
  OBVIOUS
<1>1. Inv /\ Alone => DebitedOnce
  BY DEF Alone, RowAlone, DebitedOnce
<1> QED
  BY <1>1, AloneInvariance, PTL

\* And a buyer whose reserve was given back is never charged: without a transaction on
\* record nothing of the order can reach the chain any more.
THEOREM ReleasedIsUnpaid == OneCollector => (Spec => []ReleasedNeverPaid)
<1> SUFFICES ASSUME OneCollector  PROVE  Spec => []ReleasedNeverPaid
  OBVIOUS
<1>1. Inv /\ Alone => ReleasedNeverPaid
  <2> SUFFICES ASSUME Inv, Alone, NEW o \in Orders, ord[o].released
               PROVE  fate[<<o, "usdt">>] # "ok" /\ xfer[<<o, "usdt">>].raw = 0
    BY DEF ReleasedNeverPaid
  <2>1. <<o, "usdt">> \in Xfers /\ xfer[<<o, "usdt">>].raw = 0
    BY DEF Xfers, Kinds, Alone, RowAlone
  <2> QED
    BY <2>1 DEF Inv, Durable
<1> QED
  BY <1>1, AloneInvariance, PTL

\* And a batch that was handed on or failed stays what it is: no pass is left that could
\* write its status (BATCH_TERMINAL_STATUSES).
THEOREM TerminalStays == OneCollector => (Spec => TerminalIsTerminal)
<1> SUFFICES ASSUME OneCollector  PROVE  Spec => TerminalIsTerminal
  OBVIOUS
<1>1. Inv /\ Alone /\ [Next]_vars
         => [(batch \in {"awaiting", "failed"}) => (batch' = batch)]_vars
  BY AloneSteps
<1> QED
  BY <1>1, AloneInvariance, PTL DEF Spec, TerminalIsTerminal
=============================================================================
