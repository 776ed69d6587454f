--------------------------- MODULE BuyCollection ---------------------------
(***************************************************************************)
(* Collection of the buyers' USDT for one settlement batch                 *)
(* (app/settlement/transfer_service.py, the transfer intents of            *)
(* app/settlement/bsc_intent_service.py, and the three workers that drive  *)
(* them: the settlement worker, the continuation worker and the transfer   *)
(* confirmation worker).                                                   *)
(*                                                                         *)
(* A collection pass locks the batch and its orders, then visits the       *)
(* orders one after the other.  Persisting a signed transaction COMMITS,   *)
(* and with it every row lock of the pass is gone and every object of its  *)
(* session is expired: the rest of the pass works on what it re-reads      *)
(* without a lock.  A step of this module is therefore the stretch of a    *)
(* pass between two commits; what a stretch read without a lock is kept in *)
(* view and vbatch, and is possibly stale when the stretch writes.         *)
(*                                                                         *)
(* Every order belongs to a buyer of its own and is for one unit of USDT;  *)
(* OtherReserve is what the buyer has reserved for orders elsewhere.  The  *)
(* rows 'pending', 'failed' and 'skipped' that carry no transaction are    *)
(* the same as no row for every reader, and are "none" here.               *)
(***************************************************************************)
EXTENDS Naturals, FiniteSets

CONSTANTS
    Orders,         \* the ids of the batch's buy orders, in the order of their visits
    Collectors,     \* the processes that run collection passes
    Settler,        \* the one that is the settlement worker
    NeedGas,        \* orders whose buyer's wallet lacks BNB for the transfer
    OtherReserve,   \* USDT the buyers have reserved outside this batch
    ConfirmEnabled, \* SETTLEMENT_TRANSFER_CONFIRMATION_ENABLED
    Faults          \* the faults of the environment this instance allows

FaultKinds == {"block",   \* guard refusal, empty gas wallet or RPC error in a visit
               "revert",  \* a transaction mined with receipt status 0
               "error",   \* a broadcast that raises, its outcome unknown, or that
                          \* cannot even ask the node for the id of its chain
               "crash"}   \* a worker stops and is started again

ASSUME BuyCollectionAssumption ==
    /\ Orders \subseteq Nat
    /\ Settler \in Collectors
    /\ NeedGas \subseteq Orders
    /\ OtherReserve \in Nat
    /\ ConfirmEnabled \in BOOLEAN
    /\ Faults \subseteq FaultKinds

VARIABLES
    batch,      \* status of the batch
    pricing,    \* whether the batch still holds the fund's pricing lock
    ord,        \* the order rows
    xfer,       \* the fund_settlement_transfers rows
    wallet,     \* the buyers' user_wallets rows
    delivered,  \* the signed transactions of a transfer the chain has received
    fate,       \* what became of them
    pc, todo, cur, view, vbatch, pend, bad,     \* the passes of the collectors
    cand        \* transfers the confirmation worker has scanned

rows  == <<batch, pricing, ord, xfer, wallet>>
chain == <<delivered, fate>>
pass  == <<pc, todo, cur, view, vbatch, pend, bad>>
vars  == <<rows, chain, pass, cand>>

Kinds == {"gas", "usdt"}
Xfers == Orders \X Kinds

BatchStatus == {"gas_ready", "collecting", "awaiting", "failed"}
OrderStatus == {"settling", "buy_collecting", "buy_collected", "failed"}
XferStatus  == {"none", "prepared", "sent", "confirmed", "failed"}
ActiveBuy   == {"settling", "buy_collecting", "buy_collected"}
OrderRow    == [st : OrderStatus, collected : BOOLEAN, released : BOOLEAN]
XferRow     == [st : XferStatus, raw : Nat, hash : BOOLEAN]
WalletRow   == [reserved : Nat, balance : Nat]
Outcome     == {"skip", "gaswait", "wait", "collect", "fail"}

FreshOrder == [st |-> "settling", collected |-> FALSE, released |-> FALSE]
NoView     == [o \in Orders |-> FreshOrder]
NoXfer     == <<>>

Init ==
    /\ batch = "gas_ready"
    /\ pricing = "held"
    /\ ord = NoView
    /\ xfer = [x \in Xfers |-> [st |-> "none", raw |-> 0, hash |-> FALSE]]
    /\ wallet = [o \in Orders |-> [reserved |-> 1 + OtherReserve,
                                   balance  |-> 1 + OtherReserve]]
    /\ delivered = [x \in Xfers |-> {}]
    /\ fate = [x \in Xfers |-> "none"]
    /\ pc = [c \in Collectors |-> "idle"]
    /\ todo = [c \in Collectors |-> {}]
    /\ cur = [c \in Collectors |-> NoXfer]
    /\ view = [c \in Collectors |-> NoView]
    /\ vbatch = [c \in Collectors |-> "collecting"]
    /\ pend = [c \in Collectors |-> FALSE]
    /\ bad = [c \in Collectors |-> FALSE]
    /\ cand = {}

-----------------------------------------------------------------------------
(* What a visit of an order finds.                                         *)

\* _check_tx_confirmed: receipt status 1 under enough confirmations.
Mined(x) == fate[x] = "ok"

\* The row already carries a hash, or is confirmed: the visit only looks at it.
Sent(x) == xfer[x].hash \/ xfer[x].st = "confirmed"

\* Slip: a recorded hash counts as a confirmation.
DoneWhenSent(x) == xfer[x].st = "confirmed" \/ xfer[x].hash

\* The transfer is confirmed, or its recorded hash has a receipt.
Done(x) == xfer[x].st = "confirmed" \/ (xfer[x].hash /\ Mined(x))

\* Slip: only a transaction known to be sent is kept.
UnpreparedUntilSent(x) == ~xfer[x].hash

\* prepared_transaction_from_transfer returns None.
Unprepared(x) == xfer[x].raw = 0

\* Slip: a top-up that was sent counts as one that arrived.
GasReadyWhenSent(o) == Sent(<<o, "gas">>) \/ o \notin NeedGas

\* _ensure_user_wallet_gas returns True.
GasReady(o) ==
    LET g == <<o, "gas">> IN
    Done(g) \/ (~Sent(g) /\ Unprepared(g) /\ o \notin NeedGas)

\* The visit reaches a transaction that has to be (re)broadcast: the gas
\* top-up, or once the gas is there the USDT transfer itself.
Broadcasts(o, k) ==
    /\ ~Sent(<<o, k>>)
    /\ IF k = "gas" THEN ~GasReady(o) ELSE GasReady(o)

\* A visit that asks the guard or the node before anything is prepared.
Refusable(o) ==
    \/ ~Sent(<<o, "gas">>) /\ Unprepared(<<o, "gas">>)
    \/ GasReady(o) /\ ~Sent(<<o, "usdt">>) /\ Unprepared(<<o, "usdt">>)

\* A rebroadcast that finds no node to ask for the chain's id: no error the
\* pass keeps the intent for, so the visit fails.
Unreachable(o) ==
    "error" \in Faults /\ \E k \in Kinds : Broadcasts(o, k) /\ ~Unprepared(<<o, k>>)

\* Slip: only the balance is checked.
SolventByBalance(o) == wallet[o].balance >= 1

\* _confirm_buy_collection accepts the debit.
Solvent(o) == wallet[o].reserved >= 1 /\ wallet[o].balance >= 1

\* Slip: an order already collected is visited like the others.
QuietUnskipped(o, s) ==
    IF GasReady(o) /\ Done(<<o, "usdt">>) THEN {"collect"} ELSE {"wait"}

\* What a visit that does not commit may come to, the order having been read as s.
Quiet(o, s) ==
    IF s.st = "buy_collected" THEN {"skip"} ELSE
       (IF Sent(<<o, "gas">>) /\ ~Done(<<o, "gas">>) THEN {"gaswait"} ELSE {})
  \cup (IF GasReady(o) /\ Sent(<<o, "usdt">>) /\ ~Done(<<o, "usdt">>)
          THEN {"wait"} ELSE {})
  \cup (IF GasReady(o) /\ Done(<<o, "usdt">>)
          THEN {IF Solvent(o) THEN "collect" ELSE "fail"} ELSE {})
  \cup (IF ("block" \in Faults /\ Refusable(o)) \/ Unreachable(o)
          THEN {"fail"} ELSE {})

\* Slip: a signed transaction without a hash is no trace.
TracelessUnsent(x) == ~xfer[x].hash

\* The transfer row shows no trace of a transaction.
Traceless(x) == xfer[x].st = "none" /\ ~xfer[x].hash /\ xfer[x].raw = 0

\* release_buy_reserve_if_safe releases: nothing was released or collected as
\* far as the order row s says, the USDT transfer shows no trace of a
\* transaction, and the wallet still holds the reserve.
Releasable(o, s) ==
    /\ ~s.released
    /\ ~s.collected
    /\ Traceless(<<o, "usdt">>)
    /\ wallet[o].reserved >= 1

-----------------------------------------------------------------------------
(* What it writes.                                                         *)

\* A visit refreshes the status of a transfer that was sent.
Touched(x) ==
    IF xfer[x].hash /\ xfer[x].st # "confirmed"
    THEN [xfer[x] EXCEPT !.st = IF Mined(x) THEN "confirmed" ELSE "sent"]
    ELSE xfer[x]

\* persist_prepared_transfer_intent: an intent on record is kept.
Signed(x) ==
    IF Unprepared(x)
    THEN [xfer[x] EXCEPT !.raw = @ + 1, !.st = "prepared"]
    ELSE xfer[x]

\* persist_broadcast_transfer_result.
Recorded(x) == [xfer[x] EXCEPT !.hash = TRUE, !.st = "sent"]

\* Slip: failing an order forgets that it was collected.
OrderAfterForgets(o, k, s) ==
    CASE k = "wait"    -> [ord[o] EXCEPT !.st = "buy_collecting"]
      [] k = "collect" -> [ord[o] EXCEPT !.st = "buy_collected", !.collected = TRUE]
      [] k = "fail"    -> [ord[o] EXCEPT !.st = "failed", !.collected = FALSE]
      [] OTHER         -> ord[o]

\* The order row after outcome k; an attribute set to the value the session
\* had loaded is not written.
OrderAfter(o, k, s) ==
    CASE k = "wait"    -> [ord[o] EXCEPT !.st = IF s.st = "buy_collecting"
                                                THEN @ ELSE "buy_collecting"]
      [] k = "collect" -> [ord[o] EXCEPT !.st = "buy_collected",
                                         !.collected = TRUE]
      [] k = "fail"    -> [ord[o] EXCEPT !.st = "failed",
                                         !.released = @ \/ Releasable(o, s)]
      [] OTHER         -> ord[o]

WalletAfter(o, k, s) ==
    CASE k = "collect" -> [reserved |-> wallet[o].reserved - 1,
                           balance  |-> wallet[o].balance - 1]
      [] k = "fail" /\ Releasable(o, s)
                       -> [wallet[o] EXCEPT !.reserved = @ - 1]
      [] OTHER         -> wallet[o]

\* The order whose broadcast has raised, to be failed with the next commit.
Raised(c) ==
    IF pc[c] \in {"loop", "loaded"} /\ cur[c] # NoXfer THEN {cur[c][1]} ELSE {}

\* The transfer row that collector d holds locked since its broadcast began.
Held(d) == IF pc[d] \in {"record", "loop", "loaded"} THEN {cur[d]} ELSE {}

\* No other collector is inside a broadcast of a transfer of o.
RowFree(c, o) ==
    \A d \in Collectors \ {c} :
        \A k \in Kinds : <<o, k>> \notin Held(d)

\* The orders are visited oldest first (_get_buy_orders_for_batch).
Prefixes(T) == {P \in SUBSET T : \A o \in P, p \in T \ P : o < p}
First(T) == {o \in T : \A p \in T : o <= p}

\* What broadcasting the intents of R may come to: those of got reach the node,
\* those of known are recorded as sent as well.
Broadcast(R) ==
    IF "error" \in Faults THEN {gk \in (SUBSET R) \X (SUBSET R) : gk[2] \subseteq gk[1]}
    ELSE {<<R, R>>}

Receive(got) ==
    delivered' = [x \in Xfers |-> IF x \in got THEN delivered[x] \cup {xfer[x].raw}
                                  ELSE delivered[x]]

(***************************************************************************)
(* One stretch of a pass of collector c over the orders T, that it has     *)
(* read as V, with the batch read as vb and now st: the orders of P are    *)
(* visited without a commit, with the outcomes out, and then either the    *)
(* pass ends (K = {}) or the visit of one more order commits (K = {x}).    *)
(* It commits a new signed transaction before broadcasting it, or the      *)
(* result of broadcasting the one an earlier pass has signed: that         *)
(* broadcast runs under the locks of the stretch.                          *)
(***************************************************************************)
Visits(c, T, V, P, out, K) ==
    /\ \A o \in P : out[o] \in IF o \in Raised(c) THEN {"fail"} ELSE Quiet(o, V[o])
    /\ \A o \in P : out[o] # "skip" => RowFree(c, o)
    /\ K = {} => P = T
    /\ \A x \in K : /\ V[x[1]].st # "buy_collected" /\ x[1] \notin Raised(c)
                    /\ Broadcasts(x[1], x[2])
                    /\ RowFree(c, x[1])

Fresh(K) == {x \in K : Unprepared(x)}

\* The sent transfers the visits check on the chain.
Looked(P, out, K) ==
    LET seen == {o \in P : out[o] # "skip"} IN
         {<<o, "gas">> : o \in seen}
    \cup {<<o, "usdt">> : o \in {p \in seen : GasReady(p)}}
    \cup {<<o, "gas">> : o \in {p \in Orders : <<p, "usdt">> \in K}}

RowsAfter(V, P, out, K, known) ==
    /\ xfer' = [x \in Xfers |->
                    CASE x \in known -> Recorded(x)
                      [] x \in K \ known -> Signed(x)
                      [] x \in Looked(P, out, K) \ K -> Touched(x)
                      [] OTHER -> xfer[x]]
    /\ ord' = [o \in Orders |->
                    IF o \in P THEN OrderAfter(o, out[o], V[o])
                    ELSE IF <<o, "usdt">> \in Fresh(K) THEN OrderAfter(o, "wait", V[o])
                    ELSE ord[o]]
    /\ wallet' = [o \in Orders |->
                    IF o \in P THEN WalletAfter(o, out[o], V[o]) ELSE wallet[o]]

Fails(c, P, out) == bad[c] \/ \E o \in P : out[o] = "fail"
Waits(c, P, out) == pend[c] \/ \E o \in P : out[o] \in {"wait", "gaswait"}

Result(c, P, out) ==
    IF Fails(c, P, out) THEN "failed"
    ELSE IF Waits(c, P, out) THEN "collecting" ELSE "awaiting"

\* The pass ends, or goes on with the orders behind the one that committed.  A
\* status the session has loaded as vb is not written again; only the hand-over
\* to the net execution always is.
PassAfter(c, T, P, out, K, vb, st) ==
    \/ /\ K = {}
       /\ batch' = IF Result(c, P, out) = vb /\ vb # "awaiting" THEN st
                   ELSE Result(c, P, out)
       /\ pc' = [pc EXCEPT ![c] = "idle"]
       /\ todo' = [todo EXCEPT ![c] = {}]
       /\ pend' = [pend EXCEPT ![c] = FALSE]
       /\ bad' = [bad EXCEPT ![c] = FALSE]
    \/ /\ K # {}
       /\ batch' = st
       /\ pc' = [pc EXCEPT ![c] = IF Fresh(K) = {} THEN "loop" ELSE "broadcast"]
       /\ todo' = [todo EXCEPT ![c] = T \ (P \cup {x[1] : x \in K})]
       /\ pend' = [pend EXCEPT ![c] = TRUE]
       /\ bad' = [bad EXCEPT ![c] = Fails(c, P, out)]

StretchBy(c, T, V, vb, st, P, out, K, got, known) ==
    /\ Visits(c, T, V, P, out, K)
    /\ Receive(got)
    /\ RowsAfter(V, P, out, K, known)
    /\ PassAfter(c, T, P, out, K, vb, st)
    /\ cur' = [cur EXCEPT ![c] = IF Fresh(K) = {} THEN NoXfer
                                 ELSE CHOOSE x \in Fresh(K) : TRUE]
    /\ view' = [view EXCEPT ![c] = NoView]
    /\ vbatch' = [vbatch EXCEPT ![c] = "collecting"]
    /\ UNCHANGED <<pricing, fate, cand>>

Stretch(c, T, V, vb, st) ==
    \E P \in Prefixes(T) : \E out \in [P -> Outcome] :
    \E K \in {{}} \cup {{x} : x \in First(T \ P) \X Kinds} :
    \E gk \in Broadcast(K \ Fresh(K)) :
        StretchBy(c, T, V, vb, st, P, out, K, gk[1], gk[2])

-----------------------------------------------------------------------------
(* The collection passes.                                                  *)

\* fund_settlement_worker: the pass over the batch it has just created.
StartSettlement ==
    /\ pc[Settler] = "idle"
    /\ batch = "gas_ready"
    /\ Stretch(Settler, {o \in Orders : ord[o].st \in ActiveBuy}, ord,
               "collecting", "collecting")

\* Slip: the scan does not look at the status of the batch.
ScanAny(c) ==
    /\ pc[c] = "idle"
    /\ pc' = [pc EXCEPT ![c] = "scanned"]
    /\ UNCHANGED <<rows, chain, todo, cur, view, vbatch, pend, bad, cand>>

\* Slip: the scan misses the orders whose transfer is under way.
ScanSettling(c) ==
    /\ pc[c] = "idle"
    /\ batch = "collecting"
    /\ \E o \in Orders : ord[o].st = "settling"
    /\ pc' = [pc EXCEPT ![c] = "scanned"]
    /\ UNCHANGED <<rows, chain, todo, cur, view, vbatch, pend, bad, cand>>

\* scan_active_collecting_buy_usdt_batch_ids: a read without a lock.
Scan(c) ==
    /\ pc[c] = "idle"
    /\ batch = "collecting"
    /\ pricing = "held"
    /\ \E o \in Orders : ord[o].st \in ActiveBuy
    /\ pc' = [pc EXCEPT ![c] = "scanned"]
    /\ UNCHANGED <<rows, chain, todo, cur, view, vbatch, pend, bad, cand>>

\* collect_buy_usdt_for_batch on a scanned batch, up to its first commit: the
\* batch and its orders are locked, which waits for a pass that is failing one
\* of them, and the status is set whatever it is now.
StartScanned(c) ==
    /\ pc[c] = "scanned"
    /\ \A d \in Collectors : \A o \in Raised(d) : ord[o].st \notin ActiveBuy
    /\ Stretch(c, {o \in Orders : ord[o].st \in ActiveBuy}, ord,
               "collecting", "collecting")

\* After a commit the next visit reloads the expired orders and batch.
Reload(c) ==
    /\ pc[c] = "loop"
    /\ todo[c] # {}
    /\ pc' = [pc EXCEPT ![c] = "loaded"]
    /\ view' = [view EXCEPT ![c] = ord]
    /\ vbatch' = [vbatch EXCEPT ![c] = batch]
    /\ UNCHANGED <<rows, chain, todo, cur, pend, bad, cand>>

\* The next stretch, on what was reloaded.
Continue(c) ==
    /\ pc[c] = "loaded"
    /\ Stretch(c, todo[c], view[c], vbatch[c], batch)

\* The last visit committed: the status is written without reading the row.
Finish(c) ==
    /\ pc[c] = "loop"
    /\ todo[c] = {}
    /\ batch' = IF bad[c] THEN "failed" ELSE "collecting"
    /\ pc' = [pc EXCEPT ![c] = "idle"]
    /\ pend' = [pend EXCEPT ![c] = FALSE]
    /\ bad' = [bad EXCEPT ![c] = FALSE]
    /\ UNCHANGED <<pricing, ord, xfer, wallet, chain, todo, cur, view, vbatch, cand>>

-----------------------------------------------------------------------------
(* broadcast_persisted_transfer_intent.                                    *)

Unlocked(c) == \A d \in Collectors \ {c} : cur[c] \notin Held(d)

\* Another pass has recorded the hash meanwhile.
AlreadySent(c) ==
    /\ pc[c] = "broadcast"
    /\ Unlocked(c)
    /\ xfer[cur[c]].hash
    /\ pc' = [pc EXCEPT ![c] = "loop"]
    /\ cur' = [cur EXCEPT ![c] = NoXfer]
    /\ UNCHANGED <<rows, chain, todo, view, vbatch, pend, bad, cand>>

\* The node takes the prepared transaction, or already knows it.
Deliver(c) ==
    /\ pc[c] = "broadcast"
    /\ Unlocked(c)
    /\ ~xfer[cur[c]].hash
    /\ Receive({cur[c]})
    /\ pc' = [pc EXCEPT ![c] = "record"]
    /\ UNCHANGED <<rows, fate, todo, cur, view, vbatch, pend, bad, cand>>

\* persist_broadcast_transfer_result: the hash is saved and committed.
Record(c) ==
    /\ pc[c] = "record"
    /\ xfer' = [xfer EXCEPT ![cur[c]] = Recorded(cur[c])]
    /\ pc' = [pc EXCEPT ![c] = "loop"]
    /\ cur' = [cur EXCEPT ![c] = NoXfer]
    /\ UNCHANGED <<batch, pricing, ord, wallet, chain, todo, view, vbatch, pend,
                   bad, cand>>

\* The broadcast raises; the node may have taken the transaction all the same.
\* persist_transfer_intent_processing keeps the intent for the next pass.
BroadcastError(c) ==
    /\ "error" \in Faults
    /\ pc[c] = "broadcast"
    /\ Unlocked(c)
    /\ ~xfer[cur[c]].hash
    /\ \E got \in {{}, {cur[c]}} : Receive(got)
    /\ pc' = [pc EXCEPT ![c] = "loop"]
    /\ cur' = [cur EXCEPT ![c] = NoXfer]
    /\ UNCHANGED <<rows, fate, todo, view, vbatch, pend, bad, cand>>

\* The node does not tell the id of its chain: nothing was sent, the error is
\* none that is kept for the next pass, and the visit goes on to fail the order.
BroadcastRaises(c) ==
    /\ "error" \in Faults
    /\ pc[c] = "broadcast"
    /\ Unlocked(c)
    /\ ~xfer[cur[c]].hash
    /\ pc' = [pc EXCEPT ![c] = "loop"]
    /\ todo' = [todo EXCEPT ![c] = @ \cup {cur[c][1]}]
    /\ UNCHANGED <<rows, chain, cur, view, vbatch, pend, bad, cand>>

Rebroadcasting(c, x) ==
    /\ \/ pc[c] = "scanned" /\ ord[x[1]].st \in ActiveBuy
       \/ pc[c] = "loaded" /\ x[1] \in todo[c]
    /\ Broadcasts(x[1], x[2]) /\ ~Unprepared(x) /\ RowFree(c, x[1])
    /\ x[1] \notin Raised(c)

\* A worker stops; its open transaction is rolled back and its pass forgotten.
\* It may have been rebroadcasting a transaction of an earlier pass.
Crash(c) ==
    /\ "crash" \in Faults
    /\ pc[c] # "idle"
    /\ \E got \in {{}} \cup {{x} : x \in {y \in Xfers : Rebroadcasting(c, y)}} :
          Receive(got)
    /\ pc' = [pc EXCEPT ![c] = "idle"]
    /\ todo' = [todo EXCEPT ![c] = {}]
    /\ cur' = [cur EXCEPT ![c] = NoXfer]
    /\ view' = [view EXCEPT ![c] = NoView]
    /\ vbatch' = [vbatch EXCEPT ![c] = "collecting"]
    /\ pend' = [pend EXCEPT ![c] = FALSE]
    /\ bad' = [bad EXCEPT ![c] = FALSE]
    /\ UNCHANGED <<rows, fate, cand>>

-----------------------------------------------------------------------------
(* The chain, and the transfer confirmation worker.                        *)

Mine(x) ==
    /\ delivered[x] # {}
    /\ fate[x] = "none"
    /\ \E f \in {"ok"} \cup (IF "revert" \in Faults THEN {"reverted"} ELSE {}) :
          fate' = [fate EXCEPT ![x] = f]
    /\ UNCHANGED <<rows, delivered, pass, cand>>

\* _scan_sent_transfer_ids: read without a lock, only in active batches.
ConfirmScan ==
    /\ ConfirmEnabled
    /\ cand = {}
    /\ batch \in {"gas_ready", "collecting"}
    /\ cand' = {x \in Xfers : xfer[x].st = "sent" /\ xfer[x].hash}
    /\ cand' # {}
    /\ UNCHANGED <<rows, chain, pass>>

\* confirm_sent_settlement_transfer looks for the receipt.
Sending(x) == x \in cand /\ xfer[x].st = "sent" /\ xfer[x].hash

\* The row is no longer 'sent', or its receipt is still missing.
ConfirmNothing(x) ==
    /\ x \in cand
    /\ Sending(x) => fate[x] = "none"
    /\ cand' = cand \ {x}
    /\ UNCHANGED <<rows, chain, pass>>

\* _maybe_advance_batch_after_buy_confirmations, after the order o was collected.
Advanced(o) ==
    IF \A p \in Orders \ {o} : ord[p].st = "buy_collected" THEN "awaiting"
    ELSE IF batch \in {"gas_ready", "collecting"} THEN "collecting"
    ELSE batch

\* _apply_confirmed_sent_transfer for a USDT transfer.
ConfirmUsdt(o) ==
    LET x == <<o, "usdt">> IN
    /\ Sending(x)
    /\ Mined(x)
    /\ ord[o].st = "buy_collected" \/ Solvent(o)
    /\ xfer' = [xfer EXCEPT ![x].st = "confirmed"]
    /\ wallet' = [wallet EXCEPT ![o] = IF ord[o].st = "buy_collected" THEN @
                                       ELSE WalletAfter(o, "collect", ord[o])]
    /\ ord' = [ord EXCEPT ![o] = IF @.st = "buy_collected" THEN @
                                 ELSE OrderAfter(o, "collect", @)]
    /\ batch' = Advanced(o)
    /\ cand' = cand \ {x}
    /\ UNCHANGED <<pricing, chain, pass>>

\* _confirm_buy_collection raises: the transaction is rolled back.
ConfirmRaises(o) ==
    LET x == <<o, "usdt">> IN
    /\ Sending(x)
    /\ Mined(x)
    /\ ord[o].st # "buy_collected"
    /\ ~Solvent(o)
    /\ cand' = cand \ {x}
    /\ UNCHANGED <<rows, chain, pass>>

\* _apply_confirmed_sent_transfer for a gas top-up.
ConfirmGas(o) ==
    LET x == <<o, "gas">> IN
    /\ Sending(x)
    /\ Mined(x)
    /\ xfer' = [xfer EXCEPT ![x].st = "confirmed"]
    /\ cand' = cand \ {x}
    /\ UNCHANGED <<batch, pricing, ord, wallet, chain, pass>>

\* _apply_failed_sent_transfer: receipt status 0 fails the order and the batch,
\* releases the reserve of an order not collected, and unlocks pricing.
ConfirmFailed(o, k) ==
    LET x == <<o, k>>
        free == /\ ord[o].st # "buy_collected"
                /\ ~ord[o].released /\ ~ord[o].collected
                /\ k = "usdt" \/ Traceless(<<o, "usdt">>)
                /\ wallet[o].reserved >= 1
    IN
    /\ Sending(x)
    /\ fate[x] = "reverted"
    /\ xfer' = [xfer EXCEPT ![x].st = "failed"]
    /\ wallet' = [wallet EXCEPT ![o].reserved = IF free THEN @ - 1 ELSE @]
    /\ ord' = [ord EXCEPT ![o].st = "failed", ![o].released = @ \/ free]
    /\ batch' = "failed"
    /\ pricing' = "unlocked"
    /\ cand' = cand \ {x}
    /\ UNCHANGED <<chain, pass>>

ConfirmCrash ==
    /\ "crash" \in Faults
    /\ cand # {}
    /\ cand' = {}
    /\ UNCHANGED <<rows, chain, pass>>

-----------------------------------------------------------------------------
CollectorStep(c) ==
    \/ Scan(c) \/ StartScanned(c) \/ Reload(c) \/ Continue(c) \/ Finish(c)
    \/ AlreadySent(c) \/ Deliver(c) \/ Record(c) \/ BroadcastError(c)
    \/ BroadcastRaises(c) \/ Crash(c)

ConfirmStep ==
    \/ ConfirmScan
    \/ ConfirmCrash
    \/ \E x \in Xfers : ConfirmNothing(x)
    \/ \E o \in Orders : \/ ConfirmUsdt(o) \/ ConfirmRaises(o) \/ ConfirmGas(o)
                         \/ \E k \in Kinds : ConfirmFailed(o, k)

Next ==
    \/ StartSettlement
    \/ \E c \in Collectors : CollectorStep(c)
    \/ \E x \in Xfers : Mine(x)
    \/ ConfirmStep

Spec == Init /\ [][Next]_vars

\* A stretch whose broadcast, if it comes to one, is put on record.
Effective(c) == pc'[c] = "loop" => \E x \in Xfers : ~xfer[x].hash /\ xfer'[x].hash

\* Nothing stops for ever: a pass that can go on does, a broadcast that is
\* tried again and again succeeds once, and the chain mines what it received.
CollectorProgress(c) ==
    /\ SF_vars(Scan(c)) /\ SF_vars(Reload(c)) /\ SF_vars(Finish(c))
    /\ SF_vars(AlreadySent(c)) /\ SF_vars(Record(c))
    /\ SF_vars(StartScanned(c) /\ Effective(c)) /\ SF_vars(Continue(c) /\ Effective(c))
    /\ SF_vars(Deliver(c))

FairSpec ==
    /\ Spec
    /\ WF_vars(StartSettlement)
    /\ \A c \in Collectors : CollectorProgress(c)
    /\ \A x \in Xfers : WF_vars(Mine(x))

-----------------------------------------------------------------------------
(* Properties.                                                             *)

\* Types; in particular no reserve and no balance of a buyer goes below zero.
TypeOK ==
    /\ batch \in BatchStatus
    /\ pricing \in {"held", "unlocked"}
    /\ ord \in [Orders -> OrderRow]
    /\ xfer \in [Xfers -> XferRow]
    /\ wallet \in [Orders -> WalletRow]
    /\ delivered \in [Xfers -> SUBSET Nat]
    /\ fate \in [Xfers -> {"none", "ok", "reverted"}]
    /\ pc \in [Collectors -> {"idle", "scanned", "loop", "loaded", "broadcast", "record"}]
    /\ todo \in [Collectors -> SUBSET Orders]
    /\ cur \in [Collectors -> Xfers \cup {NoXfer}]
    /\ view \in [Collectors -> [Orders -> OrderRow]]
    /\ vbatch \in [Collectors -> BatchStatus]
    /\ pend \in [Collectors -> BOOLEAN]
    /\ bad \in [Collectors -> BOOLEAN]
    /\ cand \subseteq Xfers

\* Whatever the workers, their crashes and their retries do, the chain never
\* receives two transactions for one row of fund_settlement_transfers: a buyer
\* is charged at most once and a wallet is topped up at most once
\* (persist_prepared_transfer_intent, broadcast_persisted_transfer_intent).
AtMostOneTransaction == \A x \in Xfers : \A r, s \in delivered[x] : r = s

\* An order is only ever booked as collected after its USDT transfer succeeded
\* on the chain (_collect_buy_order_usdt, _apply_confirmed_sent_transfer).
CollectedIsMined == \A o \in Orders : ord[o].collected => Mined(<<o, "usdt">>)

\* No USDT leaves a wallet that lacked gas before its top-up has arrived
\* (_ensure_user_wallet_gas comes before _collect_buy_order_usdt).
GasFirst ==
    \A o \in NeedGas : delivered[<<o, "usdt">>] # {} => Mined(<<o, "gas">>)

\* The rows of the collection keep the promise of the durable intents.
Intents == INSTANCE TransferIntent
    WITH Payments <- Xfers,
         signed   <- [x \in Xfers |-> xfer[x].raw],
         received <- {x \in Xfers : delivered[x] # {}},
         result   <- fate,
         credited <- {<<o, "usdt">> : o \in {p \in Orders : ord[p].collected}}

KeepsIntents == Intents!Spec

\* The balance of a buyer is decreased once, by the collection of the order
\* (confirm_sent_settlement_transfer: accounting is applied only when the
\* order is not buy_collected).
DebitedOnce ==
    \A o \in Orders :
        wallet[o].balance = OtherReserve + (IF ord[o].collected THEN 0 ELSE 1)

\* What a wallet has reserved and what it holds follow from the order: the
\* amount leaves the reserve once, by a release or by a collection, and the
\* balance by a collection only (release_buy_reserve_if_safe and
\* _confirm_buy_collection).
ReserveConserved ==
    \A o \in Orders :
        /\ ~(ord[o].collected /\ ord[o].released)
        /\ wallet[o].reserved = OtherReserve
              + (IF ord[o].collected \/ ord[o].released THEN 0 ELSE 1)

\* A buyer whose reserve was given back is not charged as well: no transaction
\* that could move the USDT of the order is with the chain or may still get there.
ReleasedNeverPaid ==
    \A o \in Orders : ord[o].released =>
        fate[<<o, "usdt">>] # "ok" /\ (xfer[<<o, "usdt">>].raw # 0
                                       => fate[<<o, "usdt">>] = "reverted")

\* A batch that has left collection does not come back to it, and does not
\* change from failed to ready or back (BATCH_TERMINAL_STATUSES of statuses.py).
TerminalIsTerminal ==
    [][(batch \in {"awaiting", "failed"}) => (batch' = batch)]_vars

\* A batch leaves collection with all orders collected, and only then is it
\* handed to the net execution.
ReadyIsCollected ==
    batch = "awaiting" => \A o \in Orders : ord[o].st = "buy_collected"

\* Every collection comes to an end: the batch is handed on, or it failed.
EventuallySettled == <>(batch \in {"awaiting", "failed"})
=============================================================================
