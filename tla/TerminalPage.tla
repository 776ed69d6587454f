---------------------------- MODULE TerminalPage ----------------------------
(***************************************************************************)
(* The terminal of static/js/terminal.js: the order panel, which keeps its *)
(* own account of what is available after each order, and the summary of   *)
(* the fund, polled on the events of the chart and on a timer of its own.  *)
(***************************************************************************)
EXTENDS Portfolio

CONSTANTS
  OrderAmounts,        \* amounts and shares the user types
  OrderMax,            \* BUY_MAX and REDEEM_MAX
  OrderEntryEnabled    \* data-order-entry-enabled of the panel

ASSUME OrderConstants ==
  OrderAmounts \subseteq Nat /\ OrderMax \in Nat /\ OrderEntryEnabled \in BOOLEAN

VARIABLE term    \* availUSDT, availShares, rows of the trade table, the price shown

AllRows == Rows(<<"trading", "all">>)

TermStart(avail, shares, rows, shown) ==
  [avail |-> avail, shares |-> shares, rows |-> rows, summary |-> shown]

\* initOrderPanel and initTerminalLiveSummary, over what the template was given.
TerminalLoads(pool) ==
  /\ term' = TermStart(ShownAvailable, AvailableShares, AllRows, price)
  /\ polls' = WithPoll(pool, "summary", None)

(***************************************************************************)
(* Orders: buyPending and redeemPending are the pending marks              *)
(***************************************************************************)
Order(side, gross) == [Request(side) EXCEPT !.gross = gross]

\* limitOrderAmount, on every input event: more than the maximum becomes the maximum.
LimitOrderAmount(typed) == IF typed > OrderMax THEN OrderMax ELSE typed

\* applyOrderEntryGateUI.
OrderEntryOpen == page = "terminal" /\ OrderEntryEnabled

\* What the panel takes to be available on a side.
Spendable(side) == IF side = "buy" THEN term.avail ELSE term.shares

\* canEnableBuyButton and canEnableRedeemButton, validateBuy and validateRedeem.
MayOrder(side, gross) ==
  OrderEntryOpen /\ gross > 0 /\ gross <= OrderMax /\ gross <= Spendable(side)

OrderClick(side) ==
  /\ \E typed \in OrderAmounts :
       LET gross == LimitOrderAmount(typed) IN
       MayOrder(side, gross) /\ Press(side, Order(side, gross))
  /\ UNCHANGED <<portfolioVars, term>>

\* insertPendingHistoryRow.
InsertPendingHistoryRow(rows) == rows + 1

\* updateAvailableUsdt and updateAvailableShares: Math.max(n, 0).
UpdateAvailable(value, spent) == IF spent < value THEN value - spent ELSE 0

BuyClick == OrderClick("buy")

\* The new balance is nested in the answer, out of this handler's sight, so it
\* subtracts.
Bought(c) ==
  /\ c.btn = "buy"
  /\ \/ Fails(c) /\ UNCHANGED term
     \/ /\ HearsOk(c)
        /\ term' = [term EXCEPT !.rows = InsertPendingHistoryRow(@),
                                 !.avail = UpdateAvailable(@, c.req.gross)]
        /\ UnlockActionButton(c.btn) /\ UNCHANGED cooling
  /\ UNCHANGED portfolioVars

RedeemClick == OrderClick("redeem")

\* Slip: the shares are taken from the balance.
RedeemedFromBalance(c) ==
  /\ c.btn = "redeem"
  /\ \/ Fails(c) /\ UNCHANGED term
     \/ /\ HearsOk(c)
        /\ term' = [term EXCEPT !.rows = @ + 1, !.avail = @ - c.req.gross]
        /\ UnlockActionButton(c.btn) /\ UNCHANGED cooling
  /\ UNCHANGED portfolioVars

Redeemed(c) ==
  /\ c.btn = "redeem"
  /\ \/ Fails(c) /\ UNCHANGED term
     \/ /\ HearsOk(c)
        /\ term' = [term EXCEPT !.rows = InsertPendingHistoryRow(@),
                                 !.shares = UpdateAvailable(@, c.req.gross)]
        /\ UnlockActionButton(c.btn) /\ UNCHANGED cooling
  /\ UNCHANGED portfolioVars

(***************************************************************************)
(* Live summary                                                            *)
(***************************************************************************)

\* Slip: no timer of its own, only the events of the chart.
PollSummaryOnEventsOnly == FALSE /\ UNCHANGED <<callVars, portfolioVars, term>>

\* The interval: nothing keeps two of these polls, or one of these and one on a
\* chart event, from being on their way together.
PollSummary ==
  /\ page = "terminal"
  /\ ~Full("summary")
  /\ Asks("summary", None)
  /\ UNCHANGED <<callVars, bookVars, term>>

\* applyTerminalLivePayload.
ApplyTerminalLivePayload(p) ==
  \/ /\ Takes("summary", p)
     /\ term' = [term EXCEPT !.summary = p.data]
     /\ UNCHANGED <<callVars, bookVars>>
  \/ Breaks("summary", p) /\ UNCHANGED term

TerminalAnswer(c) == Bought(c) \/ Redeemed(c)

(***************************************************************************)
(* Properties                                                              *)
(***************************************************************************)

\* The summary polls are not ordered, so an old price may be shown after a newer
\* one; when prices stop it settles on the last.
SummaryCatchesUp == <>[](page = "terminal" => term.summary = price)
=============================================================================
