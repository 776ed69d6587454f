# WildBoar platform: TLA+ models of the settlement core, the wallets and the investor's pages

WildBoar sells shares of crypto funds. A user deposits USDT into a wallet of his
own on BNB Smart Chain (BSC), places buy and redeem orders, and once a day each
fund settles its pending orders in one batch: the buyers' USDT is collected on
the chain, redeeming users are paid, the difference moves to or from the fund's
Bybit account, and shares are issued and burned. The platform is a FastAPI
application and about 25 worker processes over one PostgreSQL database. They
share state only through database rows (`SELECT ... FOR UPDATE`), the chain and
Bybit. Users reach it through server-rendered pages whose scripts (plain
JavaScript, no framework) post forms, poll live endpoints and keep state of
their own.

The models follow the source, not its documentation. There are three families,
which have in common that what is hard is not in one function:

* **the settlement core** (Python): what the workers do to each other between
  two commits, what a crash leaves behind, what the chain has done meanwhile;
* **the wallet workers** (Python): how a withdrawal is paid and how it and the
  deposits of the chain reach the balance a user may spend;
* **the pages** (JavaScript, with the Python routes they call): what the user,
  timers, polls and late or lost answers do between a click and its answer, and
  what overlapping requests do to each other on the server.

## Files

| Module | What it is |
|---|---|
| `TransferIntent` | abstract: what durable transfer intents promise |
| `BuyCollection` | collection of the buyers' USDT of one batch, two collectors, confirmation worker, chain |
| `FundLock` | abstract: what a fund's pricing lock promises |
| `Settlement` | orders, batches, pricing lock, reserves, failures and accounting of one fund over several days |
| `PositiveNet` | passes of the positive-net worker: payouts, net transfer, Bybit, accounting |
| `WalletLedger` | one user wallet: withdrawal processor, confirmations, balance updater, chain |
| `PageCalls` | what every page script does around a server call |
| `Account` | the user row, codes, tokens, cooldowns and sessions behind entry and security pages |
| `AuthRoutes`, `SettingsRoutes` | the routes of `app/auth` and `app/settings` |
| `AuthPages` | registration, login, forgotten and new password (`app.js`) |
| `SecurityPage` | password, e-mail slots, authenticator (`security_settings.js`) |
| `SiteAccess` | these two families of pages in one tab over one account |
| `Portfolio` | wallet, position, withdrawal sessions and orders of one investor, and the routes behind his pages |
| `WithdrawPage` | the withdrawal form and its confirmation dialog (`dashboard_wallet.js`) |
| `TerminalPage` | buy and redeem panels and the live summary (`terminal.js`) |
| `ChartFeed` | the chart's widgets and data feed (`terminal_chart.js`) |
| `HistoryPage` | the tabs of the history (`history.js`) |
| `InvestorPages` | dashboard, terminal and history in one tab of one investor |
| `BuyCollectionProofs`, `SettlementProofs`, `SiteAccessProofs`, `WithdrawPageProofs`, `ChartFeedProofs`, `WalletLedgerProofs`, `PositiveNetProofs` | TLAPS proofs |
| `SumLemmas` | lemmas about sums over finite sets, which the proofs about money rest on |
| `MCBuyCollection`, `MCSettlement`, `MCPositiveNet`, `MCWalletLedger`, `MCSiteAccess`, `MCInvestorPages` | instances for TLC |

Of the pages, `SiteAccess` is the top of the chain `PageCalls`, `Account`,
`AuthRoutes`, `AuthPages` and `SettingsRoutes`, `SecurityPage`; `InvestorPages`
that of `PageCalls`, `Portfolio`, `TerminalPage`, `ChartFeed`, `HistoryPage` and
`WithdrawPage`. Each module extends those it uses.

Run `tlc -config MCBuyCollection.cfg MCBuyCollection.tla` (and so on; PROJECT.json
lists the runs) and `tlapm BuyCollectionProofs.tla` (and so on).

## Inventory

The state named is what each part owns in the database or in the page; *hard* is
what a test reaches badly; *correct if* is what its model has to say.

**Buy collection** (`app/settlement/transfer_service.py`, `buy_reserve_service.py`,
`buy_collection_continuation.py`; three workers). State: batch status, orders
`settling -> buy_collecting -> buy_collected | failed`, rows of
`fund_settlement_transfers`, `user_wallets`. Operations: a collection pass over
the orders of a batch, the confirmation of one sent transfer, a scan for
batches to continue. Hard: a pass commits in its middle, so its locks are gone;
broadcasts whose answer is lost; crashes; two workers booking one transfer.
Correct if a buyer is charged once, only after the chain agreed, and a released
reserve is never charged.

**Durable intents** (`bsc_intent_service.py`). State: signed raw transaction,
nonce and hash on the transfer row (and, for the negative flow, rows of their
own with broadcast claims). Correct if what the chain can receive is on record
first and is never signed twice.

**Batches and pricing lock** (`batch_service.py`, `pricing_lock.py`,
`price_service.py`). State: `fund_settlement_batches` with price and share plan,
`fund_runtime_state`. Hard: two dates compete for one lock while others fail;
orders that commit late; stale NAV rows. Correct if the plan of a batch stays
valid until it is accounted.

**Order entry** (`app/trading`). Reserves USDT or shares. Correct if reserves
are backed and given back once.

**Failure and reserve release** (`negative_failure_service.py`,
`negative_external_state.py`, `redeem_reserve_service.py`). Releases what it can
prove safe; unlocks only when all was released.

**Accounting** (`accounting_service.py`, `negative_finalization.py`). Positions,
fund shares, orders and the lock in one transaction. Correct if no share is lost
or created.

**Positive-net execution** (`positive_net_service.py`, `payout_service.py`,
`bybit_deposit_service.py`). Sellers are paid, the net amount goes to Bybit, the
orders settle. Hard: one session per pass, external effects before its commit.
Correct if nobody is paid twice and nothing settles unfunded.

**Negative-net flow** (targets, sale, Bybit cash flow, payouts, finalization;
about 45,000 lines). Only its failures and its accounting are modelled so far.

**Authentication and settings routes** (`app/auth`, `app/settings`, `app/codes.py`,
`app/totp.py`). State: user row (two e-mail slots, password, authenticator), the
newest code of each purpose with its attempts, reset tokens, sessions, an
in-memory cooldown per action. Operations: register, login, reset, logout; send,
resend and confirm codes; change the password; add, confirm and delete
addresses; set up, confirm and remove the authenticator. Hard: `def` routes run
in threads and commit what they decided on rows read earlier; `verify_code` has no
lock. Correct if a code or token works once and the account can still be entered.

**Entry pages** (`static/js/app.js`) and **security page**
(`static/js/security_settings.js`). State: open modals, the step of each form,
pending and cooling buttons, the address a form waits for, the authenticator's
panel, whether it believes the authenticator is on. Hard: answers that come after
the dialog was closed or opened anew, or never; several slots with calls of their
own in flight; what is read once at load. Correct if every button comes back, a
code is asked for only where one was sent, and page and account agree.

**Dashboard and withdrawals** (`static/js/dashboard_wallet.js`, `app/dashboard`).
State: reserve of the wallet, withdrawal sessions, the withdraw code; the form with
its address status, the dialog with its token, the marks for cancelling and
processing. Operations: validate an address, get a code (which makes the
session), resend, confirm, cancel, live refresh. Hard: `withdraw_confirm` adds to
a reserve it neither locked nor checked again; a code reply may land in a dialog
that has moved on. Correct if what is confirmed is what is shown, the reserve adds
up, and what was cancelled is not made.

**Terminal and chart** (`static/js/terminal.js`, `terminal_chart.js`, and order
entry). State: the available amounts and pending rows, the summary; widgets, the
last-bar cache, the polls of the latest bar. Hard: overlapping polls, a rebuild
(`initChart`) that waits between removing and making a widget, answers for
widgets that are gone. Correct if a chart is never given an older bar, and the
panel agrees with the books.

**History** (`static/js/history.js`). State: three panels, the active tab. Hard: a
poll answered after the tab was switched. Correct if a panel holds its own rows.

**Wallet ledger** (`workers/bsc_usdt_deposit_listener.py`, `bsc_confirmations.py`,
`bsc_usdt_balance_updater.py`, `bsc_withdrawal_processor.py`). State: the same
`user_wallets` rows, `wallet_transfers`, the listener's cursor. Operations: backfill
and subscribe, record a deposit, confirm it, copy the chain's balance; top up gas,
pay out, take the fee, finish, replace a tainted wallet. Hard: a transaction is sent
before its hash is committed; balance and reserve are written on values read
earlier. Correct if success means paid, what is open stays reserved, a withdrawal
ends, and the balance comes to rest at that of the chain.

The **compliance checker**, fee-wallet swap and watchdogs, **allocation** (plans and
live Bybit orders), **NAV collection** and its guard, **operation
guard** and emergency lock, **operator actions** and gas recovery, the **web
shell**, e-mail and **Telegram**, the vendored **charting library**, the **Bybit
client** and the **scripts**: not modelled; see "Not modelled" below.

How they interact: order entry creates rows the settlement worker batches; the
worker takes the pricing lock, which stops the NAV collector from writing rows;
collection turns the batch over to the positive or negative flow by its status;
each flow's worker selects batches by status, and its accounting gives the lock
back. All of them write the wallets that deposits and withdrawals write too. The
pages reach the rest only through the routes: an order placed in the terminal is
the order the settlement worker finds, a confirmed withdrawal is a reserve the
withdrawal processor acts on. A page and its server share nothing but requests and
answers, and two requests of one tab share the rows they touch.

## The models and the code

### BuyCollection

One variable per table the passes write (`batch`, `pricing`, `ord`, `xfer`,
`wallet`), the chain (`delivered`, `fate`), and for each collector its position
in a pass. A collection pass is cut at its commits: `persist_prepared_transfer_intent`
and `persist_broadcast_transfer_result` commit, and each commit drops the row
locks and expires the session's objects. One step (`Stretch`) is everything a
pass does between two commits: it visits a prefix of the remaining orders, each
with an outcome of `Quiet` (skip, wait for gas, wait, collect, fail), and ends
with the order whose visit commits, or with the pass. `StartSettlement` and
`StartScanned` begin a pass with all locks; `Reload`/`Continue` are the later
stretches, on rows read without a lock (`view`, `vbatch`). SQLAlchemy's
`with_for_update` does not refresh an object the session has loaded, which is
why a stretch tests `view` and not `ord`, and writes an attribute only if its
value differs from what was loaded. `Deliver`, `Record`, `AlreadySent` and
`BroadcastError` are `broadcast_persisted_transfer_intent`; the intent an
earlier pass signed is broadcast inside the stretch, under its locks. A broadcast
error keeps the order and its intent for the next pass, but not one that comes of
asking the node for its chain's id (`BroadcastRaises`, and `Unreachable` inside a
stretch): that one fails the order with a signed intent on record. `Raised` is the
order of such a visit until the stretch that fails it. `Confirm*`
is the confirmation worker, `Crash` the end of a process at any point.

Abstractions: the orders are visited in the order of their ids (`created_at, id`
in the code); `Reload` refreshes all expired orders at once; every order has a
buyer of its own and an amount of one, and `OtherReserve` is what that buyer has
reserved elsewhere; the guard's refusals, RPC errors and empty gas wallets are
one fault, `"block"`; rows without a trace of a transaction equal no row. Faults
can be switched off by the constant `Faults`.

### Settlement

One action per database transaction of order entry, settlement worker,
collection, failure and accounting. The transactions hold `FOR UPDATE` locks on
what they read, so they are atomic. Amounts are integers: USDT in whole units,
shares in the share quantum of 0.0001, and `Issued` rounds down as
`calculate_successful_buy_share_quantity` does. `Place` dates an order today or
yesterday, because `created_at` is taken before the commit. `NextDay` lets the
NAV collector write the row of the cutoff only while pricing is unlocked, as
`run_collector_forever` does. `OpenBatch` is the run that creates, prices and
plans a batch (`live`: the live gate is open), `RejectBatch` the run whose checks
fail, which ends in `FailPreExternal`. It may refuse data the model does not hold
as well (a quantity that is no multiple of the quantum, a cost basis that does not
match), so `RejectBatch` needs no reason, and `RefusePositive` is the same refusal
by the positive-net worker. `External` looks at collected orders only, while
`inspect_negative_external_state` counts every transfer with a transaction: where the
model asks, a batch has no transfers yet, or its buy orders are all collected. The
details of collection are those of
`BuyCollection`; here an order is collected, fails in a pass, or is reverted by
the confirmation worker. `FinalizePositive` and `FinalizeNegative` share
`Account`; the latter also takes the buyers' reserves, as its code does.

`StopNegative` stands for every later failure of the negative-net flow. It is
terminal, so it covers what that flow can do to this state short of settling.

### PositiveNet

`work` is the session of the running pass and `db` what is committed; `Commit`,
`Abandon` and `Rollback` relate them. `txs` is what the nodes accepted from the
settlement wallet: `Accept` and `Mine` are the chain, with replacement of a
pooled transaction of the same nonce. Payouts use the nonce of mined
transactions (`get_transaction_count` without a block, that is `latest`) and
have no durable intent; the net transfer uses `pending` and has one. `Credit`,
`SettleTransfer` and the answers of `PostTransfer` are Bybit, which runs a
transfer id once. One process runs this worker. Dry-run, mock-confirm and
`--no-finalize` modes are left out. `RefuseShares` is the branch for
`SettlementShareQuantityError`, the one failure of a pass that is committed; that
its cause cannot be the plan's quantities is `PlanStaysValid` of `Settlement`.

### WalletLedger

`process_one` holds the locks of transfer and wallet from its first query to its
commit, so a visit is one step with many outcomes (`ProcessOne`): `GasTopup`,
`Payout` and `PaysFee` send, `Pending` waits, the `...Failed` actions and
`GasNeedExceedsMax` fail and release, `Finalize` succeeds. Only its last two
commits are apart (`rotating`). `Sends` is a send whose hash is committed,
`SendsUnrecorded` one the node took and the row does not know. `ConfirmReads` and
`ConfirmCommits` are `withdraw_confirm`, one at a time; `BalanceOf` and
`UpdateWalletBalance` the balance updater; both read without a lock and write
later. `due` is the comparison of `confirmed_at` with `usdt_balance_updated_at`.
The chain mines a wallet's transactions by nonce, and they succeed or revert. Gas
prices and BNB balances are not state: any visit of a transfer in the constant
`Short` may find too little, or too high a need. That the listener records a mined
deposit is assumed here; its backfill and cursor are not modelled. Refusals and lost
answers of a node are possible for every transfer.

### The pages: PageCalls

A handler locks its button (`lockActionButton`), awaits `fetch`, and releases the
button on the answer, an error status or a network error. A call is a record that
passes through stages: `sent`; `read`, when a threaded route has read the database
and not yet committed; `done`, when the answer is on its way. `Press` and `Fetch`
make calls, the routes move them from stage to stage, and the handlers of the
pages consume the answer (`HearsOk`, `HearsError`) or see the network fail
(`NetworkFails`: the request never arrived, or its answer is lost). A call is `owned` by
the page that waits for it; a navigation (`Leave`) disowns what is in flight,
and the server may still carry it out. `orphaned` records that some call took
effect, or may, unknown to its page. Routes declared with `def` run in the thread
pool and take two steps, the read and the commit; routes declared with `async
def` do not yield between their queries and take one.

### SiteAccess and its modules

`Account` has the rows; a code is the number of one that was issued, an
authenticator code is the secret it was computed from, `held` the secret on the
user's phone, `mailed` and `doubled` history for the properties. `AuthRoutes`
and `SettingsRoutes` have one operator per route; `RouteReads` is the common
first step of the threaded ones, and their commit writes only the attributes the
handler changed, as the ORM does. `MailsThenReplies` is a letter that may fail after
its code is live and the cooldown spent. A request whose session is gone is sent to
the home page, which `fetch` follows: the script hears a good answer without content,
and that of the authenticator, which asks for JSON, an error (`HomePage`). An
authenticator code of a time step that was used before is refused on every route that
asks for one (`TotpOutcomes`). Three overlaps of requests are left out; the head of `Account` says which.
`EmailSendCode` commits the address before its code, here in one step. `AuthPages` and `SecurityPage` have an action for
each click and each answer, named after the handler or the form. Fields are not
state: what was typed is chosen at the click. `SiteAccess` adds the navigation,
logout, and time. A visit (a member of the constant `Visits`) is a starting
point: an account and a button just pressed on a page just loaded; from there
every continuation within the bounds is explored.

### InvestorPages and its modules

`Portfolio` has the rows of one investor and the routes. `withdraw_request_code`
commits its code, sends the letter and then commits the session: two steps
(`WithdrawRequestCode`, `WithdrawRequestCommits`). `withdraw_confirm`
reads session and code, commits the use of the code and reads the wallet, then
writes the sum: three steps (`WithdrawConfirmReads`, `WithdrawConfirmVerifies`, `WithdrawConfirmCommits`).
Order entry locks the row it changes: one step. Polls are GET requests; they are
kept apart from calls (`polls`), because they change nothing on the server, may
overlap without limit but `MaxFlight`, and are dropped with their page.
`WithdrawPage` follows the dialog through getting a code, confirming,
cancelling and the processing modal. `ChartFeed` has `initChart` cut at its
awaits (`RemoveWidget`, `NewWidget`), `getBars`, `subscribeBars` and the poll of
the latest bar; a bar is its time. The charting library is external: a
widget asks for bars, subscribes when it has them, and asks for older ones when
the user scrolls. `InvestorPages` adds the route of the tab, the prices and the
compliance mark. While that mark is set, the pages are told that nothing is available
(`ShownAvailable`, as `get_user_portfolio` says it); the routes read the wallet itself.

### Abstract specifications

`TransferIntent` says what the "required durable boundary" of
`bsc_intent_service` is for; `BuyCollection` (for all its transfers, property
`KeepsIntents`) and `PositiveNet` (for the net transfer, `NetKeepsIntent`)
implement it. The seller payouts do not. `FundLock` says what `pricing_lock.py`
is for; `Settlement` implements it (`KeepsLock`).

Operators marked *Slip* are deliberately wrong variants of the operator below
them, each the change a plausible bug would make. Nothing uses them; putting one
in the place of its original breaks the property that PROJECT.json names, which
shows that the property depends on the code it is about.

## Runs

| Run | Bounds | Shows |
|---|---|---|
| `buy_workers` | 2 orders, 2 collectors, confirmation worker, all faults; 172,000 states | no second transaction, nothing booked before the chain, gas first, no debit below zero, intents kept |
| `buy_serial` | 3 orders, 1 collector, no confirmation worker, no reverts; 14,000 states | reserves conserved, released is never paid, terminal is terminal, every collection ends |
| `settle_days` | 3 orders, 2 users, 2 days, prices 2 and 3; 704,000 states | shares and reserves backed, the lock protects each plan, pending orders are batched |
| `positive_net` | 3 sellers, 6 transactions; 372,000 states | net after sellers, settled is funded, no waiting before the payouts are done, net intent kept |
| `site_access` | 2 calls at once, 3 calls, 1 network error, 1 wrong try, 11 visits; 2,394,000 states | codes and tokens work once, forms ask for codes that were sent, authenticator and page agree, no dead button, the primary address stays |
| `investor_pages` | 2 calls at once, 3 calls, 1 network error, 2 dialogs, 2 prices, 2 charts, 7 visits; 600,000 states | token and dialog agree, the reserve adds up, cancelled stays unmade, bars go forward, panels keep their rows, the summary catches up |
| `wallet_ledger` | 2 withdrawals of gross 2 and fee 1, balance 4, tainted, one with gas trouble, 1 deposit of 1, 1 unrecorded send or stop; 571,000 states | what is open is reserved, every withdrawal ends, the balance comes to rest |
| `buy_double_debit`, `buy_ready`, `settle_reserve`, `settle_no_orders`, `positive_paid` | the same instances, or smaller | the disagreements below |

Why the bounds are enough. Two orders give a collection a first order that
commits and a second that works on stale rows; a third one gives a failed order
between two that commit. Two collectors and a confirmation worker are all the
processes that write a batch in collection. Three orders over two cutoffs give
two batches that compete for the lock, a late order, a rejected batch and a user
with two open orders; the prices 2 and 3 make shares round down. Deposit and
holding of 4 for amounts of 2 make the second order of a user exhaust them.
Three payouts show every position of a failing one, and six transactions leave
room for two of them to be sent again.

Two withdrawals let the confirmation of one overlap the release of the other, and
one unrecorded send doubles a payout or a fee. One deposit can fall before, between
and after the updater's read and write; gas trouble is a matter of one transfer, so
one of the two has it. The run does not check for deadlock: once every withdrawal
has ended and the deposit is counted, nothing is left to do.

In the pages every race is between two: two requests, an answer and a
click, a poll and a rebuild; so two calls at once are enough, and the third lets
something be repeated after it. The visits set the stage for the cases that need
more (an account with a backup address, a page with a token, a dialog that is the
second one, a chart with moving prices) without the calls that lead there. One
network error is one lost answer or one lost request. The compliance status may change
in the visits where something depends on it (`checks`). With balance 4, shares 3, fee 1,
amounts 2 and 3 and orders of 2 and 4 an amount may be refused, or cut to the limit
of 3. Two amounts do not compete for the balance in three calls; for that
`ReserveIsAccounted` rests on its theorem, which has no such bound. Two
charts are a widget and the one that replaces it. Polls that could show nothing
new are left out, which loses no change of what is shown. `investor_pages` does
not check for deadlock: a visit has a last page and a last call, after which
nothing need happen.

### Fairness

`buy_serial` assumes strong fairness of the steps of the collector: the worker
is an endless loop (`while True` around `run_once`, every exception caught) and
is started again after it stops, so a step that is possible again and again is
taken. For a stretch that comes to a
broadcast it assumes that the broadcast is recorded if it is tried for ever
(`Effective`); a node that refuses for ever is no model of BSC. Crashes and
errors may still happen infinitely often. Reverts are excluded there, because a
pass cannot see one (see the hazards). `settle_days` assumes that days pass and
that the settlement worker runs for every date; nothing is assumed about
collection, accounting or users. `PendingIsBatched` speaks of orders of a day
that has a next run. `PositiveNet` states no liveness: what Bybit answers to a
repeated transfer id is outside the code, and a replaced payout never completes.

`WalletLedger` has one assumption: while the workers, the chain, or a request or
visit under way can move (`Moves`), one of them does in the end. The workers are
endless loops that catch every exception and are started again, the nodes mine what
they took, and somebody refills the fee wallet; each of these moves can be made
finitely often, so in the end all that can be made are. `Advances` is a visit that
gets somewhere: a node that refuses for ever is no model of BSC. Users and senders
owe nothing.

`InvestorPages` assumes weak fairness of each call in flight (`CallMoves`), of the
polls of the summary (`PollMoves`) and of the interval that sends them
(`PollsSummary`): a request is served and its answer or an error comes, since
`fetch` settles either way, and `setInterval` goes on. Users, prices and every
other timer owe nothing. `SummaryCatchesUp` then holds because prices
stop within the bound `MaxPrice`. `SiteAccess` has only safety properties.

### What the code does not keep

* `DebitedOnce`: a pass books a collection the confirmation worker has booked,
  because it tested the order before it locked the wallet
  (`transfer_service.py` 1700-1732, 556). Needs two workers on one batch and a
  buyer with another reserve.
* `ReadyIsCollected`: after a crash in the pass that failed an order, the next
  pass does not see that order and hands the batch over. The positive flow then
  refuses it (`_validate_buy_collection_completed`), so it stops there.
* `BuyReserveBacked`: the finalization of a negative-net batch takes the reserve
  of each buy order again. `BuyReserveAccounted`, checked on the same instance,
  says that this is the only thing a wallet's reserve is ever short of.
* `NoOrdersIsEmpty`: `--create-no-orders` overwrites a batch in flight.
* `PaidOnce`: a payout whose row was rolled back is sent again.

Five more that no run states as a property. The models reach the first four:

* The need of gas is compared with its limit on every visit, so a price rise after
  the payout fails a withdrawal that has been paid and releases its reserve
  (`bsc_withdrawal_processor.py` 316-324; the code's comment at 300 says "release
  reserve because we cannot proceed").
* The rotation of a tainted wallet follows the commit that ends the withdrawal; a
  stop or an RPC error in between (590-594) leaves the tainted wallet active, since
  nothing visits the withdrawal again.
* A withdrawal's payout whose hash was lost is paid again; withdrawals have no
  durable intent.
* The delete handler (`app/settings/routes.py` 258) counts addresses, verified or
  not, so the last verified one can be deleted while an unverified backup is on
  file, although the page promises that one verified address remains
  (`security_settings.html` 631). `LastEmailKept` is what remains true.
* Blocks between the end of the deposit listener's backfill and the start of its
  subscription (`bsc_usdt_deposit_listener.py` 579) are not asked for again once a
  later log has moved the cursor.

`BalanceSettles` excludes `missed`: a balance written late or not read at a success,
and a withdrawal that failed after it was paid, are repaired only by a later deposit.
`OpenIsReserved` says never too little: an overlap with `withdraw_confirm` can leave
too much reserved. Two overlapping confirmations lose a reserve; that is with
`ReserveIsAccounted` below.

The properties of the pages leave out, by name, what the code does not claim or
keep:

* `CodeUsedOnce`, `AuthenticatorMatches`, `TotpAskedWhenRequired`
  and `ReserveIsAccounted` exclude `orphaned`: after a reload or a lost
  answer the button is free again while the server still works on the first
  request, and nothing on the server stops the second one.
* `CodeUsedOnce` leaves out the registration purpose: both e-mail slots have a
  button of their own for codes of that purpose.
* `TokenIsShown` excludes a dialog that was opened anew while a code was
  awaited (`w.abandoned`): the reply of the first one puts its token into the second.
* `PendingIsAwaited` excludes the confirmation of a password change, whose button
  stays pending after a success, and the delete buttons, which stay
  pending while the authenticator modal is open or after Escape closed it.
* `BarsInOrder` is about each widget. Overlapping runs of `initChart` may lose
  the reference to a widget, which then stays subscribed for the rest of
  the page; the model has this.

`TerminalIsTerminal` holds with one collector at a time and not with two, since
`collect_buy_usdt_for_batch` sets its status without looking at the old one.

## Proofs

TLAPS proves, for every value of the constants:

* `BuyCollectionProofs`: `TypeCorrect`, `PaidOnce` (`AtMostOneTransaction`),
  `BookedWhenMined` (`CollectedIsMined`), `GasBeforeUsdt` (`GasFirst`) and
  `IntentsKept` (`KeepsIntents`, the refinement). The inductive invariant is
  `Inv`: types; `Durable`, a received transaction is the one on record and a
  mined one was received; `Funded`, USDT is only with the chain if gas was ready;
  `Passes`, a collector that is about to broadcast has a signed intent; and
  `CollectedIsMined`. `AtMostOneTransaction` alone is not inductive: it needs
  that a row signs only once (`Unprepared`) and that only its raw transaction is
  delivered. `StretchStep` says once what a stretch may do to rows and chain; the
  other lemmas go through the remaining actions.

  With one collector and no confirmation worker (`OneCollector`, the setting of
  `MCBuySerial`, here with any number of orders, reverts and crashes) it proves
  `ReserveTakenOnce` (`ReserveConserved`), `ReleasedIsUnpaid` (`ReleasedNeverPaid`),
  `TerminalStays` (`TerminalIsTerminal`) and `BalanceDebitedOnce` (`DebitedOnce`). `Alone`
  says why it takes a second worker to break them: what the pass has reloaded is what
  the tables hold, a pass is under way only while the batch collects, and no order it
  has still to visit, or is broadcasting for, has failed. That `MCBuyDebit` refutes `DebitedOnce` with two workers
  shows that the hypothesis is needed.
* `SettlementProofs`: `LockHeld` (`LockedWhileInFlight`) and `LockRefined`
  (`KeepsLock`). The invariant adds the shapes of batches and orders and
  `SettlingIsBatched`: an order in collection belongs to a batch, without which
  the revert of an order could unlock on behalf of a day that does not exist.
  The property needs both its halves: the share count can only be kept if
  whoever changes it holds the lock.

  Then the money, for any number of users, orders, days and quantities:
  `SettlementTypes` (`TypeOK`), `FundBacked` (`SharesBacked`), `RedeemReserveHeld`
  (`RedeemReserveBacked`), `BuyReserveHeld` (`BuyReserveAccounted`) and `PlanKept`
  (`PlanStaysValid`). None is inductive alone, and `MoneyInv` proves them together:
  shares stay backed only because accounting issues and burns what the batch
  planned; that plan can be accounted only because each redemption in it is still
  reserved in its position; and a reserve is within its position or wallet only
  because it is the sum of what the orders claim. What else `MoneyInv` says: how
  the status of an order goes with its batch, its collection and its release
  (`RowTells`: without it, a failure might give back a reserve a second time, or
  that of an order already settled); a batch in flight plans what its orders add
  up to and awaits its net on the side of its plan (`FlightTells`); a day without
  a batch has no orders (`Unbegun`); a usable NAV row has a price (`NavTells`).
* `SumLemmas`: the model adds up with `MapThenSumSet`, in the order `CHOOSE` gives.
  The proofs count the units of a sum instead, and `FoldedIsSum` shows that both
  are the same number. The library's induction theorems take an operator as a
  parameter; `SubsetsFromSmaller` does without: a set of subsets that has every
  subset whose smaller ones it has is all of them, because strict inclusion in a
  finite set is well-founded. From it come the sums of parts, of a set with one
  more element, and key by key (`SumByKey`: what each user is issued is, over all
  users, what the batch issues).
* `SiteAccessProofs`: `NoDeadButton` (`PendingIsAwaited`), `CodeAskedWasMailed`
  (`Step2HasCode`), `TokenAcceptedOnce` (`ResetTokenOnce`) and
  `PrimaryEmailKept` (`LastEmailKept`). The first is inductive almost as it stands
  (`PendingWaits`): an answer that is taken releases the button it was for, and
  only a click that sends a request locks one. The other three share `Inv`: a token
  that has set a password is marked used (`TokensMarked`); the account, and the
  row every request has read, keep the field of their two addresses (`UserRow`); a
  good answer that opens a second step was preceded by its mail, and no request
  would store the empty address (`Announced`, `Good`); a form in its second step
  has its mail (`EntryShown`). `Step2HasCode` alone is not inductive, because the
  answer that opens the step is under way while the page does not show it yet.
* `SiteAccessProofs`, second half: `CodePassesOnce` (`CodeUsedOnce`),
  `AuthenticatorIsHeld` (`AuthenticatorMatches`) and `TotpIsAskedFor`
  (`TotpAskedWhenRequired`). They share `AuthInv`, which has two parts. What the
  server keeps (`ServerKept`) holds in every state: a code that was taken is no
  longer the live one (`CodesKept`), the code row a request has read exists
  (`RowsKept`), and without an account there is no session, no code and no request
  that saw either (`Unregistered`), so a new user row never replaces one with an
  authenticator. The rest holds while no request has outlived its page or its
  answer: each kind of request that must not overlap has one button, which is
  pending as long as the request is on its way (`OneEach`); so the code such a
  request has read as unused still is (`RowsFresh`), and a panel of the
  authenticator agrees with the account until the answer to its own request has
  left the server (`Panels`), at which point the answer does (`Effect`). None of
  the three is inductive alone: a code passes twice because of what two requests
  have read before, and the page is told of the authenticator by answers under way.
* `SiteAccessProofs`, last part: `SiteTypes` (`TypeOK`). What a page may show is a
  matter of each step, but how high secrets, tokens and codes are numbered is not:
  `MaxCalls` bounds the calls, not what they make. Each of these is made by answering
  a call, so `Budget` says that their number and the calls still to be answered are
  together no more than the calls made and what the visit began with; a request that
  is answered gives up its share.
* `WithdrawPageProofs`: `DialogShowsToken` (`TokenIsShown`), `CancelledStaysUnmade`
  (`CancelledNeverWithdrawn`) and `ReserveCovered` (`ReserveIsAccounted`). For the
  first two the invariant adds what calls and answers say of the dialog
  (`AskedForShown`): an awaited code request names the address and amount shown, and
  its good answer carries the token of a session for them. The reserve is not
  inductive by itself, as the server checks neither it nor the session again
  before it writes. `CallsAccounted` says that the reserve a confirmation has read
  is still the wallet's, since there is one confirmation at a time and no order
  entry in its document; `HeldFits` says that what a token in the dialog, in a
  confirmation or in an answer stands for was not transferred and fits the
  available balance, until the one confirmation of the document has gone through,
  after which its button stays pending. The sum over sessions is the one of
  `SumLemmas`.
* `ChartFeedProofs`: `BarsForward` (`BarsInOrder`) and `PanelKeepsRows`
  (`PanelOwnRows`). The invariant `FeedInv` says
  which polls belong to which widget (`PollsByKind`, `BarPolls`), that no bar is
  shown or under way that has not existed, and `Guarded`: a widget is not ahead of
  the bar its subscription drops older ones by, or, where that bar was taken from a
  cache that older history had overwritten, no older answer is around. For the
  history, `HistInv` says that one poll at a time is awaited and brings at least the
  rows its panel has (`OneHistoryPoll`), which holds because orders and transfers
  only grow in number (`RowsGrow`) and no panel shows more than there are.

  Its last part is `PagesTypes` (`TypeOK` of `InvestorPages`). `TypeInv` adds what the
  types rest on: each call in flight has a number of its own (so there are at most
  `MaxFlight`); requests, answers and dialog name sessions that were begun; the open
  form and its timer, every kind of poll and the chart belong to a page and end with
  it. That the order panel never shows less than nothing to be available is only so
  while no request has outlived its page, because `get_user_portfolio` subtracts the
  reserve without a look at 0; it comes from `ReserveInv` of `WithdrawPageProofs`.
* `PositiveNetProofs`: `NetTypes` (`TypeOK`), `NetLeavesLast` (`NetAfterSellers`),
  `SettledAfterFunding` (`SettledIsFunded`), `WaitingCanGoOn` (`WaitingIsPaidOut`)
  and `NetIntentKept` (`NetKeepsIntent`, the refinement of `TransferIntent`). A pass
  works on a session while the database keeps what was committed, and may end with a
  rollback, so `IInv` says of both books that they are `Sound`: what they record
  happened on the chain or at Bybit, and what follows the payouts has `paidOut`.
  `WorldTrue` is about chain and Bybit themselves, `Agreed` about what the session may know that the database does not, and
  `NetOnce` says that the net transfer has one transaction. `NetAfterSellers` alone is not
  inductive: it compares the chain with rows that a rollback puts back. `StagesTrue`
  says which rows a stage of the pass has already gone through.
* `WalletLedgerProofs`: `LedgerTypes`, `SuccessPaid` (`SuccessIsPaid`: a success has
  a payout and a fee that succeeded on the chain), `FeeFollowsPayout`
  (`FeeAfterPayout`: no fee, recorded or not, is sent before the recorded payout
  succeeded) and `OpenStaysReserved` (`OpenIsReserved`). No run repeats the first
  three. For `OpenStaysReserved`, `ReserveInv` says that the reserve covers the open
  transfers of the wallet (`Covers`) and that what `withdraw_confirm` has read and
  will write covers them too (`ReadsCover`): without it, the
  late write could leave a reserve too small for the transfers still open. For the
  others `Inv` adds that a recorded transaction
  exists (`Recorded`), so that a later append does not change what a receipt says.
  `VisitSaves` says what a visit that leaves the transfer open may send: a payout is
  sent again only while none is on record, when no fee can have been sent yet.

The only assumptions are the named `ASSUME`s of the modules, which TLC evaluates
for every instance: the bounds are natural numbers, amounts and shares are
naturals, the users and the order ids of `Settlement` are finitely many, and visits
start within the bounds they are given, with a well-formed account (its first secret,
if it has one, is number 1) and the request of a button the page shows when it is
loaded (`VisitsStart`, `FirstRequest`): a visit that began with a code, a panel or a
modal no page could have shown would prove nothing about the site. As such a visit has
one request on its way, `VisitBounds` asks for room for one.

Every safety property of a passing run is proved, action properties and refinements
included. Model-checked only is liveness, which the provers do not reach:
`EventuallySettled`, `PendingIsBatched`, `SummaryCatchesUp`, `WithdrawalEnds` and
`BalanceSettles`. The properties of the runs that expect a violation are, of course,
not theorems.

## Not modelled

* **Negative-net sale, Bybit cash flow, payouts, allocation**: about 45,000 lines
  of which each step waits for an answer of Bybit whose meaning is outside the
  repository; `StopNegative` covers how they end for the rest of the system.
* **Durable BSC intents of the negative flow, gas and operator actions**: claims
  with expiry and reconciliation. The hazards name what they are exposed to.
* Of the **wallet workers**: the deposit listener's backfill, subscriptions and
  cursor (a mined deposit is taken as recorded in the end), the compliance checker, the swap of fee wallets and the
  watchdogs; reorganisations of the chain.
* **Operation guard, emergency lock, live gate, NAV collection**: present as a
  refusal, an open or closed gate, and a row that is there or not.
* Of the **modelled routes and pages**: the expiry of sessions, codes and tokens.
  `withdraw_confirm` looks at `expires_at` once, when it begins (`app/dashboard/routes.py`
  532), so a withdrawal session may expire during its confirmation and still be
  transferred; what is said of cancelled sessions is not said of expired ones;
  recovery codes, which count as authenticator codes; the deposit modal, the
  clipboard, warning and success modals without state of their own; cookie notice,
  sidebar, accordions and dropdowns; the formatting of fields and figures; export
  links; the chart's resolution switch and `unsubscribeBars`.
* **Charting library, Telegram, e-mail, web shell, scripts**: vendored code,
  rendering, notification and one-off tools.

## Possible extensions

1. `BscIntent`: the durable intents of the negative flow with claims that expire
   and reconciliation, implementing `TransferIntent`.
2. `DepositListener`: backfill, subscriptions and cursor; `WalletLedger` composed
   with it, collection, order entry and `Portfolio` over one `user_wallets` row.
3. `NegativeSale` and the Bybit cash flow, composed with `Settlement` in place of
   `StopNegative`.
4. A second tab: two pages with their own handlers over one account.
