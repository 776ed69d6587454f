---------------------------- MODULE InvestorPages ----------------------------
(***************************************************************************)
(* One browser tab that moves between the dashboard, the terminal and the  *)
(* history of one investor.  Moving on drops the handlers and polls of the *)
(* old page; what it has posted the server still carries out.              *)
(***************************************************************************)
EXTENDS ChartFeed, HistoryPage, WithdrawPage, FiniteSetsExt

CONSTANT Visits    \* how visits start

ASSUME VisitsStart ==
  \A v \in Visits : /\ v.route \in Seq({"dashboard", "terminal", "history"})
                    /\ v.price \in 1..MaxPrice /\ v.opened \in 0..MaxOpens
                    /\ v.made \in 0..MaxCalls /\ v.losses \in 0..MaxLost

VARIABLE visit     \* whether the fund has a chart, and bounds: the pages the tab will
                   \* go to, the times the address will be typed, whether the compliance
                   \* status will change

vars == <<callVars, portfolioVars, withdrawVars, term, feed, hist, visit>>

Pages == {"blank", "dashboard", "terminal", "history"}
Buttons == {"getCode", "resend", "confirm", "cancel", "buy", "redeem"}

NoDashboard == FormStart(0, FALSE)
NoTerm == TermStart(0, 0, 0, 0)

\* A document is loaded: its scripts start over, with the polls they begin with.
Loads(to) ==
  \/ /\ to = "dashboard" /\ DashboardLoads(NoPolls)
     /\ term' = NoTerm /\ feed' = FeedStart(FALSE) /\ hist' = HistoryStart
  \/ /\ to = "terminal" /\ TerminalLoads(NoPolls) /\ feed' = FeedStart(visit.chart)
     /\ form' = NoDashboard /\ w' = DialogStart /\ hist' = HistoryStart
  \/ /\ to = "history" /\ HistoryLoads(NoPolls)
     /\ term' = NoTerm /\ feed' = FeedStart(FALSE)
     /\ form' = NoDashboard /\ w' = DialogStart

\* A visit begins with the tab before its first page, or on the dashboard with an
\* address typed into the form and found valid.  Its bounds are the pages it goes to,
\* the times the address is typed, whether deposits are checked meanwhile, and what it
\* has used up of the openings of the dialog, the calls, the network errors and the
\* prices.
Visit == [route |-> <<>>, chart |-> FALSE, edits |-> 0, checks |-> FALSE, opened |-> 0,
          made |-> 0, losses |-> MaxLost, price |-> MaxPrice, blocked |-> FALSE]

Init ==
  \E v \in Visits :
    /\ page \in {"blank", "dashboard"}
    /\ page = "dashboard" <=> v.route = <<>>
    /\ visit = [route |-> v.route, chart |-> v.chart, edits |-> v.edits,
                checks |-> v.checks]
    /\ locked = {} /\ cooling = {} /\ calls = {}
    /\ made = v.made /\ losses = v.losses /\ orphaned = FALSE
    /\ PortfolioInit(v.price, v.blocked)
    /\ w = [DialogStart EXCEPT !.seq = v.opened]
    /\ form = IF page = "blank" THEN NoDashboard
              ELSE [FormStart(ShownAvailable, v.blocked) EXCEPT
                      !.open = {"form"}, !.addr = "x", !.status = "valid"]
    /\ term = NoTerm /\ feed = FeedStart(FALSE)
    /\ hist = HistoryStart

\* A link or the address bar; the dashboard leads to the terminal by its invest links.
Navigate ==
  /\ visit.route # <<>>
  /\ visit' = [visit EXCEPT !.route = Tail(@)]
  /\ LET to == Head(visit.route) IN
     /\ page = "dashboard" /\ to = "terminal" => InvestAvailable
     /\ Leave(to, calls)
     /\ Loads(to)
  /\ UNCHANGED bookVars

User ==
  \/ WithdrawUser /\ UNCHANGED <<term, feed, hist, visit>>
  \/ /\ TypeAddress /\ UNCHANGED <<term, feed, hist>>
     /\ visit.edits > 0 /\ visit' = [visit EXCEPT !.edits = @ - 1]
  \/ (BuyClick \/ RedeemClick) /\ UNCHANGED <<withdrawVars, feed, hist, visit>>
  \/ Navigate

\* Timers and events of the scripts.  Bound: here and below, polls of an interval that
\* could show nothing new are left out.
Scripts ==
  \/ ValidateAddressDebounced /\ UNCHANGED <<term, feed, hist, visit>>
  \/ /\ <<ShownAvailable, blocked>> # <<form.avail, form.blocked>>
     /\ PollDashboardLive /\ UNCHANGED <<term, feed, hist, visit>>
  \/ /\ \E i \in Charts : PollLatestBar(i) /\ feed.charts[i].newest # price
     /\ UNCHANGED <<withdrawVars, hist, visit>>
  \/ ChartStep /\ UNCHANGED <<withdrawVars, hist, visit>>
  \/ HistoryStep /\ UNCHANGED <<withdrawVars, term, feed, visit>>

PollsSummary ==
  /\ term.summary # price
  /\ PollSummary /\ UNCHANGED <<withdrawVars, feed, hist, visit>>

\* A call moves on: at the server, or by its answer reaching the page.
CallMoves(id) ==
  \E c \in calls :
    /\ c.id = id
    /\ \/ PortfolioRoute(c) /\ UNCHANGED <<withdrawVars, term, feed, hist, visit>>
       \/ WithdrawAnswer(c) /\ UNCHANGED <<term, feed, hist, visit>>
       \/ TerminalAnswer(c) /\ UNCHANGED <<withdrawVars, feed, hist, visit>>

Report(kind, id) ==
  /\ \E p \in polls[kind] : p.id = id /\ LiveEndpoint(kind, p)
  /\ UNCHANGED <<withdrawVars, term, feed, hist, visit>>

\* The answer of a poll reaches the page.
Apply(kind, id) ==
  \E p \in polls[kind] :
    /\ p.id = id
    /\ \/ /\ \/ kind = "validate" /\ AddressValidated(p)
             \/ kind = "options" /\ LoadEmailOptions(p)
             \/ kind = "dashboard" /\ ApplyDashboardLive(p)
          /\ UNCHANGED <<term, feed, hist, visit>>
       \/ /\ \/ kind = "summary" /\ ApplyTerminalLivePayload(p) /\ UNCHANGED feed
             \/ kind = "bars" /\ GetBars(p)
             \/ kind = "latest" /\ LatestBarArrives(p)
          /\ UNCHANGED <<withdrawVars, hist, visit>>
       \/ kind = "history" /\ ApplyHistory(p) /\ UNCHANGED <<withdrawVars, term, feed, visit>>

PollMoves(kind, id) == Report(kind, id) \/ Apply(kind, id)

\* Bound: after the last call nothing waits for a timer.
Elsewhere ==
  /\ \/ PriceTicks
     \/ visit.checks /\ ComplianceChanges
     \/ made < MaxCalls /\ CooldownEnds /\ UNCHANGED portfolioVars
     \/ made < MaxCalls /\ CooldownPasses
  /\ UNCHANGED <<withdrawVars, term, feed, hist, visit>>

Next ==
  \/ User \/ Scripts \/ PollsSummary \/ Elsewhere
  \/ \E id \in Ids : CallMoves(id)
  \/ \E kind \in Kinds, id \in Ids : PollMoves(kind, id)

\* Every request is served and every answer comes, and the interval of the summary
\* goes on.  Users and the rest of the platform owe nothing.
Fairness ==
  /\ \A id \in Ids : WF_vars(CallMoves(id)) /\ WF_vars(PollMoves("summary", id))
  /\ WF_vars(PollsSummary)

Spec == Init /\ [][Next]_vars /\ Fairness

(***************************************************************************)
(* Properties                                                              *)
(***************************************************************************)

\* The variables stay within their types: every call has a number and a button, every
\* poll is of a kind the page has, tokens are only those of sessions that were begun,
\* and the order panel does not show less than nothing to be available.  It may once a
\* request has outlived its page: get_user_portfolio subtracts without a look at 0.
TypeOK ==
  /\ page \in Pages
  /\ locked \subseteq Buttons /\ cooling \subseteq {"getCode", "resend"}
  /\ made \in 0..MaxCalls /\ losses \in 0..MaxLost /\ orphaned \in BOOLEAN
  /\ Cardinality(calls) <= MaxFlight
  /\ \A c \in calls : c.id \in Ids /\ c.btn \in Buttons /\ c.req.token <= Len(sessions)
  /\ \A kind \in Kinds : polls[kind] # {} =>
       kind \in CASE page = "dashboard" -> {"validate", "options", "dashboard"}
                  [] page = "terminal" -> {"summary", "latest", "bars"}
                  [] page = "history" -> {"history"}
                  [] page = "blank" -> {}
  /\ wallet.balance = Balance /\ wallet.reserved \in Nat
  /\ position.reserved \in 0..Shares
  /\ form.open \subseteq {"form", "confirm", "processing"}
  /\ form.status \in {"empty", "valid", "checksum", "invalid"}
  /\ w.token \in 0..Len(sessions) /\ w.slot \in {0} \cup Slots /\ w.seq \in 0..MaxOpens
  /\ term.avail <= Balance /\ (~orphaned => term.avail \in Nat) /\ term.shares \in 0..Shares
  /\ term.summary \in 0..MaxPrice
  /\ feed.widget \in 0..MaxCharts /\ feed.cache \in 0..MaxPrice
  /\ hist.tab \in Tabs

\* What the transfers of withdrawals add up to.
Withdrawn ==
  MapThenSumSet(LAMBDA t : sessions[t].gross * sessions[t].transfers, DOMAIN sessions)

\* The reserve is what the orders and the transfers of withdrawals add up to, no
\* withdrawal was made twice, and the balance covers it all: withdraw_confirm neither
\* locks the wallet nor looks at its balance again, so this rests on the page having
\* one request at a time and one session.  Not so once a request has outlived its
\* answer or its page.
ReserveIsAccounted ==
  ~orphaned =>
    /\ wallet.reserved = orders.spent + Withdrawn
    /\ \A t \in DOMAIN sessions : sessions[t].transfers <= 1
    /\ wallet.reserved <= wallet.balance

\* A step that is not the load of a document.
SameDocument == visit'.route = visit.route

\* The bars a widget is given never go back in time, although the polls for them
\* overlap, the cache is overwritten by older history, and the polls of a removed
\* widget still arrive.
BarsInOrder ==
  [][SameDocument =>
       \A i \in Charts : feed.charts[i].newest <= feed'.charts[i].newest]_vars

\* A panel only ever holds rows of its own tab, and none it had is lost, whichever
\* tab is shown when the answer of a poll arrives.
PanelOwnRows ==
  [][SameDocument =>
       \A tab \in Tabs : /\ hist'.panels[tab].tab = tab
                         /\ hist'.panels[tab].rows >= hist.panels[tab].rows]_vars
=============================================================================
