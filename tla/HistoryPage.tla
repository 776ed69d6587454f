---------------------------- MODULE HistoryPage ----------------------------
(***************************************************************************)
(* The history of static/js/history.js: a panel of rows for each section   *)
(* and sub, of which one is shown and polled.  The answer of a poll names  *)
(* the section and sub it was asked for.                                   *)
(***************************************************************************)
EXTENDS Portfolio

VARIABLE hist    \* the tab shown, and in each panel the tab of its rows and their number

HistoryStart ==
  [tab |-> <<"trading", "all">>,
   panels |-> [tab \in Tabs |-> [tab |-> tab, rows |-> Rows(tab)]]]

PollsHistory(pool, tab) ==
  polls' = IF pool["history"] = {} THEN WithPoll(pool, "history", tab) ELSE pool

\* initHistoryTabs; the address names the tab.
HistoryLoads(pool) ==
  /\ \E tab \in Tabs : /\ hist' = [HistoryStart EXCEPT !.tab = tab]
                       /\ PollsHistory(pool, tab)

\* showPanel.
ShowPanel(tab) == hist' = [hist EXCEPT !.tab = tab]

\* renderLiveTable: a row for each one of the answer.
RenderLiveTable(tab, rows) == [tab |-> tab, rows |-> rows]

\* setMain and setSub: the panel is shown and restartPolling polls at once, unless a
\* poll is awaited.
SetTab ==
  /\ page = "history"
  /\ \E tab \in Tabs :
       /\ ShowPanel(tab)
       /\ PollsHistory(polls, tab)
  /\ UNCHANGED <<callVars, bookVars>>

\* pollActiveHistory on the interval.
PollActiveHistory ==
  /\ page = "history" /\ polls["history"] = {}
  /\ PollsHistory(polls, hist.tab)
  /\ UNCHANGED <<callVars, bookVars, hist>>

\* Slip: the rows go to the panel that is shown.
RowsToShownPanel(p) ==
  /\ Takes("history", p)
  /\ hist' = [hist EXCEPT !.panels[hist.tab] = RenderLiveTable(p.arg, p.data)]
  /\ UNCHANGED <<callVars, bookVars>>

\* The rows go to the panel the answer names.
ApplyHistory(p) ==
  \/ /\ Takes("history", p)
     /\ hist' = [hist EXCEPT !.panels[p.arg] = RenderLiveTable(p.arg, p.data)]
     /\ UNCHANGED <<callVars, bookVars>>
  \/ Breaks("history", p) /\ UNCHANGED hist

HistoryStep == SetTab \/ PollActiveHistory
=============================================================================
