------------------------------ MODULE ChartFeed ------------------------------
(***************************************************************************)
(* The chart of the terminal, static/js/terminal_chart.js: initChart,      *)
(* which waits for the library and for two frames between taking the old   *)
(* widget away and making the new one, and the data feed it hands to the   *)
(* library: getBars, subscribeBars with its poll of the latest bar, and    *)
(* the last-bar cache behind both.                                         *)
(*                                                                         *)
(* The library is external: a widget asks for the newest bars, subscribes  *)
(* once it has them, and asks for older ones when the user scrolls.  A bar *)
(* is its time.  Widgets are numbered; initChart may overlap itself, and   *)
(* then a widget loses the reference that removeWidget would need.         *)
(*                                                                         *)
(* Bound: MaxCharts widgets in a page load.                                *)
(***************************************************************************)
EXTENDS TerminalPage

CONSTANT MaxCharts

ASSUME ChartConstants == MaxCharts \in Nat

VARIABLE feed   \* runs of initChart at each await, the theme timer, the widget,
                \* the cache, and what each widget shows

Charts == 1..MaxCharts

Blank == [stage |-> "none", last |-> 0, newest |-> 0]

FeedStart(starts) ==
  [waiting |-> IF starts THEN 1 ELSE 0, frames |-> 0, themeDue |-> FALSE,
   widget |-> 0, cache |-> 0, charts |-> [i \in Charts |-> Blank]]

Free == {i \in Charts : feed.charts[i].stage = "none"}
Starting == feed.waiting + feed.frames + (IF feed.themeDue THEN 1 ELSE 0)

(***************************************************************************)
(* The widget                                                              *)
(***************************************************************************)

\* data-theme changes: the timer starts again.
ThemeToggle ==
  /\ page = "terminal" /\ Cardinality(Free) > Starting
  /\ feed.widget # 0 \/ Starting > 0
  /\ ~feed.themeDue
  /\ feed' = [feed EXCEPT !.themeDue = TRUE]
  /\ UNCHANGED <<callVars, portfolioVars, term>>

\* The timer ends: initChart again, up to waitForTradingView.
ThemeRebuild ==
  /\ feed.themeDue
  /\ feed' = [feed EXCEPT !.themeDue = FALSE, !.waiting = @ + 1]
  /\ UNCHANGED <<callVars, portfolioVars, term>>

\* clearAllSubscriptions: no polls of the latest bar any more.
ClearAllSubscriptions(charts) ==
  [i \in Charts |-> IF charts[i].stage = "subscribed"
                    THEN [charts[i] EXCEPT !.stage = "frozen"] ELSE charts[i]]

\* The library is there: removeWidget with clearAllSubscriptions, up to
\* waitTwoFrames.
RemoveWidget ==
  /\ feed.waiting > 0
  /\ feed' = [feed EXCEPT
       !.waiting = @ - 1, !.frames = @ + 1, !.widget = 0,
       !.charts = [i \in Charts |->
          IF i = feed.widget THEN [@[i] EXCEPT !.stage = "removed"]
          ELSE ClearAllSubscriptions(@)[i]]]
  /\ UNCHANGED <<callVars, portfolioVars, term>>

\* new TradingView.widget; it asks for the newest bars.
NewWidget ==
  /\ feed.frames > 0
  /\ ~Full("bars")
  /\ \E i \in Free :
     /\ \A j \in Free : i <= j
     /\ feed' = [feed EXCEPT !.frames = @ - 1, !.widget = i,
                             !.charts[i].stage = "loading"]
     /\ Asks("bars", <<i, FALSE>>)
  /\ UNCHANGED <<callVars, bookVars, term>>

(***************************************************************************)
(* The data feed                                                           *)
(***************************************************************************)

\* The user scrolls back.  Bound: not while the bars in the cache are as old.
ScrollBack ==
  /\ feed.cache > 1
  /\ feed.widget # 0 /\ feed.charts[feed.widget].stage \in {"shown", "subscribed"}
  /\ ~Full("bars")
  /\ Asks("bars", <<feed.widget, TRUE>>)
  /\ UNCHANGED <<callVars, bookVars, term, feed>>

\* normalizeUdfBars: the bars of an answer by time, of which the last one counts.
LastBar(p) == p.data

\* getBars: whatever was asked for, its last bar becomes the cached one.
GetBars(p) ==
  \/ /\ Takes("bars", p)
     /\ LET i == p.arg[1] IN
        feed' = [feed EXCEPT
          !.cache = LastBar(p),
          !.charts[i] = IF @.stage = "loading" /\ ~p.arg[2]
                        THEN [@ EXCEPT !.stage = "shown", !.newest = LastBar(p)] ELSE @]
     /\ UNCHANGED <<callVars, bookVars, term>>
  \/ Breaks("bars", p) /\ UNCHANGED <<term, feed>>

\* subscribeBars: the subscription starts from the cache and polls at once.
SubscribeBars ==
  /\ ~Full("latest")
  /\ \E i \in Charts :
       /\ feed.charts[i].stage = "shown"
       /\ feed' = [feed EXCEPT !.charts[i].stage = "subscribed",
                               !.charts[i].last = feed.cache]
       /\ Asks("latest", i)
  /\ UNCHANGED <<callVars, bookVars, term>>

\* The interval of a subscription: polls are not kept from overlapping.
PollLatestBar(i) ==
  /\ feed.charts[i].stage = "subscribed"
  /\ ~Full("latest")
  /\ Asks("latest", i)
  /\ UNCHANGED <<callVars, bookVars, term, feed>>

\* Slip: the bar is passed on without a look at the previous one.
LatestBarUnguarded(p) ==
  /\ p.done
  /\ polls' = WithPoll(Heard("latest", p), "summary", None)
  /\ feed' = [feed EXCEPT !.cache = p.data, !.charts[p.arg].last = p.data,
                          !.charts[p.arg].newest = p.data]
  /\ UNCHANGED <<callVars, bookVars, term>>

\* The rest of pollLatestBar: the event for the summary, and a bar that is not older
\* than the previous one.  A poll keeps its subscription object over the await, also
\* when the subscription was cleared meanwhile.
LatestBarArrives(p) ==
  \/ /\ p.done
     /\ polls' = WithPoll(Heard("latest", p), "summary", None)
     /\ LET chart == feed.charts[p.arg] IN
        feed' = IF LastBar(p) >= (IF chart.last # 0 THEN chart.last ELSE feed.cache)
                THEN [feed EXCEPT !.cache = LastBar(p), !.charts[p.arg].last = LastBar(p),
                                  !.charts[p.arg].newest = LastBar(p)]
                ELSE feed
     /\ UNCHANGED <<callVars, bookVars, term>>
  \/ Breaks("latest", p) /\ UNCHANGED <<term, feed>>

ChartStep ==
  \/ ThemeToggle \/ ThemeRebuild \/ RemoveWidget \/ NewWidget
  \/ ScrollBack \/ SubscribeBars
=============================================================================
