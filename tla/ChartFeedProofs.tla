-------------------------- MODULE ChartFeedProofs ---------------------------
(***************************************************************************)
(* Proofs about what polls bring to the chart and to the history within    *)
(* InvestorPages, for every number of widgets, every bound on polls, every *)
(* price and every visit.                                                  *)
(*                                                                         *)
(* BarsInOrder is not inductive.  A subscription passes a bar on when it is*)
(* not older than the last one it passed (or, before its first, than the   *)
(* cache), and the cache may be older than what the widget shows; what     *)
(* keeps the bars in order is that a poll of the latest bar is answered    *)
(* with the newest there is when it is answered, so the invariant FeedInv  *)
(* bounds what the polls bring (BarPolls), what a widget shows by what     *)
(* exists (ShownExists) and by what its subscription will let through      *)
(* (Guarded).                                                              *)
(*                                                                         *)
(* Nor is PanelOwnRows, at the end.  A panel loses no row because the      *)
(* history has one poll at a time (OneHistoryPoll), which is answered with *)
(* every row there is then, and orders and transfers are never fewer than  *)
(* they were (RowsGrow, from what WithdrawPageProofs knows of sessions).   *)
(*                                                                         *)
(* The last part is the type invariant of InvestorPages, which is not      *)
(* inductive either.  TypeInv adds that each call in flight has a number   *)
(* of its own; that requests, answers and the dialog name sessions that    *)
(* were begun; which page the form, each kind of poll and the chart belong *)
(* to; and what an answer may carry.  That the order panel shows no        *)
(* negative amount it takes from the reserve of WithdrawPageProofs.        *)
(***************************************************************************)
EXTENDS WithdrawPageProofs

(***************************************************************************)
(* Polls                                                                   *)
(***************************************************************************)

\* The polls are kept by kind.
ByKind(pool) == pool = [kind \in Kinds |-> pool[kind]]
PollsByKind == ByKind(polls)

\* A fetch adds at most one poll of its kind, which has no answer yet.
LEMMA WithPollAdds ==
  ASSUME NEW pool, ByKind(pool), NEW kind \in Kinds, NEW arg
  PROVE  /\ ByKind(WithPoll(pool, kind, arg))
         /\ \A k \in Kinds \ {kind} : WithPoll(pool, kind, arg)[k] = pool[k]
         /\ \A p \in WithPoll(pool, kind, arg)[kind] :
              p \in pool[kind] \/ (p.arg = arg /\ ~p.done)
  <1> DEFINE free == Ids \ {p.id : p \in pool[kind]}
             new == [id |-> CHOOSE id \in free : \A other \in free : id <= other,
                     arg |-> arg, done |-> FALSE]
  <1>1. WithPoll(pool, kind, arg) =
          IF free = {} THEN pool ELSE [pool EXCEPT ![kind] = @ \cup {new}]
    BY DEF WithPoll
  <1>2. new.arg = arg /\ ~new.done
    OBVIOUS
  <1> HIDE DEF free, new
  <1> QED  BY <1>1, <1>2 DEF ByKind

\* A fetch of the page, over the polls it has.
LEMMA AsksAdds ==
  ASSUME PollsByKind, NEW kind \in Kinds, NEW arg, Asks(kind, arg)
  PROVE  /\ PollsByKind'
         /\ \A k \in Kinds \ {kind} : polls'[k] = polls[k]
         /\ \A p \in polls'[kind] :
              p \in polls[kind] \/ (p.arg = arg /\ ~p.done)
  <1>1. polls' = WithPoll(polls, kind, arg)
    BY DEF Asks
  <1>3. /\ ByKind(WithPoll(polls, kind, arg))
        /\ \A k \in Kinds \ {kind} : WithPoll(polls, kind, arg)[k] = polls[k]
        /\ \A p \in WithPoll(polls, kind, arg)[kind] :
             p \in polls[kind] \/ (p.arg = arg /\ ~p.done)
    <2>1. ByKind(polls)
      BY DEF PollsByKind
    <2>2. ByKind(WithPoll(polls, kind, arg))
      BY <2>1, WithPollAdds
    <2>3. \A k \in Kinds \ {kind} : WithPoll(polls, kind, arg)[k] = polls[k]
      BY <2>1, WithPollAdds
    <2>4. \A p \in WithPoll(polls, kind, arg)[kind] :
             p \in polls[kind] \/ (p.arg = arg /\ ~p.done)
      BY <2>1, WithPollAdds
    <2> QED  BY <2>2, <2>3, <2>4
  <1> QED  BY <1>1, <1>3 DEF PollsByKind

\* An answer that is heard takes its poll away.
LEMMA HeardTakes ==
  ASSUME PollsByKind, NEW kind \in Kinds, NEW p
  PROVE  /\ ByKind(Heard(kind, p))
         /\ \A k \in Kinds \ {kind} : Heard(kind, p)[k] = polls[k]
         /\ Heard(kind, p)[kind] = polls[kind] \ {p}
  BY DEF PollsByKind, ByKind, Heard

\* An answer of the server takes the place of its poll.
LEMMA ReportsAnswers ==
  ASSUME PollsByKind, NEW kind \in Kinds, NEW p, NEW data, Reports(kind, p, data)
  PROVE  /\ PollsByKind'
         /\ \A k \in Kinds \ {kind} : polls'[k] = polls[k]
         /\ \A q \in polls'[kind] :
              q \in polls[kind] \/ (q.arg = p.arg /\ q.done /\ q.data = data)
         /\ UNCHANGED <<callVars, bookVars>>
  <1> DEFINE new == [id |-> p.id, arg |-> p.arg, done |-> TRUE, data |-> data]
  <1>1. polls' = [polls EXCEPT ![kind] = (@ \ {p}) \cup {new}]
    BY DEF Reports
  <1>2. new.arg = p.arg /\ new.done /\ new.data = data
    OBVIOUS
  <1> HIDE DEF new
  <1> QED  BY <1>1, <1>2 DEF PollsByKind, ByKind, Reports

(***************************************************************************)
(* The chart                                                               *)
(***************************************************************************)
Stages == {"none", "loading", "shown", "subscribed", "frozen", "removed"}

ChartRow == [stage : Stages, last : Nat, newest : Nat]

FeedRow(f) ==
  /\ f = [waiting |-> f.waiting, frames |-> f.frames, themeDue |-> f.themeDue,
          widget |-> f.widget, cache |-> f.cache, charts |-> f.charts]
  /\ f.waiting \in Nat /\ f.frames \in Nat /\ f.cache \in Nat
  /\ f.widget \in Charts \cup {0}
  /\ f.charts \in [Charts -> ChartRow]

FeedTyped ==
  /\ price \in Nat \ {0}
  /\ FeedRow(feed)

\* Answers about bars carry one that has existed, and are for a chart that exists.
BarPolls ==
  /\ \A p \in polls["latest"] :
       /\ p.arg \in Charts /\ (p.done => p.data \in 1..price)
       /\ feed.charts[p.arg].last # 0
       /\ feed.charts[p.arg].stage \notin {"none", "loading", "shown"}
  /\ \A p \in polls["bars"] :
       p.arg[1] \in Charts /\ (p.done => p.data \in 1..price)

\* A chart shows no bar that has not existed, and none before its first ones arrive.
ShownExists ==
  \A i \in Charts :
    /\ feed.charts[i].newest <= price
    /\ feed.charts[i].stage \in {"none", "loading"} => feed.charts[i].newest = 0
    /\ feed.charts[i].stage = "shown" => feed.cache # 0
    /\ feed.charts[i].stage = "subscribed" => feed.charts[i].last # 0

\* A chart is guarded by the last bar of its subscription; where the cache it was
\* taken from was already overwritten with older history, no older answer is around.
Guarded ==
  \A i \in Charts :
    \/ feed.charts[i].newest <= feed.charts[i].last
    \/ \A p \in polls["latest"] :
         p.arg = i /\ p.done => feed.charts[i].newest <= p.data

FeedInv == PollsByKind /\ FeedTyped /\ BarPolls /\ ShownExists /\ Guarded

Forward == \A i \in Charts : feed.charts[i].newest <= feed'.charts[i].newest

\* A step that has nothing to do with the chart.
ChartUntouched ==
  /\ PollsByKind'
  /\ UNCHANGED <<feed, price>>
  /\ polls'["latest"] = polls["latest"] /\ polls'["bars"] = polls["bars"]

\* A step that touches neither the chart nor its polls keeps the invariant.
LEMMA UntouchedKeeps ==
  ASSUME FeedInv, ChartUntouched
  PROVE  FeedInv' /\ Forward
  BY
  DEF FeedInv, ChartUntouched, FeedTyped, BarPolls, ShownExists, Guarded, Forward,
      FeedRow, ChartRow

\* initChart and the widgets it takes away and makes.
LEMMA WidgetSteps ==
  ASSUME FeedInv, ThemeToggle \/ ThemeRebuild \/ RemoveWidget
  PROVE  FeedInv' /\ Forward
  <1>1. UNCHANGED <<polls, price>>
    BY DEF ThemeToggle, ThemeRebuild, RemoveWidget, portfolioVars, bookVars
  <1>2. FeedTyped' /\ feed'.cache = feed.cache /\ \A i \in Charts :
          /\ feed'.charts[i].newest = feed.charts[i].newest
          /\ feed'.charts[i].last = feed.charts[i].last
          /\ \/ feed'.charts[i].stage = feed.charts[i].stage
             \/ feed'.charts[i].stage \in {"frozen", "removed"}
    <2>1. CASE ThemeToggle \/ ThemeRebuild
      <3>1. FeedRow(feed') /\ feed'.charts = feed.charts /\ feed'.cache = feed.cache
        <4> DEFINE n == feed.waiting + 1
        <4>1. FeedRow(feed) /\ n \in Nat
          BY DEF FeedInv, FeedTyped, FeedRow
        <4>2. \/ feed' = [feed EXCEPT !.themeDue = TRUE]
              \/ feed' = [feed EXCEPT !.themeDue = FALSE, !.waiting = n]
          BY <2>1 DEF ThemeToggle, ThemeRebuild
        <4> HIDE DEF n
        <4> QED  BY <4>1, <4>2 DEF FeedRow
      <3> QED  BY <1>1, <3>1 DEF FeedInv, FeedTyped
    <2>2. CASE RemoveWidget
      <3> DEFINE charts == [i \in Charts |->
            IF i = feed.widget THEN [feed.charts[i] EXCEPT !.stage = "removed"]
            ELSE ClearAllSubscriptions(feed.charts)[i]]
      <3> DEFINE n == feed.waiting - 1
                 m == feed.frames + 1
      <3>1. feed' = [feed EXCEPT !.waiting = n, !.frames = m, !.widget = 0,
                                 !.charts = charts]
        BY <2>2 DEF RemoveWidget
      <3>5. FeedRow(feed) /\ n \in Nat /\ m \in Nat
        BY <2>2 DEF FeedInv, FeedTyped, FeedRow, RemoveWidget
      <3>2. \A i \in Charts :
              /\ feed.charts[i] \in ChartRow /\ charts[i] \in ChartRow
              /\ charts[i].newest = feed.charts[i].newest
              /\ charts[i].last = feed.charts[i].last
              /\ \/ charts[i].stage = feed.charts[i].stage
                 \/ charts[i].stage \in {"frozen", "removed"}
        <4> SUFFICES ASSUME NEW i \in Charts
                     PROVE  /\ feed.charts[i] \in ChartRow /\ charts[i] \in ChartRow
                            /\ charts[i].newest = feed.charts[i].newest
                            /\ charts[i].last = feed.charts[i].last
                            /\ \/ charts[i].stage = feed.charts[i].stage
                               \/ charts[i].stage \in {"frozen", "removed"}
          OBVIOUS
        <4>1. feed.charts[i] \in ChartRow
          BY DEF FeedInv, FeedTyped, FeedRow
        <4>2. charts[i] \in {feed.charts[i], [feed.charts[i] EXCEPT !.stage = "frozen"],
                             [feed.charts[i] EXCEPT !.stage = "removed"]}
          BY DEF ClearAllSubscriptions
        <4> HIDE DEF charts
        <4> QED  BY <4>1, <4>2 DEF ChartRow, Stages
      <3>3. charts \in [Charts -> ChartRow]
        BY <3>2
      <3> HIDE DEF charts, n, m
      <3>4. FeedRow(feed') /\ feed'.charts = charts /\ feed'.cache = feed.cache
        BY <3>1, <3>3, <3>5 DEF FeedRow
      <3> QED  BY <1>1, <3>2, <3>4 DEF FeedInv, FeedTyped
    <2> QED  BY <2>1, <2>2
  <1>3. \A i \in Charts : feed.charts[i].newest \in Nat
    BY DEF FeedInv, FeedTyped, FeedRow, ChartRow
  <1>4. PollsByKind' /\ Forward
    BY <1>1, <1>2, <1>3 DEF FeedInv, PollsByKind, ByKind, Forward
  <1>5. BarPolls'
    BY <1>1, <1>2 DEF FeedInv, BarPolls
  <1>6. ShownExists'
    BY <1>1, <1>2 DEF FeedInv, ShownExists
  <1>7. Guarded'
    BY <1>1, <1>2 DEF FeedInv, Guarded
  <1> QED  BY <1>2, <1>4, <1>5, <1>6, <1>7 DEF FeedInv

\* A new widget takes a number that is free, and asks for its bars.
LEMMA NewWidgetStep ==
  ASSUME FeedInv, NewWidget
  PROVE  FeedInv' /\ Forward
  <1>1. PICK i \in Free :
          /\ feed' = [feed EXCEPT !.frames = @ - 1, !.widget = i,
                                  !.charts[i].stage = "loading"]
          /\ Asks("bars", <<i, FALSE>>)
    BY DEF NewWidget
  <1> DEFINE n == feed.frames - 1
             row == [feed.charts[i] EXCEPT !.stage = "loading"]
             charts == [feed.charts EXCEPT ![i] = row]
  <1>2. /\ price' = price /\ n \in Nat /\ FeedRow(feed)
        /\ i \in Charts /\ i \in Nat /\ feed.charts[i].stage = "none"
    BY DEF NewWidget, bookVars, FeedInv, FeedTyped, FeedRow, Free, Charts
  <1>3. feed.charts[i] \in ChartRow
    BY <1>2 DEF FeedRow
  <1>4. row \in ChartRow /\ row.stage = "loading"
        /\ row.newest = feed.charts[i].newest /\ row.last = feed.charts[i].last
    BY <1>3 DEF ChartRow, Stages
  <1>5. feed' = [feed EXCEPT !.frames = n, !.widget = i, !.charts = charts]
    BY <1>1, <1>2 DEF FeedRow
  <1> HIDE DEF n, row
  <1>6. charts \in [Charts -> ChartRow] /\ charts[i] = row
        /\ \A j \in Charts : j # i => charts[j] = feed.charts[j]
    BY <1>2, <1>4 DEF FeedRow
  <1> HIDE DEF charts
  <1>7. FeedRow(feed') /\ feed'.charts = charts /\ feed'.cache = feed.cache
    BY <1>2, <1>5, <1>6 DEF FeedRow
  <1>8. /\ PollsByKind'
        /\ polls'["latest"] = polls["latest"]
        /\ \A p \in polls'["bars"] :
             p \in polls["bars"] \/ (p.arg[1] = i /\ ~p.done)
    <2>1. "bars" \in Kinds /\ "latest" \in Kinds \ {"bars"}
      BY DEF Kinds
    <2>2. <<i, FALSE>>[1] = i
      OBVIOUS
    <2> QED  BY <1>1, <2>1, <2>2, AsksAdds DEF FeedInv
  <1>9. FeedTyped' /\ Forward
    BY <1>2, <1>4, <1>6, <1>7 DEF FeedInv, FeedTyped, Forward, FeedRow, ChartRow
  <1>10. BarPolls'
    <2>1. \A p \in polls["latest"] : p.arg # i
      BY <1>2 DEF FeedInv, BarPolls
    <2>2. \A p \in polls'["latest"] :
            /\ p.arg \in Charts /\ (p.done => p.data \in 1..price)
            /\ feed'.charts[p.arg].last # 0
            /\ feed'.charts[p.arg].stage \notin {"none", "loading", "shown"}
      BY <1>6, <1>7, <1>8, <2>1 DEF FeedInv, BarPolls
    <2>3. \A p \in polls'["bars"] : p.arg[1] \in Charts /\ (p.done => p.data \in 1..price)
      BY <1>2, <1>8 DEF FeedInv, BarPolls
    <2> QED  BY <1>2, <2>2, <2>3 DEF BarPolls
  <1>11. ShownExists' /\ Guarded'
    BY <1>2, <1>4, <1>6, <1>7, <1>8 DEF FeedInv, ShownExists, Guarded
  <1> QED  BY <1>8, <1>9, <1>10, <1>11 DEF FeedInv

\* Older bars are asked for.
LEMMA ScrollBackStep ==
  ASSUME FeedInv, ScrollBack
  PROVE  FeedInv' /\ Forward
  <1>1. /\ UNCHANGED <<feed, price>> /\ feed.widget \in Charts
        /\ Asks("bars", <<feed.widget, TRUE>>)
    <2>1. UNCHANGED <<feed, price>> /\ Asks("bars", <<feed.widget, TRUE>>)
      BY DEF ScrollBack, bookVars
    <2>2. feed.widget \in Charts
      BY DEF ScrollBack, FeedInv, FeedTyped, FeedRow
    <2> QED  BY <2>1, <2>2
  <1>2. "bars" \in Kinds /\ "latest" \in Kinds \ {"bars"} /\ <<feed.widget, TRUE>>[1] = feed.widget
    BY DEF Kinds
  <1>3. /\ PollsByKind' /\ polls'["latest"] = polls["latest"]
        /\ \A p \in polls'["bars"] : p \in polls["bars"] \/ (p.arg[1] = feed.widget /\ ~p.done)
    BY <1>1, <1>2, AsksAdds DEF FeedInv
  <1>4. FeedTyped' /\ ShownExists' /\ Guarded' /\ Forward
    BY <1>1, <1>3
    DEF FeedInv, FeedTyped, FeedRow, ChartRow, ShownExists, Guarded, Forward
  <1>5. BarPolls'
    BY <1>1, <1>3 DEF FeedInv, BarPolls
  <1> QED  BY <1>3, <1>4, <1>5 DEF FeedInv

\* The interval of a subscription.
LEMMA PollLatestBarStep ==
  ASSUME FeedInv, NEW i \in Charts, PollLatestBar(i)
  PROVE  FeedInv' /\ Forward
  <1>1. /\ UNCHANGED <<feed, price>> /\ Asks("latest", i)
        /\ feed.charts[i].stage = "subscribed"
    BY DEF PollLatestBar, bookVars
  <1>2. "latest" \in Kinds /\ "bars" \in Kinds \ {"latest"}
    BY DEF Kinds
  <1>3. /\ PollsByKind' /\ polls'["bars"] = polls["bars"]
        /\ \A p \in polls'["latest"] : p \in polls["latest"] \/ (p.arg = i /\ ~p.done)
    BY <1>1, <1>2, AsksAdds DEF FeedInv
  <1>4. FeedTyped' /\ ShownExists' /\ Guarded' /\ Forward
    BY <1>1, <1>3
    DEF FeedInv, FeedTyped, FeedRow, ChartRow, ShownExists, Guarded, Forward
  <1>5. BarPolls'
    <2>1. feed.charts[i].last # 0
      BY <1>1 DEF FeedInv, ShownExists
    <2> QED  BY <1>1, <1>3, <2>1 DEF FeedInv, BarPolls
  <1> QED  BY <1>3, <1>4, <1>5 DEF FeedInv

\* A new minute bar.
LEMMA PriceTicksStep ==
  ASSUME FeedInv, PriceTicks, UNCHANGED feed
  PROVE  FeedInv' /\ Forward
  <1>1. UNCHANGED <<feed, polls>> /\ price' = price + 1 /\ price \in Nat \ {0}
    BY DEF PriceTicks, FeedInv, FeedTyped
  <1>2. PollsByKind' /\ FeedTyped' /\ Forward
    BY <1>1 DEF FeedInv, PollsByKind, FeedTyped, FeedRow, ChartRow, Forward
  <1>3. BarPolls'
    BY <1>1 DEF FeedInv, BarPolls
  <1>4. ShownExists' /\ Guarded'
    BY <1>1 DEF FeedInv, FeedTyped, FeedRow, ChartRow, ShownExists, Guarded
  <1> QED  BY <1>2, <1>3, <1>4 DEF FeedInv

\* The server answers a poll about bars: with one that exists.
LEMMA BarsReported ==
  ASSUME FeedInv, UNCHANGED feed,
         NEW kind \in {"latest", "bars"}, NEW p \in polls[kind], LiveEndpoint(kind, p)
  PROVE  FeedInv' /\ Forward
  <1>1. PICK data \in 1..price : Reports(kind, p, data) /\ (kind = "latest" => data = price)
    <2>1. 1 \in 1..price /\ price \in 1..price
      BY DEF FeedInv, FeedTyped
    <2> QED  BY <2>1 DEF LiveEndpoint
  <1>2. "latest" \in Kinds /\ "bars" \in Kinds
    BY DEF Kinds
  <1>3. /\ PollsByKind' /\ UNCHANGED <<feed, price>>
        /\ \A k \in {"latest", "bars"} \ {kind} : polls'[k] = polls[k]
        /\ \A q \in polls'[kind] :
              q \in polls[kind] \/ (q.arg = p.arg /\ q.done /\ q.data = data)
    BY <1>1, <1>2, ReportsAnswers DEF FeedInv, bookVars
  <1>4. FeedTyped' /\ ShownExists' /\ Forward
    BY <1>3 DEF FeedInv, FeedTyped, FeedRow, ChartRow, ShownExists, Forward
  <1>5. BarPolls'
    BY <1>1, <1>3 DEF FeedInv, BarPolls
  <1>6. Guarded'
    <2>1. kind = "latest" => \A i \in Charts : feed.charts[i].newest <= data
      BY <1>1 DEF FeedInv, ShownExists
    <2> QED  BY <1>3, <2>1 DEF FeedInv, Guarded
  <1> QED  BY <1>3, <1>4, <1>5, <1>6 DEF FeedInv

\* A poll that fails, of whatever kind.
LEMMA BreaksStep ==
  ASSUME FeedInv, UNCHANGED feed, NEW kind \in Kinds, NEW p, Breaks(kind, p)
  PROVE  FeedInv' /\ Forward
  <1>1. /\ UNCHANGED <<feed, price>> /\ PollsByKind'
        /\ polls'["latest"] \subseteq polls["latest"] /\ polls'["bars"] \subseteq polls["bars"]
    <2>1. polls' = Heard(kind, p) /\ UNCHANGED price
      BY DEF Breaks, bookVars
    <2>2. "latest" \in Kinds /\ "bars" \in Kinds
      BY DEF Kinds
    <2> QED  BY <2>1, <2>2, HeardTakes DEF FeedInv, PollsByKind
  <1>2. FeedTyped' /\ ShownExists' /\ Guarded' /\ Forward
    BY <1>1 DEF FeedInv, FeedTyped, FeedRow, ChartRow, ShownExists, Guarded, Forward
  <1>3. BarPolls'
    BY <1>1 DEF FeedInv, BarPolls
  <1> QED  BY <1>1, <1>2, <1>3 DEF FeedInv

\* Bars arrive: the last one is cached, and shown by the chart that waits for it.
LEMMA GetBarsStep ==
  ASSUME FeedInv, NEW p \in polls["bars"], GetBars(p)
  PROVE  FeedInv' /\ Forward
  <1>1. CASE Breaks("bars", p) /\ UNCHANGED <<term, feed>>
    BY <1>1, BreaksStep DEF Kinds
  <1>2. CASE Takes("bars", p) /\ ~(Breaks("bars", p) /\ UNCHANGED <<term, feed>>)
    <2> DEFINE i == p.arg[1]
               row == IF feed.charts[i].stage = "loading" /\ ~p.arg[2]
                      THEN [feed.charts[i] EXCEPT !.stage = "shown", !.newest = LastBar(p)]
                      ELSE feed.charts[i]
               charts == [feed.charts EXCEPT ![i] = row]
    <2>1. /\ p.done /\ polls' = Heard("bars", p) /\ price' = price
          /\ feed' = [feed EXCEPT !.cache = LastBar(p), !.charts = charts]
      BY <1>2 DEF GetBars, Takes, bookVars
    <2>2. LastBar(p) \in 1..price /\ i \in Charts
      BY <2>1 DEF FeedInv, BarPolls, LastBar
    <2>3. /\ FeedRow(feed) /\ price \in Nat \ {0} /\ LastBar(p) \in Nat \ {0}
          /\ feed.charts[i] \in ChartRow
      BY <2>2 DEF FeedInv, FeedTyped, FeedRow
    <2>4. /\ row \in ChartRow /\ row.last = feed.charts[i].last
          /\ \/ row.stage = feed.charts[i].stage /\ row.newest = feed.charts[i].newest
             \/ /\ feed.charts[i].stage = "loading" /\ row.stage = "shown"
                /\ row.newest = LastBar(p)
      BY <2>3 DEF ChartRow, Stages
    <2> HIDE DEF row
    <2>5. charts \in [Charts -> ChartRow] /\ charts[i] = row
          /\ \A j \in Charts : j # i => charts[j] = feed.charts[j]
      BY <2>2, <2>3, <2>4 DEF FeedRow
    <2> HIDE DEF charts, i
    <2>6. FeedRow(feed') /\ feed'.charts = charts /\ feed'.cache = LastBar(p)
      BY <2>1, <2>3, <2>5 DEF FeedRow
    <2>7. /\ PollsByKind' /\ polls'["latest"] = polls["latest"]
          /\ polls'["bars"] \subseteq polls["bars"]
      <3>1. "latest" \in Kinds \ {"bars"} /\ "bars" \in Kinds
        BY DEF Kinds
      <3> QED  BY <2>1, <3>1, HeardTakes DEF FeedInv, PollsByKind
    <2>8. feed.charts[i].stage = "loading" =>
            feed.charts[i].newest = 0 /\ \A q \in polls["latest"] : q.arg # i
      BY <2>2 DEF FeedInv, ShownExists, BarPolls
    <2>9. FeedTyped' /\ Forward
      BY <2>1, <2>2, <2>3, <2>4, <2>5, <2>6, <2>8
      DEF FeedInv, FeedTyped, FeedRow, ChartRow, Forward
    <2>10. BarPolls'
      <3>1. \A q \in polls'["latest"] :
              /\ q.arg \in Charts /\ (q.done => q.data \in 1..price)
              /\ feed'.charts[q.arg].last # 0
              /\ feed'.charts[q.arg].stage \notin {"none", "loading", "shown"}
        BY <2>4, <2>5, <2>6, <2>7, <2>8 DEF FeedInv, BarPolls
      <3>2. \A q \in polls'["bars"] : q.arg[1] \in Charts /\ (q.done => q.data \in 1..price)
        BY <2>7 DEF FeedInv, BarPolls
      <3> QED  BY <2>1, <3>1, <3>2 DEF BarPolls
    <2>11. ShownExists'
      BY <2>1, <2>2, <2>3, <2>4, <2>5, <2>6 DEF FeedInv, ShownExists
    <2>12. Guarded'
      BY <2>1, <2>4, <2>5, <2>6, <2>7, <2>8 DEF FeedInv, Guarded
    <2> QED  BY <2>7, <2>9, <2>10, <2>11, <2>12 DEF FeedInv
  <1> QED  BY <1>1, <1>2 DEF GetBars

\* A subscription starts from the cache, which may be older than what is shown.
LEMMA SubscribeBarsStep ==
  ASSUME FeedInv, SubscribeBars
  PROVE  FeedInv' /\ Forward
  <1>1. PICK i \in Charts :
          /\ feed.charts[i].stage = "shown"
          /\ feed' = [feed EXCEPT !.charts[i].stage = "subscribed",
                                  !.charts[i].last = feed.cache]
          /\ Asks("latest", i)
    BY DEF SubscribeBars
  <1> DEFINE row == [feed.charts[i] EXCEPT !.stage = "subscribed", !.last = feed.cache]
             charts == [feed.charts EXCEPT ![i] = row]
  <1>2. /\ FeedRow(feed) /\ price \in Nat \ {0} /\ feed.charts[i] \in ChartRow
        /\ price' = price /\ feed.cache \in Nat \ {0}
    BY <1>1 DEF FeedInv, FeedTyped, FeedRow, ShownExists, SubscribeBars, bookVars
  <1>3. /\ row \in ChartRow /\ row.last = feed.cache /\ row.stage = "subscribed"
        /\ row.newest = feed.charts[i].newest
    BY <1>2 DEF ChartRow, Stages
  <1>4. feed' = [feed EXCEPT !.charts = charts]
    BY <1>1, <1>2 DEF FeedRow, ChartRow
  <1> HIDE DEF row
  <1>5. charts \in [Charts -> ChartRow] /\ charts[i] = row
        /\ \A j \in Charts : j # i => charts[j] = feed.charts[j]
    BY <1>1, <1>2, <1>3 DEF FeedRow
  <1> HIDE DEF charts
  <1>6. FeedRow(feed') /\ feed'.charts = charts /\ feed'.cache = feed.cache
    BY <1>2, <1>4, <1>5 DEF FeedRow
  <1>7. /\ PollsByKind' /\ polls'["bars"] = polls["bars"]
        /\ \A p \in polls'["latest"] : p \in polls["latest"] \/ (p.arg = i /\ ~p.done)
    <2>1. "latest" \in Kinds /\ "bars" \in Kinds \ {"latest"}
      BY DEF Kinds
    <2> QED  BY <1>1, <2>1, AsksAdds DEF FeedInv
  <1>8. \A p \in polls["latest"] : p.arg # i
    BY <1>1 DEF FeedInv, BarPolls
  <1>9. FeedTyped' /\ Forward
    BY <1>2, <1>3, <1>5, <1>6 DEF FeedInv, FeedTyped, FeedRow, ChartRow, Forward
  <1>10. BarPolls'
    <2>1. \A p \in polls'["latest"] :
              /\ p.arg \in Charts /\ (p.done => p.data \in 1..price)
              /\ feed'.charts[p.arg].last # 0
              /\ feed'.charts[p.arg].stage \notin {"none", "loading", "shown"}
      BY <1>1, <1>2, <1>3, <1>5, <1>6, <1>7, <1>8 DEF FeedInv, BarPolls
    <2> QED  BY <1>2, <1>7, <2>1 DEF FeedInv, BarPolls
  <1>11. ShownExists'
    BY <1>2, <1>3, <1>5, <1>6 DEF FeedInv, ShownExists
  <1>12. Guarded'
    BY <1>3, <1>5, <1>6, <1>7, <1>8 DEF FeedInv, Guarded
  <1> QED  BY <1>7, <1>9, <1>10, <1>11, <1>12 DEF FeedInv

\* The latest bar arrives: it is given to the chart unless it is older than the last
\* one of the subscription.
LEMMA LatestBarStep ==
  ASSUME FeedInv, NEW p \in polls["latest"], LatestBarArrives(p)
  PROVE  FeedInv' /\ Forward
  <1>1. CASE Breaks("latest", p) /\ UNCHANGED <<term, feed>>
    BY <1>1, BreaksStep DEF Kinds
  <1>2. CASE ~(Breaks("latest", p) /\ UNCHANGED <<term, feed>>)
    <2> DEFINE i == p.arg
               bar == LastBar(p)
               row == [feed.charts[i] EXCEPT !.last = bar, !.newest = bar]
               charts == [feed.charts EXCEPT ![i] = row]
    <2>1. /\ p.done /\ price' = price
          /\ polls' = WithPoll(Heard("latest", p), "summary", None)
          /\ feed' = IF bar >= (IF feed.charts[i].last # 0 THEN feed.charts[i].last
                                                          ELSE feed.cache)
                     THEN [feed EXCEPT !.cache = bar, !.charts[i].last = bar,
                                       !.charts[i].newest = bar]
                     ELSE feed
      BY <1>2 DEF LatestBarArrives, bookVars
    <2>2. /\ i \in Charts /\ bar \in 1..price /\ feed.charts[i].last # 0
          /\ feed.charts[i].stage \notin {"none", "loading", "shown"}
      BY <2>1 DEF FeedInv, BarPolls, LastBar
    <2>3. /\ FeedRow(feed) /\ price \in Nat \ {0} /\ bar \in Nat \ {0}
          /\ feed.charts[i] \in ChartRow
      BY <2>2 DEF FeedInv, FeedTyped, FeedRow
    <2>4. /\ PollsByKind' /\ polls'["bars"] = polls["bars"]
          /\ polls'["latest"] \subseteq polls["latest"]
      <3>1. /\ "latest" \in Kinds \ {"summary"} /\ "bars" \in Kinds \ {"summary"}
            /\ "bars" \in Kinds \ {"latest"} /\ "summary" \in Kinds
        BY DEF Kinds
      <3>2. /\ ByKind(Heard("latest", p)) /\ Heard("latest", p)["bars"] = polls["bars"]
            /\ Heard("latest", p)["latest"] \subseteq polls["latest"]
        BY <3>1, HeardTakes DEF FeedInv
      <3> QED  BY <2>1, <3>1, <3>2, WithPollAdds DEF PollsByKind
    <2>5. feed.charts[i].newest <= feed.charts[i].last \/ feed.charts[i].newest <= bar
      BY <2>1, <2>2 DEF FeedInv, Guarded, LastBar
    <2>6. CASE bar < feed.charts[i].last
      <3>1. UNCHANGED <<feed, price>>
        BY <2>1, <2>2, <2>3, <2>6 DEF ChartRow
      <3>2. FeedTyped' /\ ShownExists' /\ Guarded' /\ Forward
        BY <2>4, <3>1
        DEF FeedInv, FeedTyped, FeedRow, ChartRow, ShownExists, Guarded, Forward
      <3>3. BarPolls'
        BY <2>4, <3>1 DEF FeedInv, BarPolls
      <3> QED  BY <2>4, <3>2, <3>3 DEF FeedInv
    <2>7. CASE bar >= feed.charts[i].last
      <3>1. feed' = [feed EXCEPT !.cache = bar, !.charts = charts]
        BY <2>1, <2>2, <2>3, <2>7 DEF FeedRow, ChartRow
      <3>2. /\ row \in ChartRow /\ row.stage = feed.charts[i].stage
            /\ row.last = bar /\ row.newest = bar /\ feed.charts[i].newest <= bar
        <4>1. /\ row \in ChartRow /\ row.stage = feed.charts[i].stage
              /\ row.last = bar /\ row.newest = bar
          BY <2>3 DEF ChartRow
        <4>2. feed.charts[i].newest \in Nat /\ feed.charts[i].last \in Nat
          BY <2>3 DEF ChartRow
        <4> HIDE DEF row, bar, i
        <4> QED  BY <2>3, <2>5, <2>7, <4>1, <4>2
      <3> HIDE DEF row
      <3>3. charts \in [Charts -> ChartRow] /\ charts[i] = row
            /\ \A j \in Charts : j # i => charts[j] = feed.charts[j]
        BY <2>2, <2>3, <3>2 DEF FeedRow
      <3> HIDE DEF charts, bar, i
      <3>4. FeedRow(feed') /\ feed'.charts = charts /\ feed'.cache = bar
        BY <2>3, <3>1, <3>3 DEF FeedRow
      <3>5. FeedTyped' /\ Forward
        BY <2>1, <2>3, <3>2, <3>3, <3>4
        DEF FeedInv, FeedTyped, FeedRow, ChartRow, Forward
      <3>6. BarPolls'
        <4>1. \A q \in polls'["latest"] :
              /\ q.arg \in Charts /\ (q.done => q.data \in 1..price)
              /\ feed'.charts[q.arg].last # 0
              /\ feed'.charts[q.arg].stage \notin {"none", "loading", "shown"}
          BY <2>2, <2>3, <2>4, <3>2, <3>3, <3>4 DEF FeedInv, BarPolls
        <4> QED  BY <2>1, <2>4, <4>1 DEF FeedInv, BarPolls
      <3>7. ShownExists'
        BY <2>1, <2>2, <2>3, <3>2, <3>3, <3>4 DEF FeedInv, ShownExists
      <3>8. Guarded'
        BY <2>3, <2>4, <3>2, <3>3, <3>4 DEF FeedInv, Guarded
      <3> QED  BY <2>4, <3>5, <3>6, <3>7, <3>8 DEF FeedInv
    <2> QED  BY <2>2, <2>3, <2>6, <2>7 DEF ChartRow
  <1> QED  BY <1>1, <1>2

\* A step that leaves the chart alone and, of the polls, touches those of one other
\* kind, or none.
LEMMA OtherPolls ==
  ASSUME FeedInv, UNCHANGED <<feed, price>>,
         NEW kind \in Kinds \ {"latest", "bars"}, NEW p, NEW arg, NEW data,
         \/ UNCHANGED polls \/ Asks(kind, arg) \/ polls' = Heard(kind, p)
         \/ Reports(kind, p, data)
  PROVE  FeedInv' /\ Forward
  <1>1. {"latest", "bars"} \subseteq Kinds \ {kind} /\ kind \in Kinds
    BY DEF Kinds
  <1>2. ChartUntouched
    <2>1. CASE UNCHANGED polls
      BY <2>1 DEF ChartUntouched, FeedInv, PollsByKind
    <2>2. CASE Asks(kind, arg)
      BY <1>1, <2>2, AsksAdds DEF ChartUntouched, FeedInv
    <2>3. CASE polls' = Heard(kind, p)
      BY <1>1, <2>3, HeardTakes DEF ChartUntouched, FeedInv, PollsByKind
    <2>4. CASE Reports(kind, p, data)
      BY <1>1, <2>4, ReportsAnswers DEF ChartUntouched, FeedInv
    <2> QED  BY <2>1, <2>2, <2>3, <2>4
  <1> QED  BY <1>2, UntouchedKeeps

\* A document is loaded: no answers about bars are awaited, and the chart is empty.
LEMMA LoadStep ==
  ASSUME FeedInv, UNCHANGED price, NEW to \in {"dashboard", "terminal", "history"}, Loads(to)
  PROVE  FeedInv'
  <1>1. PollsByKind' /\ polls'["latest"] = {} /\ polls'["bars"] = {}
    <2>1. PICK kind \in Kinds \ {"latest", "bars"}, tab \in Tabs \cup {None} :
            polls' = WithPoll(NoPolls, kind, tab)
      <3>1. CASE to = "dashboard"
        BY <3>1 DEF Loads, DashboardLoads, Kinds
      <3>2. CASE to = "terminal"
        BY <3>2 DEF Loads, TerminalLoads, Kinds
      <3>3. CASE to = "history"
        <4>1. PICK tab \in Tabs : PollsHistory(NoPolls, tab)
          BY <3>3 DEF Loads, HistoryLoads
        <4> QED  BY <4>1 DEF PollsHistory, NoPolls, Kinds
      <3> QED  BY <3>1, <3>2, <3>3
    <2>2. ByKind(NoPolls) /\ NoPolls["latest"] = {} /\ NoPolls["bars"] = {}
      BY DEF NoPolls, ByKind, Kinds
    <2>3. {"latest", "bars"} \subseteq Kinds \ {kind}
      BY DEF Kinds
    <2> QED  BY <2>1, <2>2, <2>3, WithPollAdds DEF PollsByKind
  <1>2. PICK starts : feed' = FeedStart(starts)
    BY DEF Loads
  <1>3. FeedRow(feed') /\ feed'.charts = [i \in Charts |-> Blank]
    <2>1. [i \in Charts |-> Blank] \in [Charts -> ChartRow]
      BY DEF Blank, ChartRow, Stages
    <2> QED  BY <1>2, <2>1 DEF FeedStart, FeedRow
  <1>4. \A i \in Charts : /\ feed'.charts[i].stage = "none" /\ feed'.charts[i].last = 0
                          /\ feed'.charts[i].newest = 0
    BY <1>3 DEF Blank
  <1> QED  BY <1>1, <1>3, <1>4 DEF FeedInv, FeedTyped, BarPolls, ShownExists, Guarded

(***************************************************************************)
(* Steps of the tab                                                        *)
(***************************************************************************)
Loadable == {"dashboard", "terminal", "history"}

RouteTyped ==
  /\ visit = [route |-> visit.route, chart |-> visit.chart, edits |-> visit.edits,
              checks |-> visit.checks]
  /\ visit.route \in Seq(Loadable)

\* What the user does in a document.
LEMMA UserKeepsFeed ==
  ASSUME FeedInv, UNCHANGED feed,
         WithdrawUser \/ TypeAddress \/ BuyClick \/ RedeemClick
  PROVE  FeedInv' /\ Forward
  <1>1. UNCHANGED price /\ (UNCHANGED polls \/ \E arg : Asks("options", arg))
    <2>1. CASE WithdrawConfirmBtn
      BY <2>1 DEF WithdrawConfirmBtn, OpenDialog, bookVars
    <2>2. CASE TypeAddress \/ BuyClick \/ RedeemClick
      BY <2>2
      DEF TypeAddress, BuyClick, RedeemClick, OrderClick, portfolioVars, bookVars
    <2>3. CASE WithdrawUser /\ ~WithdrawConfirmBtn
      BY <2>3 DEF WithdrawUser, OpenWithdrawForm, CloseModal, GetCodeClick, ResendClick,
           ConfirmClick, EmailChange, HandleConfirmModalClose, portfolioVars, bookVars
    <2> QED  BY <2>1, <2>2, <2>3
  <1>2. "options" \in Kinds \ {"latest", "bars"}
    BY DEF Kinds
  <1> QED  BY <1>1, <1>2, OtherPolls

\* What the timers and events of the scripts do.
LEMMA ScriptsKeepFeed ==
  ASSUME FeedInv, Scripts \/ PollsSummary
  PROVE  FeedInv' /\ Forward
  <1>1. CASE PollsSummary
    <2>1. UNCHANGED <<feed, price>> /\ Asks("summary", None)
      BY <1>1 DEF PollsSummary, PollSummary, bookVars
    <2> QED  BY <2>1, OtherPolls DEF Kinds
  <1>2. CASE ValidateAddressDebounced /\ UNCHANGED <<term, feed, hist, visit>>
    <2>1. UNCHANGED <<feed, price>> /\ (UNCHANGED polls \/ Asks("validate", form.addr))
      BY <1>2 DEF ValidateAddressDebounced, bookVars
    <2> QED  BY <2>1, OtherPolls DEF Kinds
  <1>3. CASE PollDashboardLive /\ UNCHANGED <<term, feed, hist, visit>>
    <2>1. UNCHANGED <<feed, price>> /\ Asks("dashboard", None)
      BY <1>3 DEF PollDashboardLive, bookVars
    <2> QED  BY <2>1, OtherPolls DEF Kinds
  <1>4. CASE \E i \in Charts : PollLatestBar(i)
    BY <1>4, PollLatestBarStep
  <1>5. CASE ChartStep
    BY <1>5, WidgetSteps, NewWidgetStep, ScrollBackStep, SubscribeBarsStep DEF ChartStep
  <1>6. CASE HistoryStep /\ UNCHANGED <<withdrawVars, term, feed, visit>>
    <2>1. UNCHANGED <<feed, price>> /\ \E tab : PollsHistory(polls, tab)
      BY <1>6 DEF HistoryStep, SetTab, PollActiveHistory, bookVars
    <2>2. UNCHANGED polls \/ \E tab : Asks("history", tab)
      BY <2>1 DEF PollsHistory, Asks
    <2> QED  BY <2>1, <2>2, OtherPolls DEF Kinds
  <1> QED  BY <1>1, <1>2, <1>3, <1>4, <1>5, <1>6 DEF Scripts

\* What the server and the rest of the platform do.
LEMMA ServerKeepsFeed ==
  ASSUME FeedInv, UNCHANGED feed,
         \/ \E c \in calls : PortfolioRoute(c) \/ WithdrawAnswer(c) \/ TerminalAnswer(c)
         \/ PriceTicks \/ ComplianceChanges \/ CooldownPasses
         \/ CooldownEnds /\ UNCHANGED portfolioVars
  PROVE  FeedInv' /\ Forward
  <1>1. CASE PriceTicks
    BY <1>1, PriceTicksStep
  <1>2. CASE ~PriceTicks
    <2>1. UNCHANGED <<polls, price>>
      <3>1. ASSUME NEW c \in calls, PortfolioRoute(c) PROVE UNCHANGED <<polls, price>>
        BY <3>1 DEF PortfolioRoute, WithdrawRequestCode, WithdrawRequestCommits, WithdrawResendCode,
             WithdrawConfirmReads, WithdrawConfirmVerifies, WithdrawConfirmCommits,
             WithdrawCancel, CreateBuyOrder, CreateRedeemOrder, Serves, InConfirm
      <3>2. ASSUME NEW c \in calls, WithdrawAnswer(c) \/ TerminalAnswer(c)
            PROVE  UNCHANGED <<polls, price>>
        BY <3>2
        DEF WithdrawAnswer, GetCodeAnswered, ResendAnswered, Confirmed, Cancelled,
             TerminalAnswer, Bought, Redeemed, portfolioVars, bookVars
      <3>3. CASE ComplianceChanges \/ CooldownPasses \/ (CooldownEnds /\ UNCHANGED portfolioVars)
        BY <3>3 DEF ComplianceChanges, CooldownPasses, portfolioVars, bookVars
      <3> QED  BY <1>2, <3>1, <3>2, <3>3
    <2>2. "summary" \in Kinds \ {"latest", "bars"}
      BY DEF Kinds
    <2> QED  BY <2>1, <2>2, OtherPolls
  <1> QED  BY <1>1, <1>2

\* What the answers of polls do.
LEMMA PollsKeepFeed ==
  ASSUME FeedInv, NEW kind \in Kinds, NEW id, PollMoves(kind, id)
  PROVE  FeedInv' /\ Forward
  <1>1. CASE Report(kind, id)
    <2>1. PICK p \in polls[kind] : LiveEndpoint(kind, p)
      BY <1>1 DEF Report
    <2>2. UNCHANGED feed
      BY <1>1 DEF Report
    <2>3. CASE kind \in {"latest", "bars"}
      BY <2>1, <2>2, <2>3, BarsReported
    <2>4. CASE kind \notin {"latest", "bars"}
      <3>1. PICK data : Reports(kind, p, data)
        BY <2>1, <2>4 DEF LiveEndpoint, Kinds
      <3>2. UNCHANGED price
        BY <3>1 DEF Reports, bookVars
      <3> QED  BY <2>2, <2>4, <3>1, <3>2, OtherPolls
    <2> QED  BY <2>3, <2>4
  <1>2. CASE Apply(kind, id)
    <2>1. PICK p \in polls[kind] :
            \/ kind = "validate" /\ AddressValidated(p) /\ UNCHANGED feed
            \/ kind = "options" /\ LoadEmailOptions(p) /\ UNCHANGED feed
            \/ kind = "dashboard" /\ ApplyDashboardLive(p) /\ UNCHANGED feed
            \/ kind = "summary" /\ ApplyTerminalLivePayload(p) /\ UNCHANGED feed
            \/ kind = "history" /\ ApplyHistory(p) /\ UNCHANGED feed
            \/ kind = "bars" /\ GetBars(p)
            \/ kind = "latest" /\ LatestBarArrives(p)
      BY <1>2 DEF Apply
    <2>2. CASE kind \in {"latest", "bars"}
      BY <2>1, <2>2, GetBarsStep, LatestBarStep
    <2>3. CASE kind \notin {"latest", "bars"}
      <3>1. UNCHANGED feed /\ (Breaks(kind, p) \/ (Takes(kind, p) /\ UNCHANGED price))
        BY <2>1, <2>3 DEF AddressValidated, LoadEmailOptions, ApplyDashboardLive,
             ApplyTerminalLivePayload, ApplyHistory, bookVars
      <3> QED  BY <2>3, <3>1, BreaksStep, OtherPolls DEF Takes
    <2> QED  BY <2>2, <2>3
  <1> QED  BY <1>1, <1>2 DEF PollMoves

\* The tab goes on to the next document of its visit.
LEMMA NavigateStep ==
  ASSUME FeedInv, RouteTyped, Navigate
  PROVE  FeedInv' /\ RouteTyped' /\ ~SameDocument
  <1>1. /\ visit.route # <<>> /\ visit' = [visit EXCEPT !.route = Tail(@)]
        /\ Loads(Head(visit.route)) /\ UNCHANGED price
    BY DEF Navigate, bookVars
  <1>2. /\ Head(visit.route) \in Loadable /\ Tail(visit.route) \in Seq(Loadable)
        /\ Tail(visit.route) # visit.route
    BY <1>1 DEF RouteTyped
  <1>3. RouteTyped' /\ visit'.route = Tail(visit.route)
    BY <1>1, <1>2 DEF RouteTyped
  <1>4. FeedInv'
    BY <1>1, <1>2, LoadStep DEF Loadable
  <1> QED  BY <1>2, <1>3, <1>4 DEF SameDocument

\* Every step keeps the invariant, and the bars of a document in order.
LEMMA FeedStep ==
  ASSUME FeedInv, RouteTyped, [Next]_vars
  PROVE  FeedInv' /\ RouteTyped' /\ (SameDocument => Forward)
  <1>1. CASE UNCHANGED vars
    <2>1. UNCHANGED <<feed, polls, price, visit>>
      BY <1>1 DEF vars, portfolioVars, bookVars
    <2>2. "summary" \in Kinds \ {"latest", "bars"}
      BY DEF Kinds
    <2> QED  BY <2>1, <2>2, OtherPolls DEF RouteTyped
  <1>2. CASE Navigate
    BY <1>2, NavigateStep
  <1>3. CASE User /\ ~Navigate
    <2>1. FeedInv' /\ Forward
      BY <1>3, UserKeepsFeed DEF User, withdrawVars
    <2>2. RouteTyped'
      BY <1>3 DEF User, RouteTyped
    <2> QED  BY <2>1, <2>2
  <1>4. CASE Scripts \/ PollsSummary
    <2>1. RouteTyped'
      BY <1>4 DEF Scripts, PollsSummary, RouteTyped
    <2> QED  BY <1>4, <2>1, ScriptsKeepFeed
  <1>5. CASE Elsewhere
    <2>1. UNCHANGED <<feed, visit>> /\ \/ PriceTicks \/ ComplianceChanges \/ CooldownPasses
                                       \/ CooldownEnds /\ UNCHANGED portfolioVars
      BY <1>5 DEF Elsewhere
    <2> QED  BY <2>1, ServerKeepsFeed DEF RouteTyped
  <1>6. ASSUME NEW id \in Ids, CallMoves(id)
        PROVE  FeedInv' /\ RouteTyped' /\ Forward
    <2>1. UNCHANGED <<feed, visit>>
          /\ \E c \in calls : PortfolioRoute(c) \/ WithdrawAnswer(c) \/ TerminalAnswer(c)
      BY <1>6 DEF CallMoves
    <2> QED  BY <2>1, ServerKeepsFeed DEF RouteTyped
  <1>7. ASSUME NEW kind \in Kinds, NEW id \in Ids, PollMoves(kind, id)
        PROVE  FeedInv' /\ RouteTyped' /\ Forward
    <2>1. UNCHANGED visit
      BY <1>7 DEF PollMoves, Report, Apply
    <2> QED  BY <1>7, <2>1, PollsKeepFeed DEF RouteTyped
  <1> QED  BY <1>1, <1>2, <1>3, <1>4, <1>5, <1>6, <1>7 DEF Next

\* A visit starts with an empty chart and no polls.
LEMMA FeedStarts ==
  ASSUME Init
  PROVE  FeedInv /\ RouteTyped
  <1>1. PICK v \in Visits :
          /\ visit = [route |-> v.route, chart |-> v.chart, edits |-> v.edits,
                      checks |-> v.checks]
          /\ price = v.price /\ polls = NoPolls /\ feed = FeedStart(FALSE)
    BY DEF Init, PortfolioInit
  <1>2. v.route \in Seq(Loadable) /\ v.price \in Nat \ {0}
    BY VisitsStart, PortfolioConstants DEF Loadable
  <1>3. PollsByKind /\ polls["latest"] = {} /\ polls["bars"] = {}
    BY <1>1 DEF NoPolls, PollsByKind, ByKind, Kinds
  <1>4. FeedRow(feed) /\ feed.charts = [i \in Charts |-> Blank]
    <2>1. [i \in Charts |-> Blank] \in [Charts -> ChartRow]
      BY DEF Blank, ChartRow, Stages
    <2> QED  BY <1>1, <2>1 DEF FeedStart, FeedRow
  <1>5. \A i \in Charts : /\ feed.charts[i].stage = "none" /\ feed.charts[i].last = 0
                          /\ feed.charts[i].newest = 0
    BY <1>4 DEF Blank
  <1>6. RouteTyped
    BY <1>1, <1>2 DEF RouteTyped
  <1>7. FeedTyped
    BY <1>1, <1>2, <1>4 DEF FeedTyped
  <1>8. BarPolls /\ ShownExists /\ Guarded
    <2>1. price \in Nat
      BY <1>7 DEF FeedTyped
    <2> QED  BY <1>3, <1>5, <2>1 DEF BarPolls, ShownExists, Guarded
  <1> QED  BY <1>3, <1>6, <1>7, <1>8 DEF FeedInv

\* However many polls of the latest bar overlap, and whatever the cache was last
\* overwritten with, no widget of terminal_chart.js is given an older bar than it has.
THEOREM BarsForward == Spec => BarsInOrder
  <1>1. Init => FeedInv /\ RouteTyped
    BY FeedStarts
  <1>2. (FeedInv /\ RouteTyped) /\ [Next]_vars => (FeedInv /\ RouteTyped)'
    BY FeedStep
  <1>3. FeedInv /\ RouteTyped /\ [Next]_vars
          => [SameDocument =>
               \A i \in Charts : feed.charts[i].newest <= feed'.charts[i].newest]_vars
    BY FeedStep DEF Forward
  <1> QED  BY <1>1, <1>2, <1>3, PTL DEF Spec, BarsInOrder

(***************************************************************************)
(* The history                                                             *)
(***************************************************************************)

\* What the rows are counted from.
BooksTyped ==
  /\ orders = [buys |-> orders.buys, redeems |-> orders.redeems, spent |-> orders.spent]
  /\ orders.buys \in Nat /\ orders.redeems \in Nat
  /\ \A t \in DOMAIN sessions : sessions[t].transfers \in Nat

PanelsTyped ==
  /\ hist = [tab |-> hist.tab, panels |-> hist.panels] /\ hist.tab \in Tabs
  /\ hist.panels = [tab \in Tabs |-> hist.panels[tab]]
  /\ \A tab \in Tabs :
       /\ hist.panels[tab] \in [tab : {tab}, rows : Nat]
       /\ hist.panels[tab].rows \in Nat /\ hist.panels[tab].rows <= Rows(tab)

\* One poll of the history at a time, which brings no fewer rows than its panel has.
OneHistoryPoll ==
  \A p \in polls["history"] :
    /\ \A q \in polls["history"] : p = q
    /\ p.arg \in Tabs
    /\ p.done => /\ p.data \in Nat /\ p.data <= Rows(p.arg)
                 /\ hist.panels[p.arg].rows <= p.data

HistInv == PollsByKind /\ BooksTyped /\ PanelsTyped /\ OneHistoryPoll

OwnRows ==
  \A tab \in Tabs : /\ hist'.panels[tab].tab = tab
                    /\ hist'.panels[tab].rows >= hist.panels[tab].rows

\* Sessions that made a transfer are counted, and stay so.
LEMMA TransferredGrows ==
  ASSUME SessionsShaped, SessionsShaped', DOMAIN sessions \subseteq DOMAIN sessions',
         \A t \in DOMAIN sessions : sessions[t].transfers > 0 => sessions'[t].transfers > 0
  PROVE  Transferred \in Nat /\ Transferred' \in Nat /\ Transferred <= Transferred'
  <1> DEFINE A == {t \in DOMAIN sessions : sessions[t].transfers > 0}
             B == {t \in DOMAIN sessions' : sessions'[t].transfers > 0}
  <1>1. Transferred = Cardinality(A) /\ Transferred' = Cardinality(B)
    BY DEF Transferred
  <1>2. IsFiniteSet(DOMAIN sessions')
    <2>1. PICK T : sessions' \in Seq(T)
      BY DEF SessionsShaped
    <2>2. DOMAIN sessions' = 1..Len(sessions') /\ Len(sessions') \in Nat
      BY <2>1, LenProperties
    <2> QED  BY <2>2, FS_Interval
  <1>3. A \subseteq B /\ IsFiniteSet(B)
    BY <1>2, FS_Subset
  <1> HIDE DEF A, B
  <1> QED  BY <1>1, <1>3, FS_Subset, FS_CardinalityType

\* Where orders and transfers are not fewer, neither are rows.
LEMMA RowsGrow ==
  ASSUME BooksTyped, BooksTyped', SessionsShaped, SessionsShaped',
         orders.buys <= orders'.buys, orders.redeems <= orders'.redeems,
         DOMAIN sessions \subseteq DOMAIN sessions',
         \A t \in DOMAIN sessions : sessions[t].transfers > 0 => sessions'[t].transfers > 0
  PROVE  \A tab : Rows(tab) \in Nat /\ Rows(tab)' \in Nat /\ Rows(tab) <= Rows(tab)'
  <1>1. Transferred \in Nat /\ Transferred' \in Nat /\ Transferred <= Transferred'
    BY TransferredGrows
  <1> QED  BY <1>1 DEF Rows, BooksTyped

\* Orders and transfers are not fewer after a route.
LEMMA RouteAddsRows ==
  ASSUME Inv, Inv', BooksTyped, NEW c \in calls, PortfolioRoute(c)
  PROVE  BooksTyped' /\ \A tab : Rows(tab) \in Nat /\ Rows(tab)' \in Nat /\ Rows(tab) <= Rows(tab)'
  <1>1. SessionsShaped /\ SessionsShaped'
    BY DEF Inv
  <1>2. /\ orders' = [buys |-> orders'.buys, redeems |-> orders'.redeems,
                      spent |-> orders'.spent]
        /\ orders'.buys \in Nat /\ orders'.redeems \in Nat
        /\ orders.buys <= orders'.buys /\ orders.redeems <= orders'.redeems
    <2> DEFINE b == orders.buys + 1
               r == orders.redeems + 1
               n == orders.spent + c.req.gross
    <2>1. \/ UNCHANGED orders
          \/ orders' = [orders EXCEPT !.buys = b, !.spent = n]
          \/ orders' = [orders EXCEPT !.redeems = r]
      BY DEF PortfolioRoute, WithdrawRequestCode, WithdrawRequestCommits, WithdrawResendCode,
             WithdrawConfirmReads, WithdrawConfirmVerifies, WithdrawConfirmCommits, WithdrawCancel, CreateBuyOrder,
             CreateRedeemOrder, InConfirm, Refuses
    <2>2. b \in Nat /\ r \in Nat /\ orders.buys <= b /\ orders.redeems <= r
      BY DEF BooksTyped
    <2> HIDE DEF b, r, n
    <2>3. CASE UNCHANGED orders
      BY <2>3 DEF BooksTyped
    <2>4. CASE orders' = [orders EXCEPT !.buys = b, !.spent = n]
      <3>1. orders' = [buys |-> b, redeems |-> orders.redeems, spent |-> n]
        BY <2>4 DEF BooksTyped
      <3> QED  BY <2>2, <3>1 DEF BooksTyped
    <2>5. CASE orders' = [orders EXCEPT !.redeems = r]
      <3>1. orders' = [buys |-> orders.buys, redeems |-> r, spent |-> orders.spent]
        BY <2>5 DEF BooksTyped
      <3> QED  BY <2>2, <3>1 DEF BooksTyped
    <2> QED  BY <2>1, <2>3, <2>4, <2>5
  <1>3. /\ DOMAIN sessions \subseteq DOMAIN sessions'
        /\ \A t \in DOMAIN sessions' : sessions'[t].transfers \in Nat
        /\ \A t \in DOMAIN sessions : sessions[t].transfers > 0 => sessions'[t].transfers > 0
    <2>1. CASE UNCHANGED sessions
      BY <2>1 DEF BooksTyped
    <2>2. ASSUME NEW row, row.transfers = 0, sessions' = Append(sessions, row)
          PROVE  /\ DOMAIN sessions \subseteq DOMAIN sessions'
                 /\ \A t \in DOMAIN sessions' : sessions'[t].transfers \in Nat
                 /\ \A t \in DOMAIN sessions : sessions'[t] = sessions[t]
      <3>1. PICK T : sessions \in Seq(T)
        BY <1>1 DEF SessionsShaped
      <3>2. sessions \in Seq(T \cup {row})
        BY <3>1, SeqMonotonic
      <3>3. /\ Len(sessions) \in Nat /\ DOMAIN sessions = 1..Len(sessions)
            /\ DOMAIN sessions' = 1..(Len(sessions) + 1)
            /\ sessions'[Len(sessions) + 1] = row
            /\ \A i \in 1..Len(sessions) : sessions'[i] = sessions[i]
        BY <2>2, <3>2, LenProperties
      <3>4. ASSUME NEW t \in DOMAIN sessions' PROVE sessions'[t].transfers \in Nat
        <4>1. CASE t = Len(sessions) + 1
          BY <2>2, <3>3, <4>1
        <4>2. CASE t # Len(sessions) + 1
          BY <3>3, <3>4, <4>2 DEF BooksTyped
        <4> QED  BY <4>1, <4>2
      <3> QED  BY <3>3, <3>4
    <2>3. ASSUME NEW t, NEW row, sessions' = [sessions EXCEPT ![t] = row],
                 t \in DOMAIN sessions =>
                   /\ row.transfers \in Nat
                   /\ sessions[t].transfers > 0 => row.transfers > 0
          PROVE  /\ DOMAIN sessions' = DOMAIN sessions
                 /\ \A i \in DOMAIN sessions :
                      /\ sessions'[i].transfers \in Nat
                      /\ sessions[i].transfers > 0 => sessions'[i].transfers > 0
      BY <2>3 DEF BooksTyped
    <2>4. CASE WithdrawRequestCommits(c)
      <3>1. PICK row : /\ row = [addr |-> c.req.addr, gross |-> c.req.gross,
                                 slot |-> c.req.slot, live |-> TRUE, used |-> FALSE,
                                 transfers |-> 0]
                       /\ sessions' = Append(sessions, row)
        BY <2>4 DEF WithdrawRequestCommits
      <3> QED  BY <2>2, <3>1
    <2>5. CASE WithdrawConfirmCommits(c) /\ ~UNCHANGED sessions
      <3>1. PICK t, row : /\ t = c.req.token
                          /\ row = [sessions[t] EXCEPT !.used = TRUE, !.transfers = @ + 1]
                          /\ sessions' = [sessions EXCEPT ![t].used = TRUE,
                                                          ![t].transfers = @ + 1]
        BY <2>5 DEF WithdrawConfirmCommits
      <3>2. sessions' = [sessions EXCEPT ![t] = row]
        BY <3>1
      <3>3. t \in DOMAIN sessions => row.transfers \in Nat /\ row.transfers > 0
        BY <1>1, <3>1 DEF SessionsShaped, BooksTyped
      <3> QED  BY <2>3, <3>2, <3>3
    <2>6. CASE WithdrawCancel(c) /\ ~UNCHANGED sessions
      <3>1. PICK t, row : /\ t = c.req.token /\ row = [sessions[t] EXCEPT !.live = FALSE]
                          /\ sessions' = [sessions EXCEPT ![t].live = FALSE]
        BY <2>6 DEF WithdrawCancel
      <3>2. sessions' = [sessions EXCEPT ![t] = row]
        BY <3>1
      <3>3. t \in DOMAIN sessions => row.transfers = sessions[t].transfers
        BY <1>1, <3>1 DEF SessionsShaped
      <3> QED  BY <2>3, <3>2, <3>3 DEF BooksTyped
    <2> QED
      BY <2>1, <2>4, <2>5, <2>6
      DEF PortfolioRoute, WithdrawRequestCode, WithdrawResendCode, WithdrawConfirmReads,
          WithdrawConfirmVerifies, CreateBuyOrder, CreateRedeemOrder, InConfirm, Refuses
  <1>4. BooksTyped'
    BY <1>2, <1>3 DEF BooksTyped
  <1> QED  BY <1>1, <1>2, <1>3, <1>4, RowsGrow

\* Where orders and sessions stay, the rows do.
LEMMA SameRows ==
  ASSUME Inv, BooksTyped, UNCHANGED <<orders, sessions>>
  PROVE  BooksTyped' /\ \A tab : Rows(tab) \in Nat /\ Rows(tab)' = Rows(tab)
  <1>1. BooksTyped' /\ SessionsShaped /\ SessionsShaped'
    BY DEF Inv, BooksTyped, SessionsShaped
  <1>2. orders.buys <= orders'.buys /\ orders.redeems <= orders'.redeems
    BY DEF BooksTyped
  <1>3. \A tab : Rows(tab) \in Nat
    BY <1>1, <1>2, RowsGrow
  <1>4. \A tab : Rows(tab)' = Rows(tab)
    BY DEF Rows, Transferred
  <1> QED  BY <1>1, <1>3, <1>4

\* What has nothing to do with the history, while rows are added or not.
LEMMA HistoryUntouched ==
  ASSUME HistInv, BooksTyped', PollsByKind', UNCHANGED hist,
         polls'["history"] = polls["history"],
         \A tab : Rows(tab) \in Nat /\ Rows(tab)' \in Nat /\ Rows(tab) <= Rows(tab)'
  PROVE  HistInv' /\ OwnRows
  <1>1. PanelsTyped'
    BY DEF HistInv, PanelsTyped
  <1>2. OneHistoryPoll'
    BY DEF HistInv, OneHistoryPoll
  <1>3. OwnRows
    <2> SUFFICES ASSUME NEW tab \in Tabs
                 PROVE  /\ hist.panels[tab].tab = tab
                        /\ hist.panels[tab].rows >= hist.panels[tab].rows
      BY DEF OwnRows
    <2>1. /\ hist.panels[tab] \in [tab : {tab}, rows : Nat]
          /\ hist.panels[tab].rows \in Nat
      BY DEF HistInv, PanelsTyped
    <2> QED  BY <2>1
  <1> QED  BY <1>1, <1>2, <1>3 DEF HistInv

\* A step that leaves orders and sessions, and touches polls of one other kind.
LEMMA OtherKinds ==
  ASSUME Inv, HistInv, UNCHANGED <<hist, orders, sessions>>,
         NEW kind \in Kinds \ {"history"}, NEW p, NEW arg, NEW data,
         \/ UNCHANGED polls \/ Asks(kind, arg) \/ polls' = Heard(kind, p)
         \/ Reports(kind, p, data)
  PROVE  HistInv' /\ OwnRows
  <1>1. "history" \in Kinds \ {kind} /\ kind \in Kinds
    BY DEF Kinds
  <1>2. PollsByKind' /\ polls'["history"] = polls["history"]
    <2>1. CASE UNCHANGED polls
      BY <2>1 DEF HistInv, PollsByKind
    <2>2. CASE Asks(kind, arg)
      BY <1>1, <2>2, AsksAdds DEF HistInv
    <2>3. CASE polls' = Heard(kind, p)
      BY <1>1, <2>3, HeardTakes DEF HistInv, PollsByKind
    <2>4. CASE Reports(kind, p, data)
      BY <1>1, <2>4, ReportsAnswers DEF HistInv
    <2> QED  BY <2>1, <2>2, <2>3, <2>4
  <1>3. BooksTyped' /\ \A tab : Rows(tab) \in Nat /\ Rows(tab)' = Rows(tab)
    BY SameRows DEF HistInv
  <1> QED  BY <1>2, <1>3, HistoryUntouched

\* setMain, setSub and the interval: a poll is asked where none is awaited.
LEMMA HistoryStepKeeps ==
  ASSUME Inv, HistInv, HistoryStep
  PROVE  HistInv' /\ OwnRows
  <1>1. UNCHANGED <<orders, sessions>>
    BY DEF HistoryStep, SetTab, PollActiveHistory, bookVars
  <1>2. PICK tab \in Tabs : /\ PollsHistory(polls, tab)
                            /\ UNCHANGED hist \/ hist' = [hist EXCEPT !.tab = tab]
    BY DEF HistoryStep, SetTab, ShowPanel, PollActiveHistory, HistInv, PanelsTyped
  <1>3. BooksTyped' /\ \A t : Rows(t) \in Nat /\ Rows(t)' = Rows(t)
    BY <1>1, SameRows DEF HistInv
  <1>4. hist' = [tab |-> hist'.tab, panels |-> hist'.panels] /\ hist'.tab \in Tabs
        /\ hist'.panels = hist.panels
    BY <1>2 DEF HistInv, PanelsTyped
  <1>5. PanelsTyped' /\ OwnRows
    <2>1. \A t \in Tabs :
            /\ hist.panels[t] \in [tab : {t}, rows : Nat]
            /\ hist.panels[t].rows \in Nat /\ hist.panels[t].rows <= Rows(t)
      BY DEF HistInv, PanelsTyped
    <2>2. hist.panels = [t \in Tabs |-> hist.panels[t]]
      BY DEF HistInv, PanelsTyped
    <2>3. PanelsTyped'
      BY <1>3, <1>4, <2>1, <2>2 DEF PanelsTyped
    <2>4. \A t \in Tabs : hist.panels[t].tab = t /\ hist.panels[t].rows >= hist.panels[t].rows
      BY <2>1
    <2> QED  BY <1>4, <2>3, <2>4 DEF OwnRows
  <1>6. PollsByKind' /\ OneHistoryPoll'
    <2>1. CASE UNCHANGED polls
      BY <1>3, <1>4, <2>1 DEF HistInv, OneHistoryPoll, PollsByKind
    <2>2. CASE polls["history"] = {} /\ Asks("history", tab)
      <3>1. "history" \in Kinds
        BY DEF Kinds
      <3>2. ByKind(polls)
        BY DEF HistInv, PollsByKind
      <3>3. PollsByKind' /\ \A p \in polls'["history"] : p.arg = tab /\ ~p.done
        BY <2>2, <3>1, AsksAdds DEF HistInv
      <3>4. \A p, q \in polls'["history"] : p = q
        <4> DEFINE free == Ids \ {p.id : p \in polls["history"]}
                   new == [id |-> CHOOSE id \in free : \A other \in free : id <= other,
                           arg |-> tab, done |-> FALSE]
        <4>1. polls' = IF free = {} THEN polls ELSE [polls EXCEPT !["history"] = @ \cup {new}]
          BY <2>2 DEF Asks, WithPoll
        <4> HIDE DEF free, new
        <4> QED  BY <2>2, <3>1, <3>2, <4>1 DEF ByKind
      <3> QED  BY <3>3, <3>4 DEF OneHistoryPoll
    <2> QED  BY <1>2, <2>1, <2>2 DEF PollsHistory, Asks
  <1> QED  BY <1>3, <1>5, <1>6 DEF HistInv

\* /api/history/live: at least as many rows as the panel has.
LEMMA HistoryReported ==
  ASSUME Inv, HistInv, UNCHANGED hist, NEW p \in polls["history"],
         Reports("history", p, Rows(p.arg))
  PROVE  HistInv' /\ OwnRows
  <1>1. "history" \in Kinds
    BY DEF Kinds
  <1>2. UNCHANGED <<orders, sessions>> /\ ~p.done
    BY DEF Reports, bookVars
  <1>3. BooksTyped' /\ \A t : Rows(t) \in Nat /\ Rows(t)' = Rows(t)
    BY <1>2, SameRows DEF HistInv
  <1>4. PICK new : /\ new = [id |-> p.id, arg |-> p.arg, done |-> TRUE, data |-> Rows(p.arg)]
                   /\ polls' = [polls EXCEPT !["history"] = (@ \ {p}) \cup {new}]
    BY DEF Reports
  <1>5. new.arg = p.arg /\ new.done /\ new.data = Rows(p.arg)
    BY <1>4
  <1>6. polls'["history"] = {new} /\ PollsByKind'
    <2>1. ByKind(polls) /\ polls["history"] = {p}
      BY DEF HistInv, PollsByKind, OneHistoryPoll
    <2>2. polls'["history"] = {new}
      BY <1>1, <1>4, <2>1 DEF ByKind
    <2>3. ByKind(polls')
      BY <1>1, <1>4, <2>1 DEF ByKind
    <2> QED  BY <2>2, <2>3 DEF PollsByKind
  <1>7. /\ p.arg \in Tabs /\ hist.panels[p.arg].rows \in Nat
        /\ hist.panels[p.arg].rows <= Rows(p.arg)
    BY DEF HistInv, OneHistoryPoll, PanelsTyped
  <1>8. OneHistoryPoll'
    BY <1>3, <1>5, <1>6, <1>7 DEF OneHistoryPoll
  <1>9. PanelsTyped'
    BY <1>3 DEF HistInv, PanelsTyped
  <1>10. OwnRows
    <2>1. \A t \in Tabs :
            /\ hist.panels[t] \in [tab : {t}, rows : Nat]
            /\ hist.panels[t].rows \in Nat
      BY DEF HistInv, PanelsTyped
    <2>2. \A t \in Tabs : hist.panels[t].tab = t /\ hist.panels[t].rows >= hist.panels[t].rows
      BY <2>1
    <2> QED  BY <2>2 DEF OwnRows
  <1> QED  BY <1>3, <1>6, <1>8, <1>9, <1>10 DEF HistInv

\* The rows of an answer go to the panel it was asked for.
LEMMA ApplyHistoryKeeps ==
  ASSUME Inv, HistInv, NEW p \in polls["history"], ApplyHistory(p)
  PROVE  HistInv' /\ OwnRows
  <1>1. "history" \in Kinds
    BY DEF Kinds
  <1>2. UNCHANGED <<orders, sessions>> /\ polls' = Heard("history", p)
    BY DEF ApplyHistory, Takes, Breaks, bookVars
  <1>3. BooksTyped' /\ \A t : Rows(t) \in Nat /\ Rows(t)' = Rows(t)
    BY <1>2, SameRows DEF HistInv
  <1>4. polls["history"] = {p}
    BY DEF HistInv, OneHistoryPoll
  <1>5. PollsByKind' /\ polls'["history"] = {}
    BY <1>1, <1>2, <1>4, HeardTakes DEF HistInv, PollsByKind
  <1>6. OneHistoryPoll'
    BY <1>5 DEF OneHistoryPoll
  <1>7. \A t \in Tabs :
          /\ hist.panels[t] \in [tab : {t}, rows : Nat]
          /\ hist.panels[t].rows \in Nat /\ hist.panels[t].rows <= Rows(t)
    BY DEF HistInv, PanelsTyped
  <1>8. CASE UNCHANGED hist
    <2>1. PanelsTyped'
      BY <1>3, <1>8 DEF HistInv, PanelsTyped
    <2>2. \A t \in Tabs : hist.panels[t].tab = t /\ hist.panels[t].rows >= hist.panels[t].rows
      BY <1>7
    <2>3. OwnRows
      BY <1>8, <2>2 DEF OwnRows
    <2> QED  BY <1>3, <1>5, <1>6, <2>1, <2>3 DEF HistInv
  <1>9. CASE Takes("history", p) /\ hist' = [hist EXCEPT !.panels[p.arg] =
                                               RenderLiveTable(p.arg, p.data)]
    <2>1. /\ p.arg \in Tabs /\ p.data \in Nat /\ p.data <= Rows(p.arg)
          /\ hist.panels[p.arg].rows <= p.data
      BY <1>9 DEF Takes, HistInv, OneHistoryPoll
    <2>2. PICK row : /\ row = [tab |-> p.arg, rows |-> p.data]
                     /\ hist' = [hist EXCEPT !.panels[p.arg] = row]
      BY <1>9 DEF RenderLiveTable
    <2>3. row.tab = p.arg /\ row.rows = p.data /\ row \in [tab : {p.arg}, rows : Nat]
      BY <2>1, <2>2
    <2>4. /\ hist = [tab |-> hist.tab, panels |-> hist.panels] /\ hist.tab \in Tabs
          /\ hist.panels = [tab \in Tabs |-> hist.panels[tab]]
      BY DEF HistInv, PanelsTyped
    <2>5. PICK panels : panels = [hist.panels EXCEPT ![p.arg] = row]
      OBVIOUS
    <2>6. hist' = [tab |-> hist.tab, panels |-> panels]
      BY <2>2, <2>4, <2>5
    <2>7. /\ panels = [t \in Tabs |-> panels[t]] /\ panels[p.arg] = row
          /\ \A t \in Tabs \ {p.arg} : panels[t] = hist.panels[t]
      BY <2>1, <2>4, <2>5
    <2>8. \A t \in Tabs : /\ panels[t] \in [tab : {t}, rows : Nat]
                          /\ panels[t].rows \in Nat /\ panels[t].rows <= Rows(t)
                          /\ panels[t].tab = t /\ panels[t].rows >= hist.panels[t].rows
      <3> SUFFICES ASSUME NEW t \in Tabs
                   PROVE  /\ panels[t] \in [tab : {t}, rows : Nat]
                          /\ panels[t].rows \in Nat /\ panels[t].rows <= Rows(t)
                          /\ panels[t].tab = t /\ panels[t].rows >= hist.panels[t].rows
        OBVIOUS
      <3>1. CASE t = p.arg
        BY <1>7, <2>1, <2>3, <2>7, <3>1
      <3>2. CASE t # p.arg
        BY <1>7, <2>7, <3>2
      <3> QED  BY <3>1, <3>2
    <2>9. hist'.panels = panels /\ hist'.tab = hist.tab
      BY <2>6
    <2>10. PanelsTyped'
      BY <1>3, <2>4, <2>6, <2>7, <2>8, <2>9 DEF PanelsTyped
    <2>11. OwnRows
      BY <2>8, <2>9 DEF OwnRows
    <2> QED  BY <1>3, <1>5, <1>6, <2>10, <2>11 DEF HistInv
  <1> QED  BY <1>8, <1>9 DEF ApplyHistory

\* A document is loaded: no poll of the history, or its first one.
LEMMA HistoryLoadStep ==
  ASSUME Inv, HistInv, UNCHANGED <<orders, sessions>>,
         NEW to \in {"dashboard", "terminal", "history"}, Loads(to)
  PROVE  HistInv'
  <1>1. BooksTyped' /\ \A t : Rows(t) \in Nat /\ Rows(t)' = Rows(t)
    BY SameRows DEF HistInv
  <1>2. ByKind(NoPolls) /\ NoPolls["history"] = {} /\ "history" \in Kinds
    BY DEF NoPolls, ByKind, Kinds
  <1>3. PICK tab \in Tabs :
          /\ hist' = [HistoryStart EXCEPT !.tab = tab]
          /\ \E kind \in Kinds : polls' = WithPoll(NoPolls, kind, tab)
                \/ (kind # "history" /\ polls' = WithPoll(NoPolls, kind, None))
    <2>1. CASE to = "history"
      <3>1. PICK tab \in Tabs : /\ hist' = [HistoryStart EXCEPT !.tab = tab]
                                /\ PollsHistory(NoPolls, tab)
        BY <2>1 DEF Loads, HistoryLoads
      <3> QED  BY <1>2, <3>1 DEF PollsHistory
    <2>2. CASE to # "history"
      <3>1. hist' = HistoryStart
            /\ \E kind \in Kinds \ {"history"} : polls' = WithPoll(NoPolls, kind, None)
        BY <2>2 DEF Loads, DashboardLoads, TerminalLoads, Kinds
      <3>2. HistoryStart = [HistoryStart EXCEPT !.tab = <<"trading", "all">>]
            /\ <<"trading", "all">> \in Tabs
        BY DEF HistoryStart, Tabs
      <3> QED  BY <3>1, <3>2
    <2> QED  BY <2>1, <2>2
  <1>4. PICK kind, arg : /\ kind \in Kinds /\ polls' = WithPoll(NoPolls, kind, arg)
                         /\ kind = "history" => arg = tab
    BY <1>3
  <1>5. PollsByKind'
    BY <1>2, <1>4, WithPollAdds DEF PollsByKind
  <1>6. \A p \in polls'["history"] : p.arg = tab /\ ~p.done
    <2>1. CASE kind = "history"
      BY <1>2, <1>4, <2>1, WithPollAdds
    <2>2. CASE kind # "history"
      BY <1>2, <1>4, <2>2, WithPollAdds
    <2> QED  BY <2>1, <2>2
  <1>7. \A p, q \in polls'["history"] : p = q
    <2>1. CASE kind # "history"
      BY <1>2, <1>4, <2>1, WithPollAdds
    <2>2. CASE kind = "history"
      <3> DEFINE free == Ids \ {p.id : p \in NoPolls["history"]}
                 new == [id |-> CHOOSE id \in free : \A other \in free : id <= other,
                         arg |-> arg, done |-> FALSE]
      <3>1. polls' = IF free = {} THEN NoPolls
                     ELSE [NoPolls EXCEPT !["history"] = @ \cup {new}]
        BY <1>4, <2>2 DEF WithPoll
      <3> HIDE DEF free, new
      <3> QED  BY <1>2, <3>1 DEF ByKind
    <2> QED  BY <2>1, <2>2
  <1>8. OneHistoryPoll'
    BY <1>6, <1>7 DEF OneHistoryPoll
  <1>9. PanelsTyped'
    <2>1. PICK start : start = [HistoryStart EXCEPT !.tab = tab] /\ hist' = start
      BY <1>3
    <2>2. /\ start = [tab |-> start.tab, panels |-> start.panels] /\ start.tab = tab
          /\ start.panels = [t \in Tabs |-> start.panels[t]]
          /\ \A t \in Tabs :
               /\ start.panels[t] \in [tab : {t}, rows : Nat]
               /\ start.panels[t].rows = Rows(t)
      BY <1>1, <2>1 DEF HistoryStart
    <2>3. \A t \in Tabs : start.panels[t].rows \in Nat /\ start.panels[t].rows <= Rows(t)'
      BY <1>1, <2>2
    <2> QED  BY <2>1, <2>2, <2>3 DEF PanelsTyped
  <1> QED  BY <1>1, <1>5, <1>8, <1>9 DEF HistInv

\* Every step keeps the invariant, and the rows of a document.
LEMMA HistoryKept ==
  ASSUME Inv, Inv', HistInv, RouteTyped, [Next]_vars
  PROVE  HistInv' /\ (SameDocument => OwnRows)
  <1> USE DEF Kinds
  <1>1. CASE UNCHANGED vars
    <2>1. UNCHANGED <<hist, polls, orders, sessions>>
      BY <1>1 DEF vars, portfolioVars, bookVars
    <2> QED  BY <2>1, OtherKinds
  <1>2. CASE Navigate
    <2>1. UNCHANGED <<orders, sessions>> /\ Loads(Head(visit.route)) /\ ~SameDocument
          /\ Head(visit.route) \in {"dashboard", "terminal", "history"}
      <3>1. /\ visit.route # <<>> /\ visit' = [visit EXCEPT !.route = Tail(@)]
            /\ Loads(Head(visit.route)) /\ UNCHANGED <<orders, sessions>>
        BY <1>2 DEF Navigate, bookVars
      <3>2. /\ Head(visit.route) \in Loadable /\ Tail(visit.route) # visit.route
            /\ visit'.route = Tail(visit.route)
        BY <3>1 DEF RouteTyped
      <3> QED  BY <3>1, <3>2 DEF Loadable, SameDocument
    <2> QED  BY <2>1, HistoryLoadStep
  <1>3. CASE User /\ ~Navigate
    <2>1. UNCHANGED <<hist, orders, sessions>>
          /\ (UNCHANGED polls \/ \E arg : Asks("options", arg))
      <3>1. UNCHANGED hist /\ (WithdrawUser \/ TypeAddress \/ BuyClick \/ RedeemClick)
        BY <1>3 DEF User
      <3>2. CASE WithdrawConfirmBtn
        BY <3>1, <3>2 DEF WithdrawConfirmBtn, OpenDialog, bookVars
      <3>3. CASE ~WithdrawConfirmBtn
        BY <3>1, <3>3
        DEF WithdrawUser, OpenWithdrawForm, CloseModal, GetCodeClick, ResendClick,
            ConfirmClick, EmailChange, HandleConfirmModalClose, TypeAddress, BuyClick,
            RedeemClick, OrderClick, portfolioVars, bookVars
      <3> QED  BY <3>2, <3>3
    <2> QED  BY <2>1, OtherKinds
  <1>4. CASE HistoryStep
    BY <1>4, HistoryStepKeeps
  <1>5. CASE (Scripts \/ PollsSummary) /\ ~HistoryStep
    <2>1. UNCHANGED <<hist, orders, sessions>>
          /\ (UNCHANGED polls \/ \E kind \in Kinds \ {"history"} : \E arg : Asks(kind, arg))
      BY <1>5
      DEF Scripts, PollsSummary, ValidateAddressDebounced, PollDashboardLive, PollLatestBar,
          ChartStep, ThemeToggle, ThemeRebuild, RemoveWidget, NewWidget, ScrollBack,
          SubscribeBars, PollSummary, portfolioVars, bookVars
    <2> QED  BY <2>1, OtherKinds
  <1>6. CASE Elsewhere
    <2>1. UNCHANGED <<hist, orders, sessions, polls>>
      BY <1>6
      DEF Elsewhere, PriceTicks, ComplianceChanges, CooldownEnds, CooldownPasses,
          portfolioVars, bookVars
    <2> QED  BY <2>1, OtherKinds
  <1>7. ASSUME NEW c \in calls, PortfolioRoute(c), UNCHANGED hist
        PROVE  HistInv' /\ OwnRows
    <2>1. UNCHANGED polls
      BY <1>7
      DEF PortfolioRoute, WithdrawRequestCode, WithdrawRequestCommits, WithdrawResendCode,
          WithdrawConfirmReads, WithdrawConfirmVerifies, WithdrawConfirmCommits, WithdrawCancel, CreateBuyOrder,
          CreateRedeemOrder, Serves, InConfirm
    <2>2. BooksTyped' /\ \A tab : Rows(tab) \in Nat /\ Rows(tab)' \in Nat /\ Rows(tab) <= Rows(tab)'
      BY <1>7, RouteAddsRows DEF HistInv
    <2>3. PollsByKind' /\ polls'["history"] = polls["history"]
      BY <2>1 DEF HistInv, PollsByKind
    <2> QED  BY <1>7, <2>2, <2>3, HistoryUntouched
  <1>8. ASSUME NEW c \in calls, WithdrawAnswer(c) \/ TerminalAnswer(c), UNCHANGED hist
        PROVE  HistInv' /\ OwnRows
    <2>1. UNCHANGED <<orders, sessions, polls>>
      BY <1>8
      DEF WithdrawAnswer, GetCodeAnswered, ResendAnswered, Confirmed, Cancelled,
          TerminalAnswer, Bought, Redeemed, portfolioVars, bookVars
    <2> QED  BY <1>8, <2>1, OtherKinds
  <1>9. ASSUME NEW kind \in Kinds, NEW id, PollMoves(kind, id)
        PROVE  HistInv' /\ OwnRows
    <2>1. CASE Report(kind, id)
      <3>1. PICK p \in polls[kind] : LiveEndpoint(kind, p)
        BY <2>1 DEF Report
      <3>2. UNCHANGED hist
        BY <2>1 DEF Report
      <3>3. CASE kind = "history"
        BY <3>1, <3>2, <3>3, HistoryReported DEF LiveEndpoint
      <3>4. CASE kind # "history"
        <4>1. PICK data : Reports(kind, p, data)
          BY <3>1, <3>4 DEF LiveEndpoint
        <4>2. UNCHANGED <<orders, sessions>>
          BY <4>1 DEF Reports, bookVars
        <4> QED  BY <3>2, <3>4, <4>1, <4>2, OtherKinds
      <3> QED  BY <3>3, <3>4
    <2>2. CASE Apply(kind, id)
      <3>1. PICK p \in polls[kind] :
              \/ kind = "history" /\ ApplyHistory(p)
              \/ /\ kind # "history" /\ UNCHANGED hist
                 /\ \/ AddressValidated(p) /\ kind = "validate"
                    \/ LoadEmailOptions(p) /\ kind = "options"
                    \/ ApplyDashboardLive(p) /\ kind = "dashboard"
                    \/ ApplyTerminalLivePayload(p) /\ kind = "summary"
                    \/ GetBars(p) /\ kind = "bars"
                    \/ LatestBarArrives(p) /\ kind = "latest"
        BY <2>2 DEF Apply
      <3>2. CASE kind = "history"
        BY <3>1, <3>2, ApplyHistoryKeeps
      <3>3. CASE kind # "history" /\ polls' = Heard(kind, p)
        <4>1. UNCHANGED <<hist, orders, sessions>>
          BY <3>1, <3>3
          DEF AddressValidated, LoadEmailOptions, ApplyDashboardLive,
              ApplyTerminalLivePayload, GetBars, LatestBarArrives, Breaks, bookVars
        <4> QED  BY <3>3, <4>1, OtherKinds
      <3>4. CASE kind = "latest" /\ polls' = WithPoll(Heard("latest", p), "summary", None)
        <4>1. UNCHANGED <<hist, orders, sessions>>
          BY <3>1, <3>4 DEF LatestBarArrives, Breaks, bookVars
        <4>2. ByKind(Heard("latest", p)) /\ Heard("latest", p)["history"] = polls["history"]
          BY HeardTakes DEF HistInv
        <4>3. PollsByKind' /\ polls'["history"] = polls["history"]
          BY <3>4, <4>2, WithPollAdds DEF PollsByKind
        <4>4. BooksTyped' /\ \A tab : Rows(tab) \in Nat /\ Rows(tab)' = Rows(tab)
          BY <4>1, SameRows DEF HistInv
        <4> QED  BY <4>1, <4>3, <4>4, HistoryUntouched
      <3>5. kind # "history" =>
              \/ polls' = Heard(kind, p)
              \/ kind = "latest" /\ polls' = WithPoll(Heard("latest", p), "summary", None)
        BY <3>1
        DEF AddressValidated, LoadEmailOptions, ApplyDashboardLive,
            ApplyTerminalLivePayload, GetBars, LatestBarArrives, Takes, Breaks
      <3> QED  BY <3>2, <3>3, <3>4, <3>5
    <2> QED  BY <1>9, <2>1, <2>2 DEF PollMoves
  <1>10. ASSUME NEW id \in Ids, CallMoves(id)
         PROVE  HistInv' /\ OwnRows
    BY <1>7, <1>8, <1>10 DEF CallMoves
  <1> QED  BY <1>1, <1>2, <1>3, <1>4, <1>5, <1>6, <1>9, <1>10 DEF Next

\* A visit starts with panels as the server renders them.
LEMMA HistoryStarts ==
  ASSUME Init, Inv
  PROVE  HistInv
  <1>1. /\ polls = NoPolls /\ sessions = <<>> /\ hist = HistoryStart
        /\ orders = [buys |-> 0, redeems |-> 0, spent |-> 0]
    BY DEF Init, PortfolioInit
  <1>2. BooksTyped
    BY <1>1 DEF BooksTyped
  <1>3. PollsByKind /\ polls["history"] = {}
    BY <1>1 DEF NoPolls, PollsByKind, ByKind, Kinds
  <1>4. \A t : Rows(t) \in Nat
    <2>1. Transferred = 0
      <3>1. {t \in DOMAIN sessions : sessions[t].transfers > 0} = {}
        BY <1>1
      <3> QED  BY <3>1, FS_EmptySet DEF Transferred
    <2> QED  BY <1>1, <2>1 DEF Rows
  <1>5. PanelsTyped
    BY <1>1, <1>4 DEF PanelsTyped, HistoryStart, Tabs
  <1> QED  BY <1>2, <1>3, <1>5 DEF HistInv, OneHistoryPoll

\* A panel of history.js only ever holds rows of its own tab and loses none, for every
\* visit and bound: the page keeps one poll at a time, whichever tab is shown when its
\* answer comes.
THEOREM PanelKeepsRows == Spec => PanelOwnRows
  <1>1. Init => Inv /\ HistInv /\ RouteTyped
    BY Starts, HistoryStarts, FeedStarts
  <1>2. (Inv /\ FeedInv /\ HistInv /\ RouteTyped) /\ [Next]_vars
          => (Inv /\ FeedInv /\ HistInv /\ RouteTyped)'
    BY StepKeeps, FeedStep, HistoryKept
  <1>3. Inv /\ FeedInv /\ HistInv /\ RouteTyped /\ [Next]_vars
          => [SameDocument =>
               \A tab \in Tabs : /\ hist'.panels[tab].tab = tab
                                 /\ hist'.panels[tab].rows >= hist.panels[tab].rows]_vars
    BY StepKeeps, HistoryKept DEF OwnRows
  <1>4. Init => FeedInv
    BY FeedStarts
  <1> QED  BY <1>1, <1>2, <1>3, <1>4, PTL DEF Spec, PanelOwnRows

(***************************************************************************)
(* Types                                                                   *)
(***************************************************************************)
Places == Addresses \cup {None}
Tokens == 0..Len(sessions)

TabTyped ==
  /\ page \in Pages /\ locked \subseteq Buttons /\ cooling \subseteq {"getCode", "resend"}
  /\ made \in 0..MaxCalls /\ losses \in 0..MaxLost /\ orphaned \in BOOLEAN

\* A request names a session that was begun; a confirmation and a cancellation name one.
RequestTyped(req) ==
  /\ req.token \in Tokens /\ req.gross \in Nat
  /\ req.addr \in Places /\ req.slot \in {0} \cup Slots
  /\ req.op \in {"withdraw_confirm", "withdraw_cancel"} => req.token # 0

CallTyped(c) ==
  /\ {"id", "btn", "req", "owned", "stage"} \subseteq DOMAIN c
  /\ c.id \in Ids /\ c.btn \in Buttons
  /\ RequestTyped(c.req)
  /\ IsRead(c) => /\ "seen" \in DOMAIN c /\ {"step", "reserved"} \subseteq DOMAIN c.seen
                  /\ c.seen.reserved \in Nat
  /\ IsDone(c) => /\ "ans" \in DOMAIN c
                  /\ c.ans.token \in Tokens /\ c.ans.slot \in {0} \cup Slots

\* Each call in flight has a number of its own.
CallsTyped ==
  /\ \A c \in calls : CallTyped(c)
  /\ \A c, d \in calls : c.id = d.id => c = d

SessionRow ==
  [addr : Places, gross : Nat, slot : {0} \cup Slots, live : BOOLEAN, used : BOOLEAN,
   transfers : Nat]

AccountTyped ==
  /\ wallet = [balance |-> Balance, reserved |-> wallet.reserved] /\ wallet.reserved \in Nat
  /\ position = [shares |-> Shares, reserved |-> position.reserved]
  /\ position.reserved \in 0..Shares
  /\ sessions \in Seq(SessionRow)
  /\ price \in 1..MaxPrice

\* The form is only open, and its timer only runs, on its own page.
FormTyped ==
  /\ form = [open |-> form.open, addr |-> form.addr, status |-> form.status,
             due |-> form.due, avail |-> form.avail, blocked |-> form.blocked]
  /\ form.open \subseteq {"form", "confirm", "processing"}
  /\ form.status \in {"empty", "valid", "checksum", "invalid"}
  /\ form.addr \in Places
  /\ "form" \in form.open \/ form.due => page = "dashboard"

DialogTyped ==
  /\ w = [token |-> w.token, addr |-> w.addr, gross |-> w.gross, slot |-> w.slot,
          seq |-> w.seq, options |-> w.options, done |-> w.done,
          cancelling |-> w.cancelling, totp |-> w.totp, abandoned |-> w.abandoned]
  /\ w.token \in Tokens /\ w.slot \in {0} \cup Slots /\ w.seq \in 0..MaxOpens
  /\ w.gross \in Nat /\ w.addr \in Places

\* What the order panel takes to be available was so once, less what was spent.
PanelTyped ==
  /\ term = [avail |-> term.avail, shares |-> term.shares, rows |-> term.rows,
             summary |-> term.summary]
  /\ term.avail \in Int /\ term.avail <= Balance /\ (~orphaned => term.avail >= 0)
  /\ term.shares \in 0..Shares
  /\ term.summary \in 0..MaxPrice

\* A poll is gone with the page that asks for its kind.
HomeOf(kind) ==
  IF kind \in {"validate", "options", "dashboard"} THEN "dashboard"
  ELSE IF kind = "history" THEN "history" ELSE "terminal"

PollTyped(kind, p) ==
  /\ page = HomeOf(kind)
  /\ p.done => /\ kind = "validate" => p.data \in {"empty", "valid", "invalid"}
               /\ kind = "options" => p.data = 1
               /\ kind = "summary" => p.data \in 1..MaxPrice

PollsTyped == \A kind \in Kinds : \A p \in polls[kind] : PollTyped(kind, p)

\* So is the chart.
ChartOfPage ==
  /\ page # "terminal" => feed = FeedStart(FALSE)
  /\ feed.cache \in 0..MaxPrice

TypeInv ==
  /\ TabTyped /\ CallsTyped /\ AccountTyped /\ FormTyped /\ DialogTyped /\ PanelTyped
  /\ PollsTyped /\ ChartOfPage

\* No more calls are in flight than there are numbers for them.
LEMMA FlightBounded ==
  ASSUME CallsTyped
  PROVE  Cardinality(calls) <= MaxFlight
  <1> DEFINE number == [c \in calls |-> c.id]
  <1>1. number \in Injection(calls, 1..MaxFlight)
    BY DEF Injection, IsInjective, CallsTyped, CallTyped, Ids
  <1>2. IsFiniteSet(1..MaxFlight) /\ Cardinality(1..MaxFlight) <= MaxFlight
    BY PageBounds, FS_Interval
  <1>3. Cardinality(calls) <= Cardinality(1..MaxFlight)
    BY <1>1, <1>2, FS_Injection
  <1>4. IsFiniteSet(calls)
    BY <1>1, <1>2, FS_Injection
  <1> QED
    BY <1>2, <1>3, <1>4, PageBounds, FS_CardinalityType

LEMMA TypesFollow ==
  ASSUME TypeInv, FeedInv, HistInv
  PROVE  TypeOK
  <1>1. Cardinality(calls) <= MaxFlight
    BY FlightBounded DEF TypeInv
  <1>2. \A c \in calls : c.id \in Ids /\ c.btn \in Buttons /\ c.req.token <= Len(sessions)
    BY DEF TypeInv, CallsTyped, CallTyped, RequestTyped, Tokens
  <1>3. \A kind \in Kinds : polls[kind] # {} =>
          kind \in CASE page = "dashboard" -> {"validate", "options", "dashboard"}
                     [] page = "terminal" -> {"summary", "latest", "bars"}
                     [] page = "history" -> {"history"}
                     [] page = "blank" -> {}
    <2> SUFFICES ASSUME NEW kind \in Kinds, polls[kind] # {}
                 PROVE  kind \in CASE page = "dashboard" -> {"validate", "options", "dashboard"}
                                   [] page = "terminal" -> {"summary", "latest", "bars"}
                                   [] page = "history" -> {"history"}
                                   [] page = "blank" -> {}
      OBVIOUS
    <2>1. page = HomeOf(kind)
      BY DEF TypeInv, PollsTyped, PollTyped
    <2> QED  BY <2>1 DEF HomeOf, Kinds
  <1>4. term.avail <= Balance /\ (~orphaned => term.avail \in Nat) /\ term.shares \in 0..Shares
        /\ term.summary \in 0..MaxPrice
    BY DEF TypeInv, PanelTyped
  <1>5. feed.widget \in 0..MaxCharts /\ feed.cache \in 0..MaxPrice
    BY ChartConstants DEF TypeInv, ChartOfPage, FeedInv, FeedTyped, FeedRow, Charts
  <1>6. hist.tab \in Tabs
    BY DEF HistInv, PanelsTyped
  <1>7. wallet.balance = Balance /\ wallet.reserved \in Nat /\ position.reserved \in 0..Shares
    BY DEF TypeInv, AccountTyped
  <1> QED
    BY <1>1, <1>2, <1>3, <1>4, <1>5, <1>6, <1>7
    DEF TypeOK, TypeInv, TabTyped, FormTyped, DialogTyped, Tokens

(***************************************************************************)
(* What steps leave alone                                                  *)
(***************************************************************************)
LEMMA ScriptsQuiet ==
  ASSUME Scripts \/ PollsSummary
  PROVE  UNCHANGED <<callVars, bookVars, w>>
  BY DEF Scripts, PollsSummary, ValidateAddressDebounced, PollDashboardLive, PollLatestBar,
        ChartStep, ThemeToggle, ThemeRebuild, RemoveWidget, NewWidget, ScrollBack,
        SubscribeBars, HistoryStep, SetTab, PollActiveHistory, PollSummary,
        callVars, portfolioVars, bookVars, withdrawVars

LEMMA ElsewhereTouches ==
  ASSUME Elsewhere
  PROVE  /\ UNCHANGED <<page, locked, calls, made, losses, orphaned>>
         /\ UNCHANGED <<wallet, position, sessions, wcode, orders, polls>>
         /\ UNCHANGED <<form, w, term, feed, hist, visit>>
         /\ cooling' \subseteq cooling
  BY DEF Elsewhere, PriceTicks, ComplianceChanges, CooldownEnds, CooldownPasses,
         callVars, portfolioVars, bookVars, withdrawVars

LEMMA PollMovesQuiet ==
  ASSUME NEW kind \in Kinds, NEW id, PollMoves(kind, id)
  PROVE  /\ UNCHANGED <<page, locked, cooling, calls, made, orphaned, bookVars, visit>>
         /\ UNCHANGED losses \/ (losses < MaxLost /\ losses' = losses + 1)
  <1>1. CASE Report(kind, id)
    <2>1. PICK p \in polls[kind] : LiveEndpoint(kind, p)
      BY <1>1 DEF Report
    <2> QED  BY <1>1, <2>1 DEF Report, LiveEndpoint, Reports, callVars
  <1>2. CASE Apply(kind, id)
    BY <1>2
    DEF Apply, AddressValidated, LoadEmailOptions, ApplyDashboardLive,
        ApplyTerminalLivePayload, GetBars, LatestBarArrives, ApplyHistory, Breaks, callVars
  <1> QED  BY <1>1, <1>2 DEF PollMoves

LEMMA RouteQuiet ==
  ASSUME NEW c, PortfolioRoute(c)
  PROVE  UNCHANGED <<page, locked, cooling, made, losses, orphaned, polls, price, blocked>>
  BY DEF PortfolioRoute, WithdrawRequestCode, WithdrawRequestCommits, WithdrawResendCode,
         WithdrawConfirmReads, WithdrawConfirmVerifies, WithdrawConfirmCommits, WithdrawCancel, CreateBuyOrder,
         CreateRedeemOrder, Serves, InConfirm

LEMMA AnswerQuiet ==
  ASSUME NEW c, WithdrawAnswer(c) \/ TerminalAnswer(c)
  PROVE  UNCHANGED portfolioVars /\ UNCHANGED <<page, made>> /\ (Hears(c) \/ Loses(c))
  BY DEF WithdrawAnswer, GetCodeAnswered, ResendAnswered, Confirmed, Cancelled,
         TerminalAnswer, Bought, Redeemed, Fails, HearsError, NetworkFails, HearsOk,
         Hears, Loses

LEMMA ClicksQuiet ==
  ASSUME WithdrawUser \/ TypeAddress \/ BuyClick \/ RedeemClick
  PROVE  UNCHANGED <<page, losses, orphaned, bookVars>>
  BY DEF WithdrawUser, OpenWithdrawForm, CloseModal, WithdrawConfirmBtn, OpenDialog,
         GetCodeClick, ResendClick, ConfirmClick, EmailChange, HandleConfirmModalClose,
         TypeAddress, BuyClick, RedeemClick, OrderClick, Press, callVars, portfolioVars

(***************************************************************************)
(* The tab                                                                 *)
(***************************************************************************)

\* A click or an answer.
LEMMA ClicksKeepTab ==
  ASSUME TabTyped, WithdrawUser \/ TypeAddress \/ BuyClick \/ RedeemClick
  PROVE  TabTyped'
  <1> USE PageBounds DEF TabTyped, Buttons
  <1>1. ASSUME NEW btn \in Buttons, NEW req, Press(btn, req)
        PROVE  TabTyped'
    <2>1. made' \in 0..MaxCalls
      BY <1>1 DEF Press, Fetch
    <2>2. locked' \subseteq Buttons
      BY <1>1 DEF Press, LockActionButton
    <2> QED  BY <1>1, <2>1, <2>2 DEF Press
  <1>2. CASE GetCodeClick \/ ResendClick \/ ConfirmClick \/ BuyClick \/ RedeemClick
    BY <1>1, <1>2 DEF GetCodeClick, ResendClick, ConfirmClick, BuyClick, RedeemClick, OrderClick
  <1>3. CASE OpenWithdrawForm \/ CloseModal \/ TypeAddress
    BY <1>3 DEF OpenWithdrawForm, CloseModal, TypeAddress, callVars
  <1>4. CASE WithdrawConfirmBtn \/ EmailChange
    BY <1>4 DEF WithdrawConfirmBtn, OpenDialog, EmailChange, ClearResendCooldown
  <1>5. CASE HandleConfirmModalClose
    BY <1>5 DEF HandleConfirmModalClose, ClosesDialog, ClearResendCooldown, Fetch
  <1> QED  BY <1>2, <1>3, <1>4, <1>5 DEF WithdrawUser

LEMMA AnswersKeepTab ==
  ASSUME TabTyped, NEW c, WithdrawAnswer(c) \/ TerminalAnswer(c)
  PROVE  TabTyped'
  <1>1. UNCHANGED <<page, made>>
    BY AnswerQuiet
  <1>2. losses' \in 0..MaxLost /\ orphaned' \in BOOLEAN
    <2>1. UNCHANGED <<losses, orphaned>> \/ (losses < MaxLost /\ losses' = losses + 1)
      BY AnswerQuiet DEF Hears, Loses
    <2>2. UNCHANGED orphaned \/ orphaned' = TRUE
      BY AnswerQuiet DEF Hears, Loses
    <2>3. losses' \in 0..MaxLost
      BY <2>1, PageBounds DEF TabTyped
    <2> QED  BY <2>2, <2>3 DEF TabTyped
  <1>3. locked' \subseteq locked /\ cooling' \subseteq cooling \cup {"getCode", "resend"}
    BY DEF WithdrawAnswer, GetCodeAnswered, ResendAnswered, Confirmed, Cancelled,
           TerminalAnswer, Bought, Redeemed, Fails, HearsError, NetworkFails, HearsOk,
           UnlockActionButton, StartBtnCooldown, StartResendCooldown, ClosesDialog,
           ClearResendCooldown
  <1> QED  BY <1>1, <1>2, <1>3 DEF TabTyped

LEMMA LoadedPage ==
  ASSUME Navigate
  PROVE  \E to \in {"dashboard", "terminal", "history"} : Leave(to, calls) /\ Loads(to)
  BY DEF Navigate, Loads

LEMMA TabStep ==
  ASSUME TabTyped, [Next]_vars
  PROVE  TabTyped'
  <1>1. CASE UNCHANGED vars
    BY <1>1 DEF vars, callVars, TabTyped
  <1>2. CASE WithdrawUser \/ TypeAddress \/ BuyClick \/ RedeemClick
    BY <1>2, ClicksKeepTab
  <1>3. CASE Navigate
    BY <1>3, LoadedPage DEF Leave, TabTyped, Pages
  <1>4. CASE Scripts \/ PollsSummary
    BY <1>4, ScriptsQuiet DEF callVars, TabTyped
  <1>5. CASE Elsewhere
    BY <1>5, ElsewhereTouches DEF TabTyped
  <1>6. ASSUME NEW id \in Ids, CallMoves(id)
        PROVE  TabTyped'
    BY <1>6, RouteQuiet, AnswersKeepTab DEF CallMoves, TabTyped
  <1>7. ASSUME NEW kind \in Kinds, NEW id \in Ids, PollMoves(kind, id)
        PROVE  TabTyped'
    <2>1. losses' \in 0..MaxLost
      BY <1>7, PollMovesQuiet, PageBounds DEF TabTyped
    <2> QED  BY <1>7, <2>1, PollMovesQuiet DEF TabTyped
  <1> QED  BY <1>1, <1>2, <1>3, <1>4, <1>5, <1>6, <1>7 DEF Next, User

(***************************************************************************)
(* Calls and sessions                                                      *)
(***************************************************************************)
LEMMA NoPlaces ==
  /\ Request("x").token = 0
  /\ \A n : Error.token = 0 /\ Error.slot = 0 /\ Plain.token = 0 /\ Plain.slot = 0
  /\ \A token, gross, slot : /\ Answer(token, gross, slot).token = token
                             /\ Answer(token, gross, slot).slot = slot
  BY DEF Request, Error, Plain, Answer

\* A call keeps its type while sessions are added to, and when it is disowned.
LEMMA CallTypeStays ==
  ASSUME NEW c, CallTyped(c), Len(sessions) \in Nat, Len(sessions') \in Nat,
         Len(sessions) <= Len(sessions')
  PROVE  /\ CallTyped(c)'
         /\ CallTyped([c EXCEPT !.owned = FALSE])'
         /\ [c EXCEPT !.owned = FALSE].id = c.id
  <1> DEFINE d == [c EXCEPT !.owned = FALSE]
  <1>1. Tokens \subseteq Tokens'
    BY DEF Tokens
  <1>2. CallTyped(c)'
    <2>1. RequestTyped(c.req)'
      BY <1>1 DEF CallTyped, RequestTyped
    <2> QED  BY <1>1, <2>1 DEF CallTyped, IsRead, IsDone
  <1>3. /\ DOMAIN d = DOMAIN c
        /\ d.id = c.id /\ d.btn = c.btn /\ d.req = c.req /\ d.stage = c.stage
        /\ "ans" \in DOMAIN c => d.ans = c.ans
        /\ "seen" \in DOMAIN c => d.seen = c.seen
    BY DEF CallTyped
  <1> HIDE DEF d
  <1>4. CallTyped(d)' /\ d.id = c.id
    BY <1>2, <1>3 DEF CallTyped, IsRead, IsDone
  <1> QED  BY <1>2, <1>4 DEF d

\* A call goes on, with the same number.
LEMMA OnwardTyped ==
  ASSUME CallsTyped, Len(sessions) \in Nat, Len(sessions') \in Nat,
         Len(sessions) <= Len(sessions'),
         NEW c \in calls, NEW d, d.id = c.id, CallTyped(d)',
         calls' \subseteq (calls \ {c}) \cup {d}
  PROVE  CallsTyped'
  <1>1. \A e \in calls' : CallTyped(e)'
    BY CallTypeStays DEF CallsTyped
  <1>2. \A e, f \in calls' : e.id = f.id => e = f
    BY DEF CallsTyped
  <1> QED  BY <1>1, <1>2 DEF CallsTyped

LEMMA SessionsCounted ==
  ASSUME AccountTyped
  PROVE  Len(sessions) \in Nat /\ DOMAIN sessions = 1..Len(sessions)
         /\ \A t \in DOMAIN sessions : sessions[t] \in SessionRow
  BY LenProperties, ElementOfSeq DEF AccountTyped

\* A request leaves the page.
LEMMA FetchTyped ==
  ASSUME CallsTyped, AccountTyped, UNCHANGED sessions,
         NEW btn \in Buttons, NEW req, RequestTyped(req), Fetch(btn, req)
  PROVE  CallsTyped'
  <1>1. PICK id \in Ids \ {c.id : c \in calls} : calls' = calls \cup {Sent(id, btn, req)}
    BY DEF Fetch
  <1>2. PICK d : d = Sent(id, btn, req)
    OBVIOUS
  <1>3. d.id = id /\ CallTyped(d)
    BY <1>1, <1>2 DEF CallTyped, Sent, IsRead, IsDone
  <1>4. \A e \in calls' : CallTyped(e)
    BY <1>1, <1>2, <1>3 DEF CallsTyped
  <1>5. \A e, f \in calls' : e.id = f.id => e = f
    BY <1>1, <1>2, <1>3 DEF CallsTyped
  <1>6. \A e \in calls' : CallTyped(e)'
    <2>1. Len(sessions') \in Nat /\ Len(sessions) \in Nat /\ Len(sessions) <= Len(sessions')
      BY SessionsCounted
    <2> QED  BY <1>4, <2>1, CallTypeStays
  <1> QED  BY <1>5, <1>6 DEF CallsTyped

\* Calls are heard of, lost or left behind.
LEMMA GoneTyped ==
  ASSUME CallsTyped, AccountTyped, UNCHANGED sessions
  PROVE  /\ \A c \in calls : Hears(c) \/ Loses(c) => CallsTyped'
         /\ \A to : Leave(to, calls) => CallsTyped'
         /\ UNCHANGED calls => CallsTyped'
  <1>1. \A c \in calls : /\ CallTyped(c)' /\ CallTyped([c EXCEPT !.owned = FALSE])'
                         /\ [c EXCEPT !.owned = FALSE].id = c.id
    <2>1. Len(sessions') \in Nat /\ Len(sessions) \in Nat /\ Len(sessions) <= Len(sessions')
      BY SessionsCounted
    <2> QED  BY <2>1, CallTypeStays DEF CallsTyped
  <1>2. ASSUME calls' \subseteq calls PROVE CallsTyped'
    BY <1>1, <1>2 DEF CallsTyped
  <1>3. ASSUME NEW c \in calls, Hears(c) \/ Loses(c) PROVE CallsTyped'
    <2>1. CASE calls' = (calls \ {c}) \cup {[c EXCEPT !.owned = FALSE]}
      <3>1. Len(sessions') \in Nat /\ Len(sessions) \in Nat /\ Len(sessions) <= Len(sessions')
        BY SessionsCounted
      <3>2. PICK d : d = [c EXCEPT !.owned = FALSE]
        OBVIOUS
      <3>3. d.id = c.id /\ CallTyped(d)' /\ calls' \subseteq (calls \ {c}) \cup {d}
        BY <1>1, <2>1, <3>2
      <3> QED  BY <3>1, <3>3, OnwardTyped
    <2> QED  BY <1>2, <1>3, <2>1 DEF Hears, Loses
  <1>4. ASSUME NEW to, Leave(to, calls) PROVE CallsTyped'
    <2>1. \A d \in calls' : \E c \in calls : d = [c EXCEPT !.owned = FALSE]
      BY <1>4 DEF Leave
    <2>2. \A d \in calls' : CallTyped(d)'
      BY <1>1, <2>1
    <2>3. ASSUME NEW d \in calls', NEW e \in calls', d.id = e.id
          PROVE  d = e
      <3>1. PICK b, c : /\ b \in calls /\ d = [b EXCEPT !.owned = FALSE]
                        /\ c \in calls /\ e = [c EXCEPT !.owned = FALSE]
        BY <2>1
      <3>2. b.id = c.id
        BY <1>1, <2>3, <3>1
      <3> QED  BY <3>1, <3>2 DEF CallsTyped
    <2> QED  BY <2>2, <2>3 DEF CallsTyped
  <1> QED  BY <1>2, <1>3, <1>4

\* What the clicks ask for.
LEMMA ClicksKeepCalls ==
  ASSUME CallsTyped, AccountTyped, DialogTyped,
         WithdrawUser \/ TypeAddress \/ BuyClick \/ RedeemClick
  PROVE  CallsTyped'
  <1>1. UNCHANGED sessions
    BY ClicksQuiet DEF bookVars
  <1>2. {"getCode", "resend", "confirm", "cancel", "buy", "redeem"} \subseteq Buttons
    BY DEF Buttons
  <1>3. 0 \in Tokens /\ None \in Places
    BY SessionsCounted DEF Tokens, Places
  <1>4. CASE GetCodeClick
    <2>1. PICK slot, req :
            /\ slot \in Slots
            /\ req = [Request("withdraw_request") EXCEPT
                        !.addr = w.addr, !.gross = w.gross, !.slot = slot]
            /\ Fetch("getCode", req)
      <3>1. (IF w.slot = 0 THEN 1 ELSE w.slot) \in Slots
        BY DEF DialogTyped, Slots
      <3> QED  BY <1>4, <3>1 DEF GetCodeClick, Press
    <2>2. RequestTyped(req)
      BY <1>3, <2>1 DEF RequestTyped, Request, DialogTyped
    <2> QED  BY <1>1, <1>2, <2>1, <2>2, FetchTyped
  <1>5. CASE ResendClick
    <2>1. PICK req : /\ req = [Request("withdraw_resend") EXCEPT !.token = w.token]
                     /\ Fetch("resend", req)
      BY <1>5 DEF ResendClick, Press
    <2>2. RequestTyped(req)
      BY <1>3, <2>1 DEF RequestTyped, Request, DialogTyped
    <2> QED  BY <1>1, <1>2, <2>1, <2>2, FetchTyped
  <1>6. CASE ConfirmClick
    <2>1. PICK code, req : /\ req = ConfirmRequest(code) /\ w.token # 0
                           /\ Fetch("confirm", req)
      BY <1>6 DEF ConfirmClick, Press
    <2>2. RequestTyped(req)
      BY <1>3, <2>1 DEF RequestTyped, ConfirmRequest, Request, DialogTyped
    <2> QED  BY <1>1, <1>2, <2>1, <2>2, FetchTyped
  <1>7. CASE HandleConfirmModalClose
    <2>1. CASE UNCHANGED calls
      BY <1>1, <2>1, GoneTyped
    <2>2. CASE ~UNCHANGED calls
      <3>1. PICK req : /\ req = [Request("withdraw_cancel") EXCEPT !.token = w.token]
                       /\ w.token # 0 /\ Fetch("cancel", req)
        BY <1>7, <2>2 DEF HandleConfirmModalClose
      <3>2. RequestTyped(req)
        BY <1>3, <3>1 DEF RequestTyped, Request, DialogTyped
      <3> QED  BY <1>1, <1>2, <3>1, <3>2, FetchTyped
    <2> QED  BY <2>1, <2>2
  <1>8. ASSUME NEW side \in {"buy", "redeem"}, OrderClick(side)
        PROVE  CallsTyped'
    <2>1. PICK typed \in OrderAmounts : Press(side, Order(side, LimitOrderAmount(typed)))
      BY <1>8 DEF OrderClick
    <2>2. PICK gross : gross = LimitOrderAmount(typed)
      OBVIOUS
    <2>3. gross \in Nat
      BY <2>2, OrderConstants DEF LimitOrderAmount
    <2>4. PICK req : req = Order(side, gross) /\ Fetch(side, req)
      BY <2>1, <2>2 DEF Press
    <2>5. RequestTyped(req)
      BY <1>3, <2>3, <2>4 DEF RequestTyped, Order, Request
    <2> QED  BY <1>1, <1>2, <2>4, <2>5, FetchTyped
  <1>9. CASE OpenWithdrawForm \/ CloseModal \/ TypeAddress \/ WithdrawConfirmBtn \/ EmailChange
    <2>1. UNCHANGED calls
      BY <1>9 DEF OpenWithdrawForm, CloseModal, TypeAddress, WithdrawConfirmBtn, OpenDialog,
                  EmailChange, callVars
    <2> QED  BY <1>1, <2>1, GoneTyped
  <1> QED
    BY <1>4, <1>5, <1>6, <1>7, <1>8, <1>9 DEF WithdrawUser, BuyClick, RedeemClick

\* A row of withdraw_sessions is used or ends.
LEMMA RowTyped ==
  ASSUME AccountTyped, NEW t \in 1..Len(sessions), NEW row \in SessionRow,
         sessions' = [sessions EXCEPT ![t] = row]
  PROVE  sessions' \in Seq(SessionRow) /\ Len(sessions') = Len(sessions)
  BY ExceptSeq DEF AccountTyped

LEMMA BegunTyped ==
  ASSUME CallsTyped, AccountTyped, NEW c \in calls, WithdrawRequestCommits(c)
  PROVE  /\ sessions' \in Seq(SessionRow) /\ Len(sessions') = Len(sessions) + 1
         /\ Replies(c, Answer(Len(sessions) + 1, c.req.gross, c.req.slot))
  <1>1. PICK row : /\ row = [addr |-> c.req.addr, gross |-> c.req.gross,
                             slot |-> c.req.slot, live |-> TRUE, used |-> FALSE,
                             transfers |-> 0]
                   /\ sessions' = Append(sessions, row)
                   /\ Replies(c, Answer(Len(sessions) + 1, c.req.gross, c.req.slot))
    BY DEF WithdrawRequestCommits
  <1>2. row \in SessionRow
    BY <1>1 DEF SessionRow, CallsTyped, CallTyped, RequestTyped
  <1> QED  BY <1>1, <1>2 DEF AccountTyped

LEMMA RoutesKeepSessions ==
  ASSUME CallsTyped, AccountTyped, NEW c \in calls, PortfolioRoute(c)
  PROVE  /\ sessions' \in Seq(SessionRow)
         /\ Len(sessions') \in Nat /\ Len(sessions) <= Len(sessions')
  <1>1. /\ sessions \in Seq(SessionRow) /\ Len(sessions) \in Nat
        /\ DOMAIN sessions = 1..Len(sessions)
        /\ \A t \in DOMAIN sessions : sessions[t] \in SessionRow
    BY SessionsCounted DEF AccountTyped
  <1>2. RequestTyped(c.req)
    BY DEF CallsTyped, CallTyped
  <1>3. CASE UNCHANGED sessions
    BY <1>1, <1>3
  <1>5. CASE WithdrawRequestCommits(c)
    BY <1>1, <1>5, BegunTyped
  <1>6. CASE WithdrawConfirmCommits(c) /\ ~UNCHANGED sessions
    <2>1. c.req.token \in 1..Len(sessions)
      BY <1>1, <1>2, <1>6 DEF WithdrawConfirmCommits, InConfirm, RequestTyped, Tokens
    <2>2. sessions' = [sessions EXCEPT ![c.req.token].used = TRUE,
                                       ![c.req.token].transfers = @ + 1]
      BY <1>6 DEF WithdrawConfirmCommits
    <2>3. PICK row : row = [sessions[c.req.token] EXCEPT !.used = TRUE, !.transfers = @ + 1]
      OBVIOUS
    <2>4. sessions' = [sessions EXCEPT ![c.req.token] = row]
      BY <2>2, <2>3
    <2>5. row \in SessionRow
      <3>1. sessions[c.req.token] \in SessionRow
        BY <1>1, <2>1
      <3>2. sessions[c.req.token].transfers + 1 \in Nat
        BY <3>1 DEF SessionRow
      <3> QED  BY <2>3, <3>1, <3>2 DEF SessionRow
    <2>6. sessions' \in Seq(SessionRow) /\ Len(sessions') = Len(sessions)
      BY <2>1, <2>4, <2>5, RowTyped
    <2> QED  BY <1>1, <2>6
  <1>7. CASE WithdrawCancel(c) /\ ~UNCHANGED sessions
    <2>1. c.req.token \in 1..Len(sessions)
      BY <1>1, <1>2, <1>7 DEF WithdrawCancel, Serves, RequestTyped, Tokens
    <2>2. sessions' = [sessions EXCEPT ![c.req.token].live = FALSE]
      BY <1>7 DEF WithdrawCancel
    <2>3. PICK row : row = [sessions[c.req.token] EXCEPT !.live = FALSE]
      OBVIOUS
    <2>4. sessions' = [sessions EXCEPT ![c.req.token] = row]
      BY <2>2, <2>3
    <2>5. row \in SessionRow
      <3>1. sessions[c.req.token] \in SessionRow
        BY <1>1, <2>1
      <3> QED  BY <2>3, <3>1 DEF SessionRow
    <2>6. sessions' \in Seq(SessionRow) /\ Len(sessions') = Len(sessions)
      BY <2>1, <2>4, <2>5, RowTyped
    <2> QED  BY <1>1, <2>6
  <1>8. CASE \/ WithdrawRequestCode(c) \/ WithdrawResendCode(c) \/ WithdrawConfirmReads(c)
             \/ WithdrawConfirmVerifies(c) \/ CreateBuyOrder(c) \/ CreateRedeemOrder(c)
    BY <1>3, <1>8 DEF WithdrawRequestCode, WithdrawResendCode, WithdrawConfirmReads,
                      WithdrawConfirmVerifies, CreateBuyOrder, CreateRedeemOrder, Refuses
  <1> QED  BY <1>3, <1>5, <1>6, <1>7, <1>8 DEF PortfolioRoute

LEMMA RoutesKeepCalls ==
  ASSUME CallsTyped, AccountTyped, NEW c \in calls, PortfolioRoute(c)
  PROVE  CallsTyped'
  <1>1. /\ Len(sessions) \in Nat /\ Len(sessions') \in Nat /\ Len(sessions) <= Len(sessions')
    BY SessionsCounted, RoutesKeepSessions
  <1>2. CallTyped(c) /\ CallTyped(c)'
    BY <1>1, CallTypeStays DEF CallsTyped
  <1>3. ASSUME NEW ans, Replies(c, ans), ans.token \in Tokens', ans.slot \in {0} \cup Slots
        PROVE  CallsTyped'
    <2>1. PICK d : d = Done(c, ans)
      OBVIOUS
    <2>2. d.id = c.id /\ CallTyped(d)'
      BY <1>2, <1>3, <2>1 DEF CallTyped, Done, IsDone, IsRead
    <2>3. calls' \subseteq (calls \ {c}) \cup {d}
      BY <1>3, <2>1 DEF Replies
    <2> QED  BY <1>1, <2>2, <2>3, OnwardTyped
  <1>4. ASSUME Replies(c, Error) \/ Replies(c, Plain)
        PROVE  CallsTyped'
    <2>1. 0 \in Tokens'
      BY <1>1 DEF Tokens
    <2> QED  BY <1>3, <1>4, <2>1, NoPlaces
  <1>5. CASE WithdrawRequestCommits(c)
    <2>1. /\ Replies(c, Answer(Len(sessions) + 1, c.req.gross, c.req.slot))
          /\ Len(sessions') = Len(sessions) + 1
      BY <1>5, BegunTyped
    <2>2. Len(sessions) + 1 \in Tokens'
      BY <1>1, <2>1 DEF Tokens
    <2>3. c.req.slot \in {0} \cup Slots
      BY <1>2 DEF CallTyped, RequestTyped
    <2>4. PICK ans : ans = Answer(Len(sessions) + 1, c.req.gross, c.req.slot)
      OBVIOUS
    <2>5. ans.token = Len(sessions) + 1 /\ ans.slot = c.req.slot
      BY <2>4 DEF Answer
    <2> QED  BY <1>3, <2>1, <2>2, <2>3, <2>4, <2>5
  <1>6. CASE WithdrawResendCode(c) \/ WithdrawConfirmCommits(c) \/ WithdrawCancel(c)
             \/ CreateBuyOrder(c) \/ CreateRedeemOrder(c)
    BY <1>4, <1>6 DEF WithdrawResendCode, WithdrawConfirmCommits, WithdrawCancel,
                      CreateBuyOrder, CreateRedeemOrder, Refuses
  <1>7. CASE (WithdrawRequestCode(c) /\ ~Replies(c, Error)) \/ WithdrawConfirmReads(c)
    <2>1. PICK seen : /\ {"step", "reserved"} \subseteq DOMAIN seen /\ seen.reserved = 0
                      /\ calls' = (calls \ {c}) \cup {Read(c, seen)}
      <3>1. PICK step, usable, code : calls' = (calls \ {c}) \cup {Read(c, Seen(step, usable, code))}
        BY <1>7 DEF WithdrawRequestCode, Refuses, WithdrawConfirmReads
      <3>2. PICK seen : seen = Seen(step, usable, code)
        OBVIOUS
      <3>3. {"step", "reserved"} \subseteq DOMAIN seen /\ seen.reserved = 0
        BY <3>2 DEF Seen
      <3> QED  BY <3>1, <3>2, <3>3
    <2>2. PICK d : d = Read(c, seen)
      OBVIOUS
    <2>3. d.id = c.id /\ CallTyped(d)'
      BY <1>2, <2>1, <2>2 DEF CallTyped, Read, IsDone, IsRead
    <2> QED  BY <1>1, <2>1, <2>2, <2>3, OnwardTyped
  <1>8. CASE WithdrawConfirmVerifies(c)
    <2>1. CASE Replies(c, Error)
      BY <1>4, <2>1
    <2>2. CASE calls' = (calls \ {c}) \cup
                 {[c EXCEPT !.seen.step = "wallet", !.seen.reserved = wallet.reserved]}
      <3>1. c.stage = "read"
        BY <1>8 DEF WithdrawConfirmVerifies, InConfirm, IsRead
      <3>2. PICK seen, d : /\ seen = [c.seen EXCEPT !.step = "wallet", !.reserved = wallet.reserved]
                           /\ d = [c EXCEPT !.seen = seen]
        OBVIOUS
      <3>3. calls' = (calls \ {c}) \cup {d}
        BY <2>2, <3>2
      <3>4. /\ {"step", "reserved"} \subseteq DOMAIN seen /\ seen.reserved = wallet.reserved
        BY <1>2, <3>1, <3>2 DEF CallTyped, IsRead
      <3>5. /\ DOMAIN d = DOMAIN c /\ d.seen = seen /\ d.id = c.id /\ d.btn = c.btn
            /\ d.req = c.req /\ d.stage = c.stage
        BY <1>2, <3>1, <3>2 DEF CallTyped, IsRead
      <3>6. CallTyped(d)'
        BY <1>2, <3>1, <3>4, <3>5 DEF CallTyped, IsRead, IsDone, AccountTyped
      <3> QED  BY <1>1, <3>3, <3>5, <3>6, OnwardTyped
    <2> QED  BY <1>8, <2>1, <2>2 DEF WithdrawConfirmVerifies
  <1> QED  BY <1>4, <1>5, <1>6, <1>7, <1>8 DEF PortfolioRoute

LEMMA CallsStep ==
  ASSUME CallsTyped, AccountTyped, DialogTyped, [Next]_vars
  PROVE  CallsTyped'
  <1>1. CASE UNCHANGED vars
    BY <1>1, GoneTyped DEF vars, callVars, portfolioVars, bookVars
  <1>2. CASE WithdrawUser \/ TypeAddress \/ BuyClick \/ RedeemClick
    BY <1>2, ClicksKeepCalls
  <1>3. CASE Navigate
    BY <1>3, LoadedPage, GoneTyped DEF Navigate, bookVars
  <1>4. CASE Scripts \/ PollsSummary
    BY <1>4, ScriptsQuiet, GoneTyped DEF callVars, bookVars
  <1>5. CASE Elsewhere
    BY <1>5, ElsewhereTouches, GoneTyped
  <1>6. ASSUME NEW id \in Ids, CallMoves(id)
        PROVE  CallsTyped'
    BY <1>6, RoutesKeepCalls, AnswerQuiet, GoneTyped DEF CallMoves, portfolioVars, bookVars
  <1>7. ASSUME NEW kind \in Kinds, NEW id \in Ids, PollMoves(kind, id)
        PROVE  CallsTyped'
    BY <1>7, PollMovesQuiet, GoneTyped DEF bookVars
  <1> QED  BY <1>1, <1>2, <1>3, <1>4, <1>5, <1>6, <1>7 DEF Next, User

(***************************************************************************)
(* The account                                                             *)
(***************************************************************************)
LEMMA RoutesKeepAccount ==
  ASSUME CallsTyped, AccountTyped, NEW c \in calls, PortfolioRoute(c)
  PROVE  AccountTyped'
  <1>1. sessions' \in Seq(SessionRow)
    BY RoutesKeepSessions
  <1>2. UNCHANGED price
    BY RouteQuiet
  <1>3. /\ wallet = [balance |-> Balance, reserved |-> wallet.reserved]
        /\ wallet.reserved \in Nat /\ position.reserved \in 0..Shares
        /\ position = [shares |-> Shares, reserved |-> position.reserved]
    BY DEF AccountTyped
  <1>4. c.req.gross \in Nat
    BY DEF CallsTyped, CallTyped, RequestTyped
  <1>5. CASE UNCHANGED <<wallet, position>>
    BY <1>1, <1>2, <1>5 DEF AccountTyped
  <1>6. CASE WithdrawConfirmCommits(c) /\ ~UNCHANGED <<wallet, position>>
    <2>1. PICK r : /\ r = c.seen.reserved + sessions[c.req.token].gross
                   /\ wallet' = [wallet EXCEPT !.reserved = r] /\ UNCHANGED position
      BY <1>6 DEF WithdrawConfirmCommits, InConfirm
    <2>2. c.seen.reserved \in Nat
      BY <1>6 DEF CallsTyped, CallTyped, WithdrawConfirmCommits, InConfirm
    <2>3. sessions[c.req.token].gross \in Nat
      <3>1. c.req.token \in 1..Len(sessions)
        BY <1>6, SessionsCounted
        DEF CallsTyped, CallTyped, RequestTyped, Tokens, WithdrawConfirmCommits, InConfirm
      <3>2. sessions[c.req.token] \in SessionRow
        BY <3>1, SessionsCounted
      <3> QED  BY <3>2 DEF SessionRow
    <2>4. r \in Nat
      BY <2>1, <2>2, <2>3
    <2>5. wallet' = [balance |-> Balance, reserved |-> r]
      BY <1>3, <2>1
    <2> QED  BY <1>1, <1>2, <1>3, <2>1, <2>4, <2>5 DEF AccountTyped
  <1>7. CASE CreateBuyOrder(c) /\ ~UNCHANGED <<wallet, position>>
    <2>1. PICK r : /\ r = wallet.reserved + c.req.gross
                   /\ wallet' = [wallet EXCEPT !.reserved = r] /\ UNCHANGED position
      BY <1>7 DEF CreateBuyOrder, Refuses
    <2>2. r \in Nat /\ wallet' = [balance |-> Balance, reserved |-> r]
      BY <1>3, <1>4, <2>1
    <2> QED  BY <1>1, <1>2, <1>3, <2>1, <2>2 DEF AccountTyped
  <1>8. CASE CreateRedeemOrder(c) /\ ~UNCHANGED <<wallet, position>>
    <2>1. PICK r : /\ r = position.reserved + c.req.gross /\ ~(c.req.gross > AvailableShares)
                   /\ position' = [position EXCEPT !.reserved = r] /\ UNCHANGED wallet
      BY <1>8 DEF CreateRedeemOrder, Refuses
    <2>2. AvailableShares = Shares - position.reserved
      BY <1>3 DEF AvailableShares
    <2>3. r \in 0..Shares /\ position' = [shares |-> Shares, reserved |-> r]
      BY <1>3, <1>4, <2>1, <2>2, PortfolioConstants
    <2> QED  BY <1>1, <1>2, <1>3, <2>1, <2>3 DEF AccountTyped
  <1>9. CASE \/ WithdrawRequestCode(c) \/ WithdrawRequestCommits(c)
             \/ WithdrawResendCode(c) \/ WithdrawConfirmReads(c)
             \/ WithdrawConfirmVerifies(c) \/ WithdrawCancel(c)
    BY <1>5, <1>9 DEF WithdrawRequestCode, WithdrawRequestCommits, WithdrawResendCode, WithdrawConfirmReads,
                      WithdrawConfirmVerifies, WithdrawCancel, InConfirm, Refuses
  <1> QED  BY <1>5, <1>6, <1>7, <1>8, <1>9 DEF PortfolioRoute

LEMMA AccountStep ==
  ASSUME CallsTyped, AccountTyped, [Next]_vars
  PROVE  AccountTyped'
  <1>1. CASE UNCHANGED <<wallet, position, sessions, price>>
    BY <1>1 DEF AccountTyped
  <1>2. CASE UNCHANGED vars
    BY <1>1, <1>2 DEF vars, portfolioVars, bookVars
  <1>3. CASE User
    BY <1>1, <1>3, ClicksQuiet DEF User, Navigate, bookVars
  <1>4. CASE Scripts \/ PollsSummary
    BY <1>1, <1>4, ScriptsQuiet DEF bookVars
  <1>5. CASE Elsewhere
    <2>1. UNCHANGED <<wallet, position, sessions>>
      BY <1>5, ElsewhereTouches
    <2>2. UNCHANGED price \/ (price < MaxPrice /\ price' = price + 1)
      BY <1>5 DEF Elsewhere, PriceTicks, ComplianceChanges, CooldownEnds, CooldownPasses,
                  portfolioVars, bookVars
    <2>3. price' \in 1..MaxPrice
      BY <2>2, PortfolioConstants DEF AccountTyped
    <2> QED  BY <2>1, <2>3 DEF AccountTyped
  <1>6. ASSUME NEW id \in Ids, CallMoves(id)
        PROVE  AccountTyped'
    BY <1>1, <1>6, RoutesKeepAccount, AnswerQuiet DEF CallMoves, portfolioVars, bookVars
  <1>7. ASSUME NEW kind \in Kinds, NEW id \in Ids, PollMoves(kind, id)
        PROVE  AccountTyped'
    BY <1>1, <1>7, PollMovesQuiet DEF bookVars
  <1> QED  BY <1>2, <1>3, <1>4, <1>5, <1>6, <1>7 DEF Next

(***************************************************************************)
(* The dashboard                                                           *)
(***************************************************************************)

\* The open form and its timer belong to a page.
FormGoesOn ==
  /\ form' = [open |-> form'.open, addr |-> form'.addr, status |-> form'.status,
              due |-> form'.due, avail |-> form'.avail, blocked |-> form'.blocked]
  /\ form'.open \subseteq {"form", "confirm", "processing"}
  /\ form'.status \in {"empty", "valid", "checksum", "invalid"}
  /\ form'.addr \in Places
  /\ "form" \in form'.open \/ form'.due => "form" \in form.open \/ form.due \/ page = "dashboard"

LEMMA FormStays ==
  ASSUME FormTyped, UNCHANGED page, FormGoesOn
  PROVE  FormTyped'
  BY DEF FormTyped, FormGoesOn

LEMMA ClosedTyped ==
  ASSUME FormTyped, ClosesDialog
  PROVE  FormGoesOn
  BY DEF FormTyped, ClosesDialog, FormGoesOn

LEMMA FormStep ==
  ASSUME FormTyped, PollsTyped, [Next]_vars
  PROVE  FormTyped'
  <1>1. CASE UNCHANGED <<form, page>>
    BY <1>1 DEF FormTyped
  <1>2. CASE UNCHANGED vars
    BY <1>1, <1>2 DEF vars, callVars, withdrawVars
  <1>3. CASE WithdrawUser \/ TypeAddress
    <2>1. UNCHANGED page
      BY <1>3, ClicksQuiet
    <2> USE DEF FormTyped, FormGoesOn, Places
    <2>2. CASE OpenWithdrawForm
      BY <2>1, <2>2, FormStays DEF OpenWithdrawForm
    <2>3. CASE CloseModal
      BY <2>1, <2>3, FormStays DEF CloseModal
    <2>4. CASE TypeAddress
      BY <2>1, <2>4, FormStays DEF TypeAddress
    <2>5. CASE WithdrawConfirmBtn
      BY <2>1, <2>5, FormStays DEF WithdrawConfirmBtn, OpenDialog
    <2>6. CASE HandleConfirmModalClose
      BY <1>1, <2>1, <2>6, FormStays, ClosedTyped DEF HandleConfirmModalClose
    <2>7. CASE GetCodeClick \/ ResendClick \/ ConfirmClick \/ EmailChange
      BY <1>1, <2>1, <2>7
      DEF GetCodeClick, ResendClick, ConfirmClick, EmailChange, withdrawVars
    <2> QED  BY <1>3, <2>2, <2>3, <2>4, <2>5, <2>6, <2>7 DEF WithdrawUser
  <1>4. CASE (BuyClick \/ RedeemClick) /\ UNCHANGED withdrawVars
    BY <1>1, <1>4, ClicksQuiet DEF withdrawVars
  <1>5. CASE Navigate
    <2>1. PICK avail, warned : form' = FormStart(avail, warned)
      BY <1>5 DEF Navigate, Loads, DashboardLoads, NoDashboard
    <2> QED  BY <2>1 DEF FormStart, FormTyped, Places
  <1>6. CASE Scripts \/ PollsSummary
    <2>1. UNCHANGED page
      BY <1>6, ScriptsQuiet DEF callVars
    <2>2. CASE UNCHANGED form
      BY <1>1, <2>1, <2>2
    <2>3. CASE ValidateAddressDebounced
      BY <2>1, <2>3, FormStays DEF ValidateAddressDebounced, FormTyped, FormGoesOn
    <2> QED
      BY <1>6, <2>2, <2>3
      DEF Scripts, PollsSummary, PollDashboardLive, withdrawVars
  <1>7. CASE Elsewhere
    BY <1>1, <1>7, ElsewhereTouches
  <1>8. ASSUME NEW id \in Ids, CallMoves(id)
        PROVE  FormTyped'
    <2>1. PICK c \in calls : \/ (PortfolioRoute(c) /\ UNCHANGED withdrawVars)
                            \/ WithdrawAnswer(c)
                            \/ (TerminalAnswer(c) /\ UNCHANGED withdrawVars)
      BY <1>8 DEF CallMoves
    <2>2. UNCHANGED page
      BY <2>1, RouteQuiet, AnswerQuiet
    <2>3. CASE UNCHANGED form
      BY <1>1, <2>2, <2>3
    <2>4. CASE Cancelled(c)
      BY <2>2, <2>4, FormStays, ClosedTyped DEF Cancelled
    <2>5. CASE Confirmed(c)
      <3>1. UNCHANGED form \/ form' = [form EXCEPT !.open = (@ \ {"confirm"}) \cup {"processing"}]
        BY <2>5 DEF Confirmed, withdrawVars
      <3> QED  BY <1>1, <2>2, <3>1, FormStays DEF FormTyped, FormGoesOn
    <2> QED
      BY <2>1, <2>3, <2>4, <2>5
      DEF WithdrawAnswer, GetCodeAnswered, ResendAnswered, withdrawVars
  <1>9. ASSUME NEW kind \in Kinds, NEW id \in Ids, PollMoves(kind, id)
        PROVE  FormTyped'
    <2>1. UNCHANGED page
      BY <1>9, PollMovesQuiet
    <2>2. CASE UNCHANGED form
      BY <1>1, <2>1, <2>2
    <2>3. ASSUME NEW p \in polls["validate"], AddressValidated(p)
          PROVE  FormTyped'
      <3>1. PICK status \in {"empty", "valid", "invalid"} : SetAddrUI(status)
        BY <2>3 DEF AddressValidated, PollsTyped, PollTyped, Kinds, Takes
      <3> QED  BY <2>1, <3>1, FormStays DEF SetAddrUI, FormTyped, FormGoesOn
    <2>4. ASSUME NEW p, ApplyDashboardLive(p)
          PROVE  FormTyped'
      <3>1. UNCHANGED form \/ \E a, b : form' = [form EXCEPT !.avail = a, !.blocked = b]
        BY <2>4 DEF ApplyDashboardLive, withdrawVars
      <3> QED  BY <1>1, <2>1, <3>1, FormStays DEF FormTyped, FormGoesOn
    <2> QED
      BY <1>9, <2>2, <2>3, <2>4
      DEF PollMoves, Report, Apply, LoadEmailOptions, withdrawVars
  <1> QED  BY <1>2, <1>3, <1>4, <1>5, <1>6, <1>7, <1>8, <1>9 DEF Next, User

LEMMA DialogStep ==
  ASSUME CallsTyped, AccountTyped, FormTyped, DialogTyped, PollsTyped, [Next]_vars
  PROVE  DialogTyped'
  <1>1. Tokens \subseteq Tokens'
    <2>1. CASE UNCHANGED sessions
      BY <2>1 DEF Tokens
    <2>2. ASSUME NEW c \in calls, PortfolioRoute(c)
          PROVE  Tokens \subseteq Tokens'
      BY <2>2, RoutesKeepSessions, SessionsCounted DEF Tokens
    <2>3. UNCHANGED sessions \/ \E c \in calls : PortfolioRoute(c)
      <3>1. CASE User
        BY <3>1, ClicksQuiet DEF User, Navigate, bookVars
      <3>2. CASE Scripts \/ PollsSummary \/ Elsewhere
        BY <3>2, ScriptsQuiet, ElsewhereTouches DEF bookVars
      <3>3. ASSUME NEW id \in Ids, CallMoves(id)
            PROVE  UNCHANGED sessions \/ \E c \in calls : PortfolioRoute(c)
        BY <3>3, AnswerQuiet DEF CallMoves, portfolioVars, bookVars
      <3>4. ASSUME NEW kind \in Kinds, NEW id \in Ids, PollMoves(kind, id)
            PROVE  UNCHANGED sessions
        BY <3>4, PollMovesQuiet DEF bookVars
      <3> QED  BY <3>1, <3>2, <3>3, <3>4 DEF Next, vars, portfolioVars, bookVars
    <2> QED  BY <2>1, <2>2, <2>3
  <1>2. 0 \in Tokens /\ w.token \in Tokens'
    BY <1>1, SessionsCounted DEF Tokens, DialogTyped
  <1>3. CASE UNCHANGED w
    BY <1>2, <1>3 DEF DialogTyped
  <1>4. ASSUME NEW token \in Tokens, NEW slot \in {0} \cup Slots, NEW options, NEW done,
               NEW cancelling, NEW totp, DialogTyped,
               w' = [w EXCEPT !.token = token, !.slot = slot, !.options = options,
                              !.done = done, !.cancelling = cancelling, !.totp = totp]
        PROVE  DialogTyped'
    <2>1. token \in Tokens'
      BY <1>1
    <2> QED  BY <1>4, <2>1 DEF DialogTyped
  <1>5. w = [w EXCEPT !.token = w.token, !.slot = w.slot, !.options = w.options,
                      !.done = w.done, !.cancelling = w.cancelling, !.totp = w.totp]
    BY DEF DialogTyped
  <1>6. CASE ClosesDialog
    <2>1. w' = [w EXCEPT !.token = 0, !.slot = 0, !.options = w.options,
                         !.done = w.done, !.cancelling = FALSE, !.totp = FALSE]
      BY <1>6 DEF ClosesDialog, DialogTyped
    <2> QED  BY <1>2, <1>4, <2>1
  <1>7. CASE WithdrawUser
    <2>1. CASE WithdrawConfirmBtn
      <3>1. PICK gross \in Amounts :
              /\ w.seq < MaxOpens /\ form.addr \in Places
              /\ w' = [DialogStart EXCEPT !.token = 0, !.addr = form.addr, !.gross = gross,
                                 !.seq = w.seq + 1, !.options = w.options,
                                 !.abandoned = w.abandoned \/ Awaited("getCode") # {}]
        BY <2>1 DEF WithdrawConfirmBtn, OpenDialog, FormTyped
      <3>2. gross \in Nat /\ w.seq + 1 \in 0..MaxOpens
        BY <3>1, WithdrawConstants DEF DialogTyped
      <3>3. 0 \in Tokens'
        BY <1>1, <1>2
      <3> QED  BY <3>1, <3>2, <3>3 DEF DialogTyped, DialogStart
    <2>2. CASE EmailChange
      <3>1. PICK slot \in Slots : w' = [w EXCEPT !.slot = slot, !.token = 0, !.totp = FALSE]
        BY <2>2 DEF EmailChange
      <3>2. w' = [w EXCEPT !.token = 0, !.slot = slot, !.options = w.options,
                           !.done = w.done, !.cancelling = w.cancelling, !.totp = FALSE]
        BY <3>1 DEF DialogTyped
      <3> QED  BY <1>2, <1>4, <3>2
    <2>3. CASE HandleConfirmModalClose
      <3>1. CASE w' = [w EXCEPT !.cancelling = TRUE]
        <4>1. w' = [w EXCEPT !.token = w.token, !.slot = w.slot, !.options = w.options,
                             !.done = w.done, !.cancelling = TRUE, !.totp = w.totp]
          BY <3>1 DEF DialogTyped
        <4>2. w.token \in Tokens /\ w.slot \in {0} \cup Slots
          BY DEF DialogTyped
        <4> QED  BY <1>4, <4>1, <4>2
      <3> QED  BY <1>6, <2>3, <3>1 DEF HandleConfirmModalClose
    <2>4. CASE OpenWithdrawForm \/ CloseModal \/ GetCodeClick \/ ResendClick \/ ConfirmClick
      BY <1>3, <2>4
      DEF OpenWithdrawForm, CloseModal, GetCodeClick, ResendClick, ConfirmClick, withdrawVars
    <2> QED  BY <1>7, <2>1, <2>2, <2>3, <2>4 DEF WithdrawUser
  <1>8. CASE Navigate
    <2>1. w' = DialogStart
      BY <1>8 DEF Navigate, Loads, DashboardLoads
    <2>2. 0 \in Tokens'
      BY <1>1, <1>2
    <2> QED  BY <2>1, <2>2, WithdrawConstants DEF DialogStart, DialogTyped, Places
  <1>9. ASSUME NEW c \in calls, WithdrawAnswer(c)
        PROVE  DialogTyped'
    <2>1. CASE Cancelled(c)
      BY <1>6, <2>1 DEF Cancelled
    <2>2. CASE Confirmed(c)
      <3>1. UNCHANGED w \/ w' = [w EXCEPT !.done = TRUE]
        BY <2>2 DEF Confirmed, withdrawVars
      <3>2. CASE w' = [w EXCEPT !.done = TRUE]
        <4>1. w' = [w EXCEPT !.token = w.token, !.slot = w.slot, !.options = w.options,
                             !.done = TRUE, !.cancelling = w.cancelling, !.totp = w.totp]
          BY <3>2 DEF DialogTyped
        <4>2. w.token \in Tokens /\ w.slot \in {0} \cup Slots
          BY DEF DialogTyped
        <4> QED  BY <1>4, <4>1, <4>2
      <3> QED  BY <1>3, <3>1, <3>2
    <2>3. CASE GetCodeAnswered(c) /\ ~UNCHANGED w
      <3>1. /\ IsDone(c)
            /\ w' = [w EXCEPT !.token = c.ans.token, !.slot = c.ans.slot, !.totp = c.ans.totp]
        BY <2>3 DEF GetCodeAnswered, HearsOk, Hears
      <3>2. c.ans.token \in Tokens /\ c.ans.slot \in {0} \cup Slots
        BY <3>1 DEF CallsTyped, CallTyped
      <3>3. w' = [w EXCEPT !.token = c.ans.token, !.slot = c.ans.slot, !.options = w.options,
                           !.done = w.done, !.cancelling = w.cancelling, !.totp = c.ans.totp]
        BY <3>1 DEF DialogTyped
      <3> QED  BY <1>4, <3>2, <3>3
    <2>4. CASE ResendAnswered(c)
      BY <1>3, <2>4 DEF ResendAnswered, withdrawVars
    <2> QED  BY <1>3, <1>9, <2>1, <2>2, <2>3, <2>4 DEF WithdrawAnswer
  <1>10. ASSUME NEW p \in polls["options"], LoadEmailOptions(p)
         PROVE  DialogTyped'
    <2>1. CASE w' = [w EXCEPT !.options = TRUE, !.slot = p.data] /\ p.done
      <3>1. w' = [w EXCEPT !.token = w.token, !.slot = p.data, !.options = TRUE,
                           !.done = w.done, !.cancelling = w.cancelling, !.totp = w.totp]
        BY <2>1 DEF DialogTyped
      <3>2. w.token \in Tokens /\ p.data \in {0} \cup Slots
        BY <2>1 DEF DialogTyped, PollsTyped, PollTyped, Kinds, Slots
      <3> QED  BY <1>4, <3>1, <3>2
    <2> QED  BY <1>3, <1>10, <2>1 DEF LoadEmailOptions, Takes, withdrawVars
  <1>11. ASSUME NEW id \in Ids, CallMoves(id)
         PROVE  DialogTyped'
    BY <1>3, <1>9, <1>11 DEF CallMoves, withdrawVars
  <1>12. ASSUME NEW kind \in Kinds, NEW id \in Ids, PollMoves(kind, id)
         PROVE  DialogTyped'
    BY <1>3, <1>10, <1>12
    DEF PollMoves, Report, Apply, AddressValidated, ApplyDashboardLive, withdrawVars
  <1>13. CASE Scripts \/ PollsSummary \/ Elsewhere
    BY <1>3, <1>13, ScriptsQuiet, ElsewhereTouches
  <1>14. CASE TypeAddress \/ ((BuyClick \/ RedeemClick) /\ UNCHANGED withdrawVars) \/ UNCHANGED vars
    BY <1>3, <1>14 DEF TypeAddress, withdrawVars, vars
  <1> QED  BY <1>7, <1>8, <1>11, <1>12, <1>13, <1>14 DEF Next, User

(***************************************************************************)
(* The order panel                                                         *)
(***************************************************************************)

\* What a document is given of the account.
LEMMA PanelLoads ==
  ASSUME AccountTyped, ReserveInv, UNCHANGED bookVars, orphaned => orphaned',
         NEW to \in {"dashboard", "terminal", "history"}, Loads(to)
  PROVE  PanelTyped'
  <1>1. PICK avail, shares, rows, shown :
          /\ term' = TermStart(avail, shares, rows, shown)
          /\ \/ avail = 0 /\ shares = 0 /\ shown = 0
             \/ avail = ShownAvailable /\ shares = AvailableShares /\ shown = price
    BY DEF Loads, NoTerm, TerminalLoads
  <1>2. /\ wallet.balance = Balance /\ wallet.reserved \in Nat
        /\ position.shares = Shares /\ position.reserved \in 0..Shares
        /\ price \in 1..MaxPrice
    BY DEF AccountTyped
  <1>3. ~orphaned' => wallet.reserved <= Balance
    BY DEF ReserveInv, Accounts, MoneyAccounted
  <1>4. AvailableShares \in 0..Shares
    BY <1>2, PortfolioConstants DEF AvailableShares
  <1>5. /\ ShownAvailable \in Int /\ ShownAvailable <= Balance
        /\ ~orphaned' => ShownAvailable >= 0
    BY <1>2, <1>3, PortfolioConstants DEF ShownAvailable, Available
  <1>6. /\ avail \in Int /\ avail <= Balance /\ (~orphaned' => avail >= 0)
        /\ shares \in 0..Shares /\ shown \in 0..MaxPrice
    BY <1>1, <1>2, <1>4, <1>5, PortfolioConstants
  <1> QED  BY <1>1, <1>6 DEF TermStart, PanelTyped

\* An order is accepted.
LEMMA OrderedTyped ==
  ASSUME PanelTyped, orphaned => orphaned', CallsTyped, NEW c \in calls, TerminalAnswer(c)
  PROVE  PanelTyped'
  <1>1. c.req.gross \in Nat
    BY DEF CallsTyped, CallTyped, RequestTyped
  <1>2. CASE UNCHANGED term
    BY <1>2 DEF PanelTyped
  <1>3. CASE Bought(c) /\ ~UNCHANGED term
    <2>1. PICK rows, avail :
            /\ avail = UpdateAvailable(term.avail, c.req.gross)
            /\ term' = [term EXCEPT !.rows = rows, !.avail = avail]
      BY <1>3 DEF Bought
    <2>2. avail \in Int /\ avail <= Balance /\ avail >= 0
      BY <1>1, <2>1, PortfolioConstants DEF UpdateAvailable, PanelTyped
    <2> QED  BY <2>1, <2>2 DEF PanelTyped
  <1>4. CASE Redeemed(c) /\ ~UNCHANGED term
    <2>1. PICK rows, shares :
            /\ shares = UpdateAvailable(term.shares, c.req.gross)
            /\ term' = [term EXCEPT !.rows = rows, !.shares = shares]
      BY <1>4 DEF Redeemed
    <2>2. shares \in 0..Shares
      BY <1>1, <2>1, PortfolioConstants DEF UpdateAvailable, PanelTyped
    <2> QED  BY <2>1, <2>2 DEF PanelTyped
  <1> QED  BY <1>2, <1>3, <1>4 DEF TerminalAnswer

LEMMA PanelStep ==
  ASSUME PanelTyped, AccountTyped, CallsTyped, PollsTyped, ReserveInv, [Next]_vars
  PROVE  PanelTyped'
  <1>1. orphaned => orphaned'
    BY OrphanedStays DEF ReserveInv
  <1>2. CASE UNCHANGED term
    BY <1>1, <1>2 DEF PanelTyped
  <1>3. CASE Navigate
    <2>1. PICK to \in {"dashboard", "terminal", "history"} : Loads(to)
      BY <1>3, LoadedPage
    <2> QED  BY <1>1, <1>3, <2>1, PanelLoads DEF Navigate
  <1>4. CASE User
    <2>1. (BuyClick \/ RedeemClick) => UNCHANGED term
      BY DEF BuyClick, RedeemClick, OrderClick
    <2> QED  BY <1>2, <1>3, <1>4, <2>1 DEF User
  <1>5. CASE Scripts \/ PollsSummary
    <2>1. UNCHANGED term
      BY <1>5
      DEF Scripts, PollsSummary, PollSummary, PollLatestBar, ChartStep, ThemeToggle,
          ThemeRebuild, RemoveWidget, NewWidget, ScrollBack, SubscribeBars
    <2> QED  BY <1>2, <2>1
  <1>6. CASE Elsewhere
    BY <1>2, <1>6, ElsewhereTouches
  <1>7. ASSUME NEW id \in Ids, CallMoves(id)
        PROVE  PanelTyped'
    BY <1>1, <1>2, <1>7, OrderedTyped DEF CallMoves
  <1>8. ASSUME NEW kind \in Kinds, NEW id \in Ids, PollMoves(kind, id)
        PROVE  PanelTyped'
    <2>1. CASE UNCHANGED term
      BY <1>2, <2>1
    <2>2. ASSUME NEW p \in polls["summary"], Takes("summary", p),
                 term' = [term EXCEPT !.summary = p.data]
          PROVE  PanelTyped'
      <3>1. p.data \in 0..MaxPrice
        BY <2>2 DEF PollsTyped, PollTyped, Kinds, Takes
      <3> QED  BY <1>1, <2>2, <3>1 DEF PanelTyped
    <2> QED
      BY <1>8, <2>1, <2>2
      DEF PollMoves, Report, Apply, ApplyTerminalLivePayload, GetBars, LatestBarArrives
  <1> QED  BY <1>2, <1>4, <1>5, <1>6, <1>7, <1>8 DEF Next, vars

(***************************************************************************)
(* Polls and the chart                                                     *)
(***************************************************************************)

LEMMA PollsGoOn ==
  ASSUME PollsTyped, UNCHANGED page,
         \A kind \in Kinds : \A p \in polls'[kind] : p \in polls[kind] \/ PollTyped(kind, p)'
  PROVE  PollsTyped'
  BY DEF PollsTyped, PollTyped

\* The page asks.
LEMMA AskTyped ==
  ASSUME PollsTyped, PollsByKind, UNCHANGED page,
         NEW kind \in Kinds, NEW arg, page = HomeOf(kind), Asks(kind, arg)
  PROVE  PollsTyped'
  <1>1. \A k \in Kinds : \A p \in polls'[k] : p \in polls[k] \/ (k = kind /\ ~p.done)
    BY AsksAdds
  <1>2. \A p : ~p.done => PollTyped(kind, p)'
    BY DEF PollTyped
  <1> QED  BY <1>1, <1>2, PollsGoOn

\* The page hears of a poll, or no more of it.
LEMMA HeardTyped ==
  ASSUME PollsTyped, PollsByKind, UNCHANGED page, NEW kind \in Kinds, NEW p,
         polls' = Heard(kind, p)
  PROVE  PollsTyped'
  <1>1. \A k \in Kinds : polls'[k] \subseteq polls[k]
    BY HeardTakes
  <1> QED  BY <1>1, PollsGoOn

\* The server answers.
LEMMA ReportTyped ==
  ASSUME PollsTyped, PollsByKind, AccountTyped,
         NEW kind \in Kinds, NEW p \in polls[kind], LiveEndpoint(kind, p)
  PROVE  PollsTyped'
  <1>1. PICK data : /\ Reports(kind, p, data)
                    /\ kind = "validate" => data = AddressStatus(p.arg)
                    /\ kind = "options" => data = 1
                    /\ kind = "summary" => data = price
    BY DEF LiveEndpoint, Kinds
  <1>2. UNCHANGED page
    BY <1>1 DEF Reports, callVars
  <1>3. page = HomeOf(kind)
    BY DEF PollsTyped, PollTyped
  <1>4. ASSUME NEW q, q.data = data
        PROVE  PollTyped(kind, q)'
    <2>1. kind = "validate" => data \in {"empty", "valid", "invalid"}
      BY <1>1 DEF AddressStatus
    <2>2. kind = "summary" => data \in 1..MaxPrice
      BY <1>1 DEF AccountTyped
    <2> QED  BY <1>1, <1>2, <1>3, <1>4, <2>1, <2>2 DEF PollTyped
  <1>5. \A k \in Kinds : \A q \in polls'[k] : q \in polls[k] \/ (k = kind /\ q.data = data)
    BY <1>1, ReportsAnswers
  <1> QED  BY <1>2, <1>4, <1>5, PollsGoOn

\* A document starts with the poll it begins with.
LEMMA LoadsTyped ==
  ASSUME NEW to \in {"dashboard", "terminal", "history"}, Leave(to, calls), Loads(to)
  PROVE  PollsTyped'
  <1>1. PICK kind, arg : /\ kind \in Kinds /\ HomeOf(kind) = to
                         /\ polls' = WithPoll(NoPolls, kind, arg)
    <2>1. CASE to = "dashboard"
      BY <2>1 DEF Loads, DashboardLoads, HomeOf, Kinds
    <2>2. CASE to = "terminal"
      BY <2>2 DEF Loads, TerminalLoads, HomeOf, Kinds
    <2>3. CASE to = "history"
      <3>1. PICK tab \in Tabs : PollsHistory(NoPolls, tab)
        BY <2>3 DEF Loads, HistoryLoads
      <3> QED  BY <2>3, <3>1 DEF PollsHistory, NoPolls, HomeOf, Kinds
    <2> QED  BY <2>1, <2>2, <2>3
  <1>2. ByKind(NoPolls) /\ \A k \in Kinds : NoPolls[k] = {}
    BY DEF NoPolls, ByKind
  <1>3. \A k \in Kinds : \A p \in polls'[k] : k = kind /\ ~p.done
    BY <1>1, <1>2, WithPollAdds
  <1>4. page' = HomeOf(kind)
    BY <1>1 DEF Leave
  <1> QED  BY <1>3, <1>4 DEF PollsTyped, PollTyped

\* Only a page with a chart has one that does something.
LEMMA ChartAtHome ==
  ASSUME ChartOfPage, FeedInv,
         ChartStep \/ \E i \in Charts : PollLatestBar(i)
  PROVE  page = "terminal"
  <1> SUFFICES ASSUME page # "terminal" PROVE FALSE
    OBVIOUS
  <1>1. feed = FeedStart(FALSE)
    BY DEF ChartOfPage
  <1>2. /\ feed.waiting = 0 /\ feed.frames = 0 /\ ~feed.themeDue /\ feed.widget = 0
        /\ \A i \in Charts : feed.charts[i].stage = "none"
    BY <1>1 DEF FeedStart, Blank
  <1>3. ~ThemeToggle /\ ~ThemeRebuild
    BY <1>2 DEF ThemeToggle, ThemeRebuild
  <1>4. ~RemoveWidget /\ ~NewWidget
    <2>1. ~(0 > 0)
      OBVIOUS
    <2> QED  BY <1>2, <2>1 DEF RemoveWidget, NewWidget
  <1>5. ~ScrollBack
    BY <1>2 DEF ScrollBack
  <1>6. ~SubscribeBars /\ \A i \in Charts : ~PollLatestBar(i)
    BY <1>2 DEF SubscribeBars, PollLatestBar
  <1> QED  BY <1>3, <1>4, <1>5, <1>6 DEF ChartStep

LEMMA PollsStep ==
  ASSUME PollsTyped, FeedInv, AccountTyped, FormTyped, ChartOfPage, [Next]_vars
  PROVE  PollsTyped'
  <1>1. PollsByKind
    BY DEF FeedInv
  <1>2. CASE UNCHANGED <<page, polls>>
    BY <1>2 DEF PollsTyped, PollTyped
  <1>3. CASE Navigate
    BY <1>3, LoadedPage, LoadsTyped
  <1>4. CASE User /\ ~Navigate
    <2>1. UNCHANGED page
      BY <1>4, ClicksQuiet DEF User
    <2>2. UNCHANGED polls \/ (page = "dashboard" /\ \E arg : Asks("options", arg))
      <3>1. CASE WithdrawConfirmBtn
        BY <3>1 DEF WithdrawConfirmBtn, OpenDialog, FormTyped
      <3>2. CASE ~WithdrawConfirmBtn
        BY <1>4, <3>2
        DEF User, WithdrawUser, OpenWithdrawForm, CloseModal, GetCodeClick, ResendClick,
            ConfirmClick, EmailChange, HandleConfirmModalClose, TypeAddress, BuyClick,
            RedeemClick, OrderClick, portfolioVars
      <3> QED  BY <3>1, <3>2
    <2>3. ASSUME NEW arg, page = "dashboard", Asks("options", arg)
          PROVE  PollsTyped'
      BY <1>1, <2>1, <2>3, AskTyped DEF HomeOf, Kinds
    <2> QED  BY <1>2, <2>1, <2>2, <2>3
  <1>5. CASE Scripts \/ PollsSummary
    <2>1. UNCHANGED page
      BY <1>5, ScriptsQuiet DEF callVars
    <2>2. ASSUME NEW kind \in Kinds, NEW arg, page = HomeOf(kind), Asks(kind, arg)
          PROVE  PollsTyped'
      BY <1>1, <2>1, <2>2, AskTyped
    <2>3. CASE ValidateAddressDebounced
      <3>1. page = "dashboard"
        BY <2>3 DEF ValidateAddressDebounced, FormTyped
      <3> QED  BY <1>2, <2>1, <2>2, <2>3, <3>1 DEF ValidateAddressDebounced, HomeOf, Kinds
    <2>4. CASE PollDashboardLive
      BY <2>2, <2>4 DEF PollDashboardLive, HomeOf, Kinds
    <2>5. CASE ChartStep \/ \E i \in Charts : PollLatestBar(i)
      <3>1. page = "terminal"
        BY <2>5, ChartAtHome
      <3>2. \/ UNCHANGED polls
            \/ \E arg : Asks("bars", arg) \/ Asks("latest", arg)
        BY <2>5
        DEF ChartStep, ThemeToggle, ThemeRebuild, RemoveWidget, NewWidget, ScrollBack,
            SubscribeBars, PollLatestBar, portfolioVars
      <3> QED  BY <1>2, <2>1, <2>2, <3>1, <3>2 DEF HomeOf, Kinds
    <2>6. CASE HistoryStep
      <3>1. page = "history" /\ (UNCHANGED polls \/ \E tab : Asks("history", tab))
        BY <2>6 DEF HistoryStep, SetTab, PollActiveHistory, PollsHistory, Asks
      <3> QED  BY <1>2, <2>1, <2>2, <3>1 DEF HomeOf, Kinds
    <2>7. CASE PollsSummary
      BY <2>2, <2>7 DEF PollsSummary, PollSummary, HomeOf, Kinds
    <2> QED  BY <1>5, <2>3, <2>4, <2>5, <2>6, <2>7 DEF Scripts
  <1>6. CASE Elsewhere
    BY <1>2, <1>6, ElsewhereTouches
  <1>7. ASSUME NEW id \in Ids, CallMoves(id)
        PROVE  PollsTyped'
    <2>1. UNCHANGED <<page, polls>>
      BY <1>7, RouteQuiet, AnswerQuiet DEF CallMoves, portfolioVars
    <2> QED  BY <1>2, <2>1
  <1>8. ASSUME NEW kind \in Kinds, NEW id \in Ids, PollMoves(kind, id)
        PROVE  PollsTyped'
    <2>1. UNCHANGED page
      BY <1>8, PollMovesQuiet
    <2>2. CASE Report(kind, id)
      BY <1>1, <2>2, ReportTyped DEF Report
    <2>3. CASE Apply(kind, id)
      <3>1. PICK p \in polls[kind] :
              \/ polls' = Heard(kind, p)
              \/ kind = "latest" /\ polls' = WithPoll(Heard("latest", p), "summary", None)
        BY <2>3
        DEF Apply, AddressValidated, LoadEmailOptions, ApplyDashboardLive, GetBars,
            ApplyTerminalLivePayload, LatestBarArrives, ApplyHistory, Takes, Breaks
      <3>2. CASE polls' = Heard(kind, p)
        BY <1>1, <2>1, <3>2, HeardTyped
      <3>3. CASE kind = "latest" /\ polls' = WithPoll(Heard("latest", p), "summary", None)
        <4>1. page = "terminal"
          BY <3>3 DEF PollsTyped, PollTyped, HomeOf
        <4>2. PICK pool : pool = Heard("latest", p)
          OBVIOUS
        <4>3. ByKind(pool) /\ \A k \in Kinds : pool[k] \subseteq polls[k]
          BY <1>1, <3>3, <4>2, HeardTakes
        <4>4. "summary" \in Kinds
          BY DEF Kinds
        <4>5. \A k \in Kinds : \A q \in polls'[k] :
                q \in polls[k] \/ (k = "summary" /\ ~q.done)
          BY <3>3, <4>2, <4>3, <4>4, WithPollAdds
        <4>6. \A q : ~q.done => PollTyped("summary", q)'
          BY <2>1, <4>1 DEF PollTyped, HomeOf
        <4> QED  BY <2>1, <4>5, <4>6, PollsGoOn
      <3> QED  BY <3>1, <3>2, <3>3
    <2> QED  BY <1>8, <2>2, <2>3 DEF PollMoves
  <1>9. CASE UNCHANGED vars
    BY <1>2, <1>9 DEF vars, callVars, portfolioVars
  <1> QED  BY <1>3, <1>4, <1>5, <1>6, <1>7, <1>8, <1>9 DEF Next

\* A chart is gone with its page, and caches no bar that has not existed.
LEMMA ChartPageStep ==
  ASSUME PollsTyped, FeedInv, AccountTyped, ChartOfPage, [Next]_vars
  PROVE  ChartOfPage'
  <1>1. CASE UNCHANGED <<page, feed>>
    BY <1>1 DEF ChartOfPage
  <1>2. CASE Navigate
    <2>1. PICK to \in {"dashboard", "terminal", "history"} : Leave(to, calls) /\ Loads(to)
      BY <1>2, LoadedPage
    <2>2. page' = to /\ \E starts : feed' = FeedStart(starts)
      BY <2>1 DEF Leave, Loads
    <2>3. feed'.cache = 0
      BY <2>2 DEF FeedStart
    <2>4. to # "terminal" => feed' = FeedStart(FALSE)
      BY <2>1 DEF Loads
    <2>5. feed'.cache \in 0..MaxPrice
      BY <2>3, PortfolioConstants
    <2> QED  BY <2>2, <2>4, <2>5 DEF ChartOfPage
  <1>3. ASSUME page = "terminal", UNCHANGED page, feed'.cache \in 0..MaxPrice
        PROVE  ChartOfPage'
    BY <1>3 DEF ChartOfPage
  <1>4. CASE Scripts \/ PollsSummary
    <2>1. UNCHANGED page
      BY <1>4, ScriptsQuiet DEF callVars
    <2>2. CASE UNCHANGED feed
      BY <1>1, <2>1, <2>2
    <2>3. CASE ChartStep
      <3>1. page = "terminal"
        BY <2>3, ChartAtHome
      <3>2. feed'.cache = feed.cache
        BY <2>3
        DEF ChartStep, ThemeToggle, ThemeRebuild, RemoveWidget, NewWidget, ScrollBack,
            SubscribeBars, FeedInv, FeedTyped, FeedRow
      <3> QED  BY <1>3, <2>1, <3>1, <3>2 DEF ChartOfPage
    <2> QED
      BY <1>4, <2>2, <2>3 DEF Scripts, PollsSummary, PollLatestBar
  <1>5. ASSUME NEW kind \in Kinds, NEW id \in Ids, PollMoves(kind, id)
        PROVE  ChartOfPage'
    <2>1. UNCHANGED page
      BY <1>5, PollMovesQuiet
    <2>2. CASE UNCHANGED feed
      BY <1>1, <2>1, <2>2
    <2>3. ASSUME NEW p \in polls[kind], kind \in {"bars", "latest"}, p.done,
                 feed'.cache = LastBar(p)
          PROVE  ChartOfPage'
      <3>1. page = "terminal"
        BY <2>3 DEF PollsTyped, PollTyped, HomeOf
      <3>2. p.data \in 1..price /\ price \in 1..MaxPrice
        BY <2>3 DEF FeedInv, BarPolls, AccountTyped
      <3> QED  BY <1>3, <2>1, <2>3, <3>1, <3>2, PortfolioConstants DEF LastBar
    <2>4. CASE ~UNCHANGED feed
      <3>1. PICK p \in polls[kind] : \/ kind = "bars" /\ GetBars(p)
                                     \/ kind = "latest" /\ LatestBarArrives(p)
        BY <1>5, <2>4 DEF PollMoves, Report, Apply
      <3>2. p.done /\ feed'.cache = LastBar(p)
        BY <2>4, <3>1
        DEF GetBars, LatestBarArrives, Takes, FeedInv, FeedTyped, FeedRow
      <3> QED  BY <2>3, <3>1, <3>2
    <2> QED  BY <2>2, <2>4
  <1>6. CASE User /\ ~Navigate
    BY <1>1, <1>6, ClicksQuiet DEF User
  <1>7. CASE Elsewhere
    BY <1>1, <1>7, ElsewhereTouches
  <1>8. ASSUME NEW id \in Ids, CallMoves(id)
        PROVE  ChartOfPage'
    BY <1>1, <1>8, RouteQuiet, AnswerQuiet DEF CallMoves
  <1>9. CASE UNCHANGED vars
    BY <1>1, <1>9 DEF vars, callVars
  <1> QED  BY <1>2, <1>4, <1>5, <1>6, <1>7, <1>8, <1>9 DEF Next

(***************************************************************************)
(* All together                                                            *)
(***************************************************************************)

\* A visit starts with everything within its type.
LEMMA TypesStart ==
  ASSUME Init
  PROVE  TypeInv
  <1>1. PICK v \in Visits :
          /\ page \in {"blank", "dashboard"}
          /\ locked = {} /\ cooling = {} /\ calls = {}
          /\ made = v.made /\ losses = v.losses /\ orphaned = FALSE
          /\ PortfolioInit(v.price, v.blocked)
          /\ w = [DialogStart EXCEPT !.seq = v.opened]
          /\ form = IF page = "blank" THEN NoDashboard
                    ELSE [FormStart(ShownAvailable, v.blocked) EXCEPT
                            !.open = {"form"}, !.addr = "x", !.status = "valid"]
          /\ term = NoTerm /\ feed = FeedStart(FALSE)
    BY DEF Init
  <1>2. /\ v.price \in 1..MaxPrice /\ v.opened \in 0..MaxOpens
        /\ v.made \in 0..MaxCalls /\ v.losses \in 0..MaxLost
    BY VisitsStart
  <1>3. /\ wallet = [balance |-> Balance, reserved |-> 0]
        /\ position = [shares |-> Shares, reserved |-> 0]
        /\ sessions = <<>> /\ price = v.price /\ polls = NoPolls
    BY <1>1 DEF PortfolioInit
  <1>4. TabTyped /\ CallsTyped
    BY <1>1, <1>2 DEF TabTyped, CallsTyped, Pages, Buttons
  <1>5. AccountTyped
    <2>1. sessions \in Seq(SessionRow)
      BY <1>3
    <2>2. 0 \in 0..Shares /\ 0 \in Nat
      BY PortfolioConstants
    <2> QED  BY <1>2, <1>3, <2>1, <2>2 DEF AccountTyped
  <1>6. FormTyped
    BY <1>1 DEF FormTyped, NoDashboard, FormStart, Places, Addresses
  <1>7. DialogTyped
    <2>1. 0 \in Tokens /\ None \in Places
      BY <1>3 DEF Tokens, Places
    <2> QED  BY <1>1, <1>2, <2>1 DEF DialogTyped, DialogStart
  <1>8. PanelTyped
    BY <1>1, PortfolioConstants DEF PanelTyped, NoTerm, TermStart
  <1>9. PollsTyped
    BY <1>3 DEF PollsTyped, NoPolls
  <1>10. ChartOfPage
    <2>1. feed.cache = 0 /\ 0 \in 0..MaxPrice
      BY <1>1, PortfolioConstants DEF FeedStart
    <2> QED  BY <1>1, <2>1 DEF ChartOfPage
  <1> QED  BY <1>4, <1>5, <1>6, <1>7, <1>8, <1>9, <1>10 DEF TypeInv

LEMMA TypesStep ==
  ASSUME TypeInv, FeedInv, ReserveInv, [Next]_vars
  PROVE  TypeInv'
  <1> USE DEF TypeInv
  <1>1. TabTyped' /\ CallsTyped' /\ AccountTyped'
    BY TabStep, CallsStep, AccountStep
  <1>2. FormTyped' /\ DialogTyped' /\ PanelTyped'
    BY FormStep, DialogStep, PanelStep
  <1>3. PollsTyped' /\ ChartOfPage'
    BY PollsStep, ChartPageStep
  <1> QED  BY <1>1, <1>2, <1>3

\* The variables of the tab and of its server stay within their types, for every
\* visit, amount, price and bound.  That there is a number for every call in flight
\* rests on their numbers being distinct; that a poll is of a kind the page has, on the
\* timers and the chart ending with their page; and that the order panel shows no
\* negative amount, on the reserve being covered while no call is orphaned.
THEOREM PagesTypes == Spec => []TypeOK
  <1> DEFINE All == TypeInv /\ Inv /\ ReserveInv /\ FeedInv /\ RouteTyped /\ HistInv
  <1>1. Init => All
    BY TypesStart, Starts, ReserveStarts, FeedStarts, HistoryStarts
  <1>2. All /\ [Next]_vars => All'
    BY TypesStep, StepKeeps, ReserveStep, FeedStep, HistoryKept
  <1>3. All => TypeOK
    BY TypesFollow
  <1> QED  BY <1>1, <1>2, <1>3, PTL DEF Spec
=============================================================================
