--------------------------- MODULE MCInvestorPages ---------------------------
(* The investor pages for TLC. *)
EXTENDS InvestorPages

MCAmounts == {2, 3}
MCOrderAmounts == {2, 4}

\* A withdrawal confirmed or cancelled in one dialog; two dialogs over two addresses;
\* a dialog with a network error; the form and the compliance warning; orders and
\* the history; the chart while prices move; the chart with a network error.
MCVisits ==
  {[Visit EXCEPT !.opened = MaxOpens - 1],
   [Visit EXCEPT !.edits = 1, !.made = MaxCalls - 2],
   [Visit EXCEPT !.opened = MaxOpens - 1, !.made = MaxCalls - 2, !.losses = 0,
                 !.checks = TRUE],
   [Visit EXCEPT !.route = <<"dashboard", "terminal">>, !.edits = 2,
                 !.opened = MaxOpens - 1, !.made = MaxCalls,
                 !.losses = 0, !.checks = TRUE],
   [Visit EXCEPT !.route = <<"terminal", "history">>, !.made = MaxCalls - 2,
                 !.losses = 0, !.price = 1, !.checks = TRUE],
   [Visit EXCEPT !.route = <<"terminal">>, !.chart = TRUE, !.made = MaxCalls,
                 !.price = 1],
   [Visit EXCEPT !.route = <<"terminal">>, !.chart = TRUE, !.made = MaxCalls,
                 !.losses = 0]}
=============================================================================
