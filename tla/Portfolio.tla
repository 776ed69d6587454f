------------------------------ MODULE Portfolio ------------------------------
(***************************************************************************)
(* The server behind the investor pages: the withdrawal routes of          *)
(* app/dashboard/routes.py, order entry of app/trading/order_service.py,   *)
(* and what the live endpoints report.                                     *)
(*                                                                         *)
(* One investor, one wallet, one position in one fund.  A withdrawal needs *)
(* a session (to an address, over a gross amount) and an e-mail code; the  *)
(* code belongs to the user, not to the session.  Asking for one commits   *)
(* the code, sends it and only then commits the session: two steps.        *)
(* withdraw_confirm commits the code first, then reads the wallet without  *)
(* a lock, adds the amount and writes the sum, so it takes three.  Order   *)
(* entry locks the row it changes and takes one.                           *)
(*                                                                         *)
(* Polls are GET requests: they change nothing, so they are kept apart     *)
(* from calls and are dropped with their page.  Bound: MaxFlight polls of  *)
(* a kind at once.                                                         *)
(***************************************************************************)
EXTENDS PageCalls, Sequences

CONSTANTS
  Balance, Shares,       \* what the investor starts with
  Fee,                   \* WITHDRAW_FEE_USDT
  TotpOn,                \* totp_enabled of the investor
  MaxPrice               \* bound: prices the fund takes

ASSUME PortfolioConstants ==
  /\ Balance \in Nat /\ Shares \in Nat /\ Fee \in Nat /\ MaxPrice \in Nat
  /\ TotpOn \in BOOLEAN

VARIABLES
  wallet,     \* usdt_balance and usdt_reserved
  position,   \* shares, shares_reserved
  sessions,   \* withdraw_sessions, by token, with the transfers each made
  wcode,      \* the newest withdraw code
  cool,       \* keys of _LAST_ACTION_AT younger than the cooldown
  orders,     \* fund_orders of the investor, all pending, and what the buys cost
  price,      \* minute bars of the fund: number of the newest
  blocked,    \* compliance_status is not ok
  polls       \* GET requests of the page

bookVars == <<wallet, position, sessions, wcode, cool, orders, price, blocked>>
portfolioVars == <<bookVars, polls>>

None == "none"
Slots == {1, 2}

(***************************************************************************)
(* Polls                                                                   *)
(***************************************************************************)
Kinds == {"validate", "options", "dashboard", "summary", "latest", "bars", "history"}
NoPolls == [kind \in Kinds |-> {}]

Full(kind) == Cardinality(polls[kind]) = MaxFlight

\* A fetch of the page, with whatever its handler remembers over the await.  Bound:
\* a poll beyond MaxFlight of its kind is left out.
WithPoll(pool, kind, arg) ==
  LET free == Ids \ {p.id : p \in pool[kind]} IN
  IF free = {} THEN pool
  ELSE [pool EXCEPT ![kind] = @ \cup
          {[id |-> CHOOSE id \in free : \A other \in free : id <= other,
            arg |-> arg, done |-> FALSE]}]

Asks(kind, arg) == polls' = WithPoll(polls, kind, arg)

\* The server reads the database and answers.
Reports(kind, p, data) ==
  /\ ~p.done
  /\ polls' = [polls EXCEPT ![kind] = (@ \ {p}) \cup
                 {[id |-> p.id, arg |-> p.arg, done |-> TRUE, data |-> data]}]
  /\ UNCHANGED <<callVars, bookVars>>

\* The polls of a kind once p was heard.
Heard(kind, p) == [polls EXCEPT ![kind] = @ \ {p}]
Takes(kind, p) == p.done /\ polls' = Heard(kind, p)

\* An error status or a network error.
Breaks(kind, p) ==
  /\ losses < MaxLost
  /\ losses' = losses + 1
  /\ polls' = Heard(kind, p)
  /\ UNCHANGED <<page, locked, cooling, calls, made, orphaned, bookVars>>

(***************************************************************************)
(* Requests                                                                *)
(***************************************************************************)
Request(op) ==
  [op |-> op, addr |-> None, gross |-> 0, slot |-> 0, token |-> 0, code |-> 0, totp |-> FALSE]
Answer(token, gross, slot) ==
  [ok |-> TRUE, token |-> token, gross |-> gross, slot |-> slot, totp |-> TotpOn]
Plain == Answer(0, 0, 0)
Error == [ok |-> FALSE, token |-> 0, gross |-> 0, slot |-> 0, totp |-> FALSE]

Serves(c, op) ==
  /\ c.req.op = op /\ IsSent(c)
  /\ UNCHANGED <<page, locked, cooling, made, losses, orphaned, polls, price, blocked>>

Refuses(c) ==
  Replies(c, Error) /\ UNCHANGED <<wallet, position, sessions, wcode, cool, orders>>

Available == wallet.balance - wallet.reserved
AvailableShares == position.shares - position.reserved

\* usdt_balance_available of get_user_portfolio: what the pages are told.
ShownAvailable == IF blocked THEN 0 ELSE Available

(***************************************************************************)
(* Withdrawal                                                              *)
(***************************************************************************)
\* validate_address_status.
AddressStatus(addr) ==
  IF addr = "bad" THEN "invalid" ELSE IF addr = None THEN "empty" ELSE "valid"

Usable(token) == sessions[token].live /\ ~sessions[token].used

\* enforce_code_action_cooldown.
Cooldown(key) == key \notin cool /\ cool' = cool \cup {key}

\* get_active_code(..) or create_code(..).
ActiveOrNewCode ==
  wcode' = IF wcode.live THEN wcode ELSE [n |-> wcode.n + 1, live |-> TRUE]

\* What a handler remembers between its commits.
Seen(step, usable, code) == [step |-> step, usable |-> usable, code |-> code, reserved |-> 0]

\* POST /api/withdraw/request-code, up to the letter.  One that cannot be sent takes
\* the code with it.
WithdrawRequestCode(c) ==
  /\ Serves(c, "withdraw_request")
  /\ LET req == c.req key == <<"withdraw_initial", req.slot, req.addr>> IN
     \/ /\ AddressStatus(req.addr) = "invalid" \/ req.gross <= Fee
           \/ Available < req.gross \/ key \in cool
        /\ Refuses(c)
     \/ /\ AddressStatus(req.addr) # "invalid" /\ req.gross > Fee /\ Available >= req.gross
        /\ Cooldown(key)
        /\ \/ /\ ActiveOrNewCode
              /\ calls' = (calls \ {c}) \cup {Read(c, Seen("session", FALSE, 0))}
           \/ /\ wcode' = [n |-> IF wcode.live THEN wcode.n ELSE wcode.n + 1, live |-> FALSE]
              /\ Replies(c, Error)
        /\ UNCHANGED <<wallet, position, sessions, orders>>

\* The session is committed last.
WithdrawRequestCommits(c) ==
  /\ c.req.op = "withdraw_request" /\ IsRead(c)
  /\ sessions' = Append(sessions,
       [addr |-> c.req.addr, gross |-> c.req.gross, slot |-> c.req.slot,
        live |-> TRUE, used |-> FALSE, transfers |-> 0])
  /\ Replies(c, Answer(Len(sessions) + 1, c.req.gross, c.req.slot))
  /\ UNCHANGED <<page, locked, cooling, made, losses, orphaned, polls, price, blocked,
                 wallet, position, wcode, cool, orders>>

\* POST /api/withdraw/resend-code.  The code stays when its letter cannot be sent.
WithdrawResendCode(c) ==
  /\ Serves(c, "withdraw_resend")
  /\ LET key == <<"withdraw_resend", c.req.token>> IN
     \/ ~Usable(c.req.token) /\ Refuses(c)
     \/ Usable(c.req.token) /\ key \in cool /\ Refuses(c)
     \/ /\ Usable(c.req.token)
        /\ Cooldown(key)
        /\ ActiveOrNewCode
        /\ Replies(c, Plain) \/ Replies(c, Error)
        /\ UNCHANGED <<wallet, position, sessions, orders>>

\* POST /api/withdraw/confirm: the session and the code are read.
WithdrawConfirmReads(c) ==
  /\ Serves(c, "withdraw_confirm")
  /\ calls' = (calls \ {c}) \cup
       {Read(c, Seen("code", Usable(c.req.token), IF wcode.live THEN wcode.n ELSE 0))}
  /\ UNCHANGED <<wallet, position, sessions, wcode, cool, orders>>

InConfirm(c, step) ==
  /\ c.req.op = "withdraw_confirm" /\ IsRead(c) /\ c.seen.step = step
  /\ UNCHANGED <<page, locked, cooling, made, losses, orphaned, polls, price, blocked,
                 position, cool, orders>>

\* verify_code commits the code as used, whatever require_totp_if_enabled then says,
\* and the wallet is read.  A typed authenticator code may be right or wrong.
WithdrawConfirmVerifies(c) ==
  /\ InConfirm(c, "code")
  /\ UNCHANGED <<wallet, sessions>>
  /\ IF ~c.seen.usable \/ c.req.code = 0 \/ c.req.code # c.seen.code
     THEN Replies(c, Error) /\ UNCHANGED wcode
     ELSE /\ wcode' = [wcode EXCEPT !.live = @ /\ wcode.n # c.req.code]
          /\ \/ /\ TotpOn => c.req.totp
                /\ calls' = (calls \ {c}) \cup
                  {[c EXCEPT !.seen.step = "wallet", !.seen.reserved = wallet.reserved]}
             \/ TotpOn /\ Replies(c, Error)

\* Slip: the session row is not part of the last commit.
WithdrawConfirmCommitsAnyway(c) ==
  /\ InConfirm(c, "wallet")
  /\ wallet' = [wallet EXCEPT !.reserved = c.seen.reserved + sessions[c.req.token].gross]
  /\ sessions' = [sessions EXCEPT ![c.req.token].used = TRUE,
                                  ![c.req.token].transfers = @ + 1]
  /\ Replies(c, Plain)
  /\ UNCHANGED wcode

\* The transfer, the reserve and used_at are committed together; a session row that
\* was deleted meanwhile fails the commit.
WithdrawConfirmCommits(c) ==
  /\ InConfirm(c, "wallet")
  /\ LET s == sessions[c.req.token] IN
     IF s.live
     THEN /\ wallet' = [wallet EXCEPT !.reserved = c.seen.reserved + s.gross]
          /\ sessions' = [sessions EXCEPT ![c.req.token].used = TRUE,
                                          ![c.req.token].transfers = @ + 1]
          /\ Replies(c, Plain)
     ELSE Replies(c, Error) /\ UNCHANGED <<wallet, sessions>>
  /\ UNCHANGED wcode

\* POST /api/withdraw/cancel: unused codes go with the session.
WithdrawCancel(c) ==
  /\ Serves(c, "withdraw_cancel")
  /\ Replies(c, Plain)
  /\ IF Usable(c.req.token)
     THEN /\ sessions' = [sessions EXCEPT ![c.req.token].live = FALSE]
          /\ wcode' = [wcode EXCEPT !.live = FALSE]
     ELSE UNCHANGED <<sessions, wcode>>
  /\ UNCHANGED <<wallet, position, cool, orders>>

(***************************************************************************)
(* Order entry                                                             *)
(***************************************************************************)

\* create_buy_order.
CreateBuyOrder(c) ==
  /\ Serves(c, "buy")
  /\ IF blocked \/ c.req.gross > Available
     THEN Refuses(c)
     ELSE /\ wallet' = [wallet EXCEPT !.reserved = @ + c.req.gross]
          /\ orders' = [orders EXCEPT !.buys = @ + 1, !.spent = @ + c.req.gross]
          /\ Replies(c, Plain)
          /\ UNCHANGED <<position, sessions, wcode, cool>>

\* create_redeem_order: one active redemption at a time.
CreateRedeemOrder(c) ==
  /\ Serves(c, "redeem")
  /\ IF orders.redeems > 0 \/ c.req.gross > AvailableShares
     THEN Refuses(c)
     ELSE /\ position' = [position EXCEPT !.reserved = @ + c.req.gross]
          /\ orders' = [orders EXCEPT !.redeems = @ + 1]
          /\ Replies(c, Plain)
          /\ UNCHANGED <<wallet, sessions, wcode, cool>>

PortfolioRoute(c) ==
  \/ WithdrawRequestCode(c) \/ WithdrawRequestCommits(c) \/ WithdrawResendCode(c)
  \/ WithdrawConfirmReads(c) \/ WithdrawConfirmVerifies(c) \/ WithdrawConfirmCommits(c)
  \/ WithdrawCancel(c) \/ CreateBuyOrder(c) \/ CreateRedeemOrder(c)

(***************************************************************************)
(* Live endpoints                                                          *)
(***************************************************************************)
Transferred == Cardinality({t \in DOMAIN sessions : sessions[t].transfers > 0})

\* Rows of /api/history/live for a section and a sub.
Tabs == {<<"trading", "all">>, <<"trading", "purchases">>, <<"transfers", "all">>}
Rows(tab) ==
  IF tab[1] = "transfers" THEN Transferred
  ELSE orders.buys + (IF tab[2] = "all" THEN orders.redeems ELSE 0)

\* The bar of /api/chart/bars: the newest, or for an earlier range an old one.
LiveEndpoint(kind, p) ==
  CASE kind = "validate"  -> Reports(kind, p, AddressStatus(p.arg))
    [] kind = "options"   -> Reports(kind, p, 1)
    [] kind = "dashboard" -> Reports(kind, p, <<ShownAvailable, blocked>>)
    [] kind = "bars"      -> Reports(kind, p, IF p.arg[2] THEN 1 ELSE price)
    [] kind = "history"   -> Reports(kind, p, Rows(p.arg))
    [] OTHER              -> Reports(kind, p, price)

(***************************************************************************)
(* The rest of the platform                                                *)
(***************************************************************************)

\* The NAV collector writes the next minute bar.
PriceTicks ==
  /\ price < MaxPrice /\ price' = price + 1
  /\ UNCHANGED <<callVars, wallet, position, sessions, wcode, cool, orders, blocked, polls>>

\* The compliance checks of deposits change the status of the wallet.
ComplianceChanges ==
  /\ ~blocked /\ blocked' = TRUE
  /\ UNCHANGED <<callVars, wallet, position, sessions, wcode, cool, orders, price, polls>>

CooldownPasses ==
  /\ \E key \in cool : cool' = cool \ {key}
  /\ UNCHANGED <<callVars, wallet, position, sessions, wcode, orders, price, blocked, polls>>

PortfolioInit(newest, warned) ==
  /\ wallet = [balance |-> Balance, reserved |-> 0]
  /\ position = [shares |-> Shares, reserved |-> 0]
  /\ sessions = <<>> /\ wcode = [n |-> 0, live |-> FALSE] /\ cool = {}
  /\ orders = [buys |-> 0, redeems |-> 0, spent |-> 0]
  /\ price = newest /\ blocked = warned /\ polls = NoPolls
=============================================================================
