---------------------------- MODULE WithdrawPage ----------------------------
(***************************************************************************)
(* The dashboard of static/js/dashboard_wallet.js: the withdrawal form,    *)
(* the dialog that sends and takes the e-mail code, and the live poll that *)
(* keeps the available balance and the compliance warning current.         *)
(*                                                                         *)
(* The amount is not state: an input event re-evaluates the button of the  *)
(* form, so it is chosen when that button is pressed.  The address is,     *)
(* since its status arrives late: the validation is debounced and awaited. *)
(*                                                                         *)
(* Bound: the dialog is opened MaxOpens times in a page load.              *)
(***************************************************************************)
EXTENDS Portfolio

CONSTANTS
  Amounts,     \* amounts the user types
  MaxOpens     \* bound: openings of the dialog in a page load

ASSUME WithdrawConstants == Amounts \subseteq Nat /\ MaxOpens \in Nat

VARIABLES
  form,   \* open modals, the address, its status, a running debounce timer,
          \* and what the live poll last showed
  w       \* withdrawState

withdrawVars == <<form, w>>

Addresses == {"x", "bad"}

FormStart(avail, warned) ==
  [open |-> {}, addr |-> None, status |-> "empty", due |-> FALSE,
   avail |-> avail, blocked |-> warned]

\* abandoned is history: the dialog was opened anew while a code request was awaited.
DialogStart ==
  [token |-> 0, addr |-> None, gross |-> 0, slot |-> 0, seq |-> 0, options |-> FALSE,
   done |-> FALSE, cancelling |-> FALSE, totp |-> FALSE, abandoned |-> FALSE]

DashboardLoads(pool) ==
  /\ form' = FormStart(ShownAvailable, blocked) /\ w' = DialogStart
  /\ polls' = WithPoll(pool, "dashboard", None)

\* startBtnCooldown.
StartBtnCooldown(btns) == cooling' = cooling \cup btns

OnDialog == page = "dashboard" /\ form.open = {"confirm"}

(***************************************************************************)
(* Withdrawal form                                                         *)
(***************************************************************************)

\* A modal-open button, and resetWithdrawForm.
OpenWithdrawForm ==
  /\ page = "dashboard" /\ form.open = {}
  /\ form' = [form EXCEPT !.open = {"form"}, !.addr = None, !.status = "empty"]
  /\ UNCHANGED <<callVars, portfolioVars, w>>

\* closeModal of app.js: the cross, the overlay or Escape.
CloseModal ==
  /\ \E modal \in form.open \ {"confirm"} : form' = [form EXCEPT !.open = @ \ {modal}]
  /\ UNCHANGED <<callVars, portfolioVars, w>>

\* setAddrUI.
SetAddrUI(status) == form' = [form EXCEPT !.status = status]

\* updateReceiveAndValidation: when the button of the form is enabled.
CanWithdraw(gross) ==
  /\ form.status \in {"valid", "checksum"}
  /\ gross > 0 /\ gross <= form.avail

\* An input event of the address field starts the timer again.
TypeAddress ==
  /\ form.open = {"form"}
  /\ \E addr \in Addresses \ {form.addr} :
       form' = [form EXCEPT !.addr = addr, !.due = TRUE]
  /\ UNCHANGED <<callVars, portfolioVars, w>>

\* validateAddressDebounced, when its timer ends.
ValidateAddressDebounced ==
  /\ form.due
  /\ IF form.addr = None
     THEN form' = [form EXCEPT !.due = FALSE, !.status = "empty"] /\ UNCHANGED polls
     ELSE form' = [form EXCEPT !.due = FALSE] /\ Asks("validate", form.addr)
  /\ UNCHANGED <<callVars, bookVars, w>>

\* The status of the address asked about, whatever is in the field now.
AddressValidated(p) ==
  \/ Takes("validate", p) /\ SetAddrUI(p.data) /\ UNCHANGED <<callVars, bookVars, w>>
  \/ Breaks("validate", p) /\ SetAddrUI("invalid") /\ UNCHANGED w

\* openWithdrawConfirmModal.  clearResendCooldown stops the timer of the resend
\* button; the other button is enabled again while its timer runs on.
OpenDialog(token) ==
  /\ form.open = {"form"} /\ form.addr # None
  /\ w.seq < MaxOpens
  /\ \E gross \in Amounts :
       /\ CanWithdraw(gross)
       /\ w' = [DialogStart EXCEPT !.token = token, !.addr = form.addr, !.gross = gross,
                                   !.seq = w.seq + 1, !.options = w.options,
                                   !.abandoned = w.abandoned \/ Awaited("getCode") # {}]
  /\ form' = [form EXCEPT !.open = {"confirm"}]
  /\ ClearResendCooldown({"getCode", "resend"})
  /\ Asks("options", w.seq + 1)
  /\ UNCHANGED <<page, locked, calls, made, losses, orphaned, bookVars>>

\* Slip: the token of the last withdrawal stays.
WithdrawConfirmBtnKeepsToken == OpenDialog(w.token)

WithdrawConfirmBtn == OpenDialog(0)

\* loadEmailOptionsForConfirm: the options of an earlier opening are passed over.
LoadEmailOptions(p) ==
  \/ /\ Takes("options", p)
     /\ w' = IF p.arg = w.seq THEN [w EXCEPT !.options = TRUE, !.slot = p.data] ELSE w
     /\ UNCHANGED <<callVars, bookVars, form>>
  \/ Breaks("options", p) /\ UNCHANGED withdrawVars

(***************************************************************************)
(* Confirmation dialog                                                     *)
(***************************************************************************)

\* requestCode.
GetCodeClick ==
  /\ OnDialog /\ "getCode" \notin cooling
  /\ Press("getCode", [Request("withdraw_request") EXCEPT
                         !.addr = w.addr, !.gross = w.gross,
                         !.slot = IF w.slot = 0 THEN 1 ELSE w.slot])
  /\ UNCHANGED <<portfolioVars, withdrawVars>>

\* The answer is taken for the dialog that is open now.
GetCodeAnswered(c) ==
  /\ c.btn = "getCode"
  /\ \/ Fails(c) /\ UNCHANGED w
     \/ /\ HearsOk(c)
        /\ w' = [w EXCEPT !.token = c.ans.token, !.slot = c.ans.slot, !.totp = c.ans.totp]
        /\ UnlockActionButton(c.btn)
        /\ StartBtnCooldown({"getCode", "resend"})
  /\ UNCHANGED <<portfolioVars, form>>

\* resendCode: the button is only ever enabled by the end of its timer.
ResendClick ==
  /\ OnDialog /\ w.token # 0 /\ "resend" \notin cooling
  /\ Press("resend", [Request("withdraw_resend") EXCEPT !.token = w.token])
  /\ UNCHANGED <<portfolioVars, withdrawVars>>

ResendAnswered(c) ==
  /\ c.btn = "resend"
  /\ \/ Fails(c)
     \/ HearsOk(c) /\ StartResendCooldown(c.btn)
  /\ UNCHANGED <<portfolioVars, withdrawVars>>

\* getTotpCode: typed where the field is visible, empty where it is not.
TotpTyped == w.totp

ConfirmRequest(code) ==
  [Request("withdraw_confirm") EXCEPT !.token = w.token, !.code = code, !.totp = TotpTyped]

\* Slip: the button is greyed but its pending mark is not looked at.
ConfirmUnlocked ==
  /\ OnDialog /\ w.token # 0
  /\ \E code \in {0, wcode.n} : Fetch("confirm", ConfirmRequest(code))
  /\ UNCHANGED <<page, locked, cooling, losses, orphaned, portfolioVars, withdrawVars>>

\* confirmWithdraw, with the newest code or a wrong one.
ConfirmClick ==
  /\ OnDialog /\ w.token # 0
  /\ \E code \in {0, wcode.n} : Press("confirm", ConfirmRequest(code))
  /\ UNCHANGED <<portfolioVars, withdrawVars>>

\* A good answer moves on to the processing modal and keeps the button pending.
Confirmed(c) ==
  /\ c.btn = "confirm"
  /\ \/ Fails(c) /\ UNCHANGED withdrawVars
     \/ /\ HearsOk(c)
        /\ w' = [w EXCEPT !.done = TRUE]
        /\ form' = [form EXCEPT !.open = (@ \ {"confirm"}) \cup {"processing"}]
        /\ UNCHANGED <<locked, cooling>>
  /\ UNCHANGED portfolioVars

\* The change event of the e-mail select.
EmailChange ==
  /\ OnDialog /\ w.options
  /\ \E slot \in Slots \ {w.slot} :
       w' = [w EXCEPT !.slot = slot, !.token = 0, !.totp = FALSE]
  /\ ClearResendCooldown({"getCode", "resend"})
  /\ UNCHANGED <<page, locked, calls, made, losses, orphaned, portfolioVars, form>>

(***************************************************************************)
(* Closing the dialog                                                      *)
(***************************************************************************)

\* The finally block of handleConfirmModalClose.
ClosesDialog ==
  /\ w' = [w EXCEPT !.token = 0, !.slot = 0, !.totp = FALSE, !.cancelling = FALSE]
  /\ form' = [form EXCEPT !.open = @ \ {"confirm"}]
  /\ ClearResendCooldown({"getCode", "resend"})

\* handleConfirmModalClose, from the click and Escape interceptor.
HandleConfirmModalClose ==
  /\ page = "dashboard" /\ "confirm" \in form.open
  /\ ~w.done /\ ~w.cancelling
  /\ IF w.token # 0
     THEN /\ Fetch("cancel", [Request("withdraw_cancel") EXCEPT !.token = w.token])
          /\ w' = [w EXCEPT !.cancelling = TRUE]
          /\ UNCHANGED <<cooling, form>>
     ELSE ClosesDialog /\ UNCHANGED <<calls, made>>
  /\ UNCHANGED <<page, locked, losses, orphaned, portfolioVars>>

\* An answer, an error or no answer at all: the dialog is closed anyway.
Cancelled(c) ==
  /\ c.btn = "cancel"
  /\ Hears(c) \/ Loses(c)
  /\ ClosesDialog
  /\ UNCHANGED <<page, locked, portfolioVars>>

(***************************************************************************)
(* Live poll                                                               *)
(***************************************************************************)

\* pollDashboardLive: one at a time.
PollDashboardLive ==
  /\ page = "dashboard" /\ polls["dashboard"] = {}
  /\ Asks("dashboard", None)
  /\ UNCHANGED <<callVars, bookVars, withdrawVars>>

\* applyDashboardLive.
ApplyDashboardLive(p) ==
  \/ /\ Takes("dashboard", p)
     /\ form' = [form EXCEPT !.avail = p.data[1], !.blocked = p.data[2]]
     /\ UNCHANGED <<callVars, bookVars, w>>
  \/ Breaks("dashboard", p) /\ UNCHANGED withdrawVars

\* setButtonAvailable and setDepositAvailable: the invest links are disabled while the
\* compliance warning shows.
InvestAvailable == ~form.blocked

WithdrawUser ==
  \/ OpenWithdrawForm \/ CloseModal \/ WithdrawConfirmBtn
  \/ GetCodeClick \/ ResendClick \/ ConfirmClick \/ EmailChange
  \/ HandleConfirmModalClose

WithdrawAnswer(c) ==
  GetCodeAnswered(c) \/ ResendAnswered(c) \/ Confirmed(c) \/ Cancelled(c)

(***************************************************************************)
(* Properties                                                              *)
(***************************************************************************)

\* What is confirmed is what the dialog shows: its token stands for a withdrawal of
\* the amount to the address in its fields, however late the answer with the token
\* came.  Not so when the dialog was opened anew while a code request was awaited.
TokenIsShown ==
  w.token # 0 /\ ~w.abandoned =>
    sessions[w.token].addr = w.addr /\ sessions[w.token].gross = w.gross

\* A withdrawal that was cancelled is not made, however far a confirmation had come.
CancelledNeverWithdrawn ==
  [][\A t \in DOMAIN sessions :
       ~sessions[t].live => sessions'[t].transfers = sessions[t].transfers]_portfolioVars
=============================================================================
