------------------------------ MODULE AuthPages ------------------------------
(***************************************************************************)
(* The entry pages of static/js/app.js: the registration and login modals  *)
(* of the front page, the forgotten-password page, and the page of the new *)
(* password.                                                               *)
(*                                                                         *)
(* Fields are not state: an input event re-evaluates the button it guards, *)
(* so what was typed is chosen when the button is pressed.  A handler that *)
(* takes an answer runs whatever the user has done to the page since.      *)
(***************************************************************************)
EXTENDS AuthRoutes

VARIABLES
  modals,     \* modals with class is-open
  entry       \* what the closures of app.js hold

\* register, login: the step each form shows; pending: pendingEmail of the login
\* form; totpAsked: loginTotpRequired or forgotTotpRequired; token: forgotToken.
EntryStart ==
  [register |-> 1, login |-> 1, pending |-> None, totpAsked |-> FALSE, token |-> 0]

authVars == <<modals, entry>>

\* showStep1 and showStep2 of the two forms.
RegisterShowStep1(e) == [e EXCEPT !.register = 1]
RegisterShowStep2(e) == [e EXCEPT !.register = 2]
LoginShowStep1(e) == [e EXCEPT !.login = 1, !.pending = None, !.totpAsked = FALSE]
LoginShowStep2(e, email, totp) ==
  [e EXCEPT !.login = 2, !.pending = email, !.totpAsked = totp]

\* The document of another page is loaded.
EntryLoads(token) ==
  /\ modals' = {}
  /\ entry' = [EntryStart EXCEPT !.token = token]

\* GET / sends a signed-in browser to the dashboard, GET of a page for signed-in
\* users sends a stranger to /.
Landing(to) ==
  IF to = "index" /\ session THEN "dashboard"
  ELSE IF to \in {"dashboard", "security"} /\ ~session THEN "index" ELSE to

\* A code typed by the user: one that was sent, or a wrong one.
TypedCodes(p) == 0..codes[p].n

\* The code of the authenticator at hand, where it is asked for; the field is hidden
\* and emptied where it is not.
TypedTotp(asked) == IF asked THEN held ELSE 0

\* refreshConfirm of the login form and refreshVerify: both fields whole.
LoginTotp == TypedTotp(entry.totpAsked)
ForgotTotp == TypedTotp(entry.totpAsked)

(***************************************************************************)
(* Modals                                                                  *)
(***************************************************************************)

\* The MutationObserver of a form, when its modal opens.
Opened(modal) ==
  IF modal = "registerModal" THEN RegisterShowStep1(entry) ELSE LoginShowStep1(entry)

\* openModal.
OpenModal(modal) ==
  /\ page = "index" /\ modals = {}
  /\ modals' = {modal}
  /\ entry' = Opened(modal)
  /\ UNCHANGED <<callVars, accountVars>>

\* closeModal, by the cross, the overlay or Escape: the step stays.
CloseModal ==
  /\ \E modal \in modals : modals' = modals \ {modal}
  /\ UNCHANGED <<callVars, accountVars, entry>>

(***************************************************************************)
(* Registration                                                            *)
(***************************************************************************)
OnModal(modal) == page = "index" /\ modal \in modals

\* The form is valid: validate() and password rules hold.  Enter in the code field
\* submits the form again.
RegisterSubmit ==
  /\ OnModal("registerModal")
  /\ Press("registerSubmit", [Request("register") EXCEPT !.email = "a"])
  /\ UNCHANGED <<authVars, accountVars>>

RegisterSubmitted(c) ==
  /\ c.btn = "registerSubmit"
  /\ \/ Fails(c) /\ UNCHANGED authVars
     \/ /\ HearsOk(c) /\ c.ans.next = "enter_code"
        /\ entry' = RegisterShowStep2(entry)
        /\ UnlockActionButton(c.btn)
        /\ UNCHANGED <<cooling, modals>>
     \/ /\ Redirects(c, Landing("dashboard")) /\ c.ans.next = "redirect"
        /\ EntryLoads(0)
  /\ UNCHANGED accountVars

RegisterConfirmClick ==
  /\ OnModal("registerModal") /\ entry.register = 2
  /\ \E code \in TypedCodes("registration") :
       Press("registerConfirm", [Request("register_confirm") EXCEPT
                                   !.email = "a", !.code = code])
  /\ UNCHANGED <<authVars, accountVars>>

RegisterConfirmed(c) ==
  /\ c.btn = "registerConfirm"
  /\ \/ Fails(c) /\ UNCHANGED authVars
     \/ Redirects(c, Landing("dashboard")) /\ EntryLoads(0)
  /\ UNCHANGED accountVars

(***************************************************************************)
(* postResend, for the three resend buttons                                *)
(***************************************************************************)
PostResend(btn, op, email) ==
  /\ btn \notin cooling
  /\ Press(btn, [Request(op) EXCEPT !.email = email])
  /\ UNCHANGED <<authVars, accountVars>>

RegisterResendClick ==
  /\ OnModal("registerModal") /\ entry.register = 2
  /\ PostResend("registerResend", "register_resend", "a")

LoginResendClick ==
  /\ OnModal("loginModal") /\ entry.login = 2
  /\ PostResend("loginResend", "login_resend", entry.pending)

ForgotResendClick ==
  /\ page = "forgot"
  /\ \E email \in Emails : PostResend("forgotResend", "forgot_resend", email)

\* Slip: the resend button is never released.
ResendKeepsLock(c) ==
  /\ c.btn \in {"registerResend", "loginResend", "forgotResend"}
  /\ \/ Fails(c)
     \/ HearsOk(c) /\ CooldownKeepsLock(c.btn)
  /\ UNCHANGED <<authVars, accountVars>>

ResendAnswered(c) ==
  /\ c.btn \in {"registerResend", "loginResend", "forgotResend"}
  /\ \/ Fails(c)
     \/ HearsOk(c) /\ StartResendCooldown(c.btn)
  /\ UNCHANGED <<authVars, accountVars>>

(***************************************************************************)
(* Login                                                                   *)
(***************************************************************************)
LoginSubmit ==
  /\ OnModal("loginModal")
  /\ \E email \in Emails :
       Press("loginSubmit", [Request("login") EXCEPT !.email = email])
  /\ UNCHANGED <<authVars, accountVars>>

\* Slip: the second step is shown whatever the answer is.
LoginSubmittedBlindly(c) ==
  /\ c.btn = "loginSubmit" /\ Hears(c)
  /\ entry' = [entry EXCEPT !.login = 2, !.pending = c.req.email]
  /\ UnlockActionButton(c.btn)
  /\ UNCHANGED <<page, cooling, modals, accountVars>>

\* showStep2 takes the address the request was made with.
LoginSubmitted(c) ==
  /\ c.btn = "loginSubmit"
  /\ \/ Fails(c) /\ UNCHANGED authVars
     \/ /\ HearsOk(c) /\ c.ans.next = "2fa_required"
        /\ entry' = LoginShowStep2(entry, c.req.email, c.ans.totp)
        /\ UnlockActionButton(c.btn)
        /\ UNCHANGED <<cooling, modals>>
     \/ /\ Redirects(c, Landing("dashboard")) /\ c.ans.next = "redirect"
        /\ EntryLoads(0)
  /\ UNCHANGED accountVars

\* Slip: nothing stops a second click while the first is on its way.
LoginConfirmUnlocked ==
  /\ OnModal("loginModal") /\ entry.login = 2
  /\ \E code \in TypedCodes("login_2fa") :
       Fetch("loginConfirm", [Request("login_2fa") EXCEPT
                                !.email = entry.pending, !.code = code,
                                !.totp = LoginTotp])
  /\ UNCHANGED <<page, locked, cooling, losses, orphaned, authVars, accountVars>>

LoginConfirmClick ==
  /\ OnModal("loginModal") /\ entry.login = 2
  /\ \E code \in TypedCodes("login_2fa") :
       Press("loginConfirm", [Request("login_2fa") EXCEPT
                                !.email = entry.pending, !.code = code,
                                !.totp = LoginTotp])
  /\ UNCHANGED <<authVars, accountVars>>

LoginConfirmed(c) ==
  /\ c.btn = "loginConfirm"
  /\ \/ Fails(c) /\ UNCHANGED authVars
     \/ Redirects(c, Landing("dashboard")) /\ EntryLoads(0)
  /\ UNCHANGED accountVars

(***************************************************************************)
(* Forgotten password                                                      *)
(***************************************************************************)
ForgotSendClick ==
  /\ page = "forgot" /\ "forgotSend" \notin cooling
  /\ \E email \in Emails :
       Press("forgotSend", [Request("forgot_send") EXCEPT !.email = email])
  /\ UNCHANGED <<authVars, accountVars>>

ForgotSent(c) ==
  /\ c.btn = "forgotSend"
  /\ \/ Fails(c) /\ UNCHANGED entry
     \/ /\ HearsOk(c) /\ StartResendCooldown(c.btn)
        /\ entry' = [entry EXCEPT !.totpAsked = c.ans.totp]
  /\ UNCHANGED <<modals, accountVars>>

ForgotVerifyClick ==
  /\ page = "forgot"
  /\ \E email \in Emails, code \in TypedCodes("reset") :
       Press("forgotVerify", [Request("forgot_verify") EXCEPT
                                !.email = email, !.code = code, !.totp = ForgotTotp])
  /\ UNCHANGED <<authVars, accountVars>>

ForgotVerified(c) ==
  /\ c.btn = "forgotVerify"
  /\ \/ Fails(c) /\ UNCHANGED authVars
     \/ Redirects(c, "new_password") /\ EntryLoads(c.ans.n)
  /\ UNCHANGED accountVars

\* The request carries the token of the page in its code field.
NewPasswordClick ==
  /\ page = "new_password" /\ entry.token # 0
  /\ Press("newPassword", [Request("new_password") EXCEPT !.code = entry.token])
  /\ UNCHANGED <<authVars, accountVars>>

\* Slip: the browser is sent to a page the site does not have.
NewPasswordSetToLogin(c) ==
  /\ c.btn = "newPassword"
  /\ \/ Fails(c) /\ UNCHANGED authVars
     \/ Redirects(c, Landing("login")) /\ EntryLoads(0)
  /\ UNCHANGED accountVars

NewPasswordSet(c) ==
  /\ c.btn = "newPassword"
  /\ \/ Fails(c) /\ UNCHANGED authVars
     \/ Redirects(c, Landing("index")) /\ EntryLoads(0)
  /\ UNCHANGED accountVars

(***************************************************************************)
(* Language switcher: not locked, and a good answer reloads the page       *)
(***************************************************************************)
LanguageClick ==
  /\ page \in {"index", "forgot"}
  /\ Fetch("language", Request("set_language"))
  /\ UNCHANGED <<page, locked, cooling, losses, orphaned, authVars, accountVars>>

SetLanguage(c) ==
  /\ Runs(c, "set_language")
  /\ Replies(c, Plain)
  /\ UNCHANGED serverVars

LanguageSet(c) ==
  /\ c.btn = "language"
  /\ \/ NetworkFails(c) /\ UNCHANGED authVars
     \/ Redirects(c, Landing(page)) /\ EntryLoads(entry.token)
  /\ UNCHANGED accountVars

AuthUser ==
  \/ \E modal \in {"registerModal", "loginModal"} : OpenModal(modal)
  \/ page = "index" /\ CloseModal
  \/ RegisterSubmit \/ RegisterConfirmClick \/ RegisterResendClick
  \/ LoginSubmit \/ LoginConfirmClick \/ LoginResendClick
  \/ ForgotSendClick \/ ForgotResendClick \/ ForgotVerifyClick
  \/ NewPasswordClick \/ LanguageClick

AuthAnswer(c) ==
  \/ RegisterSubmitted(c) \/ RegisterConfirmed(c) \/ ResendAnswered(c)
  \/ LoginSubmitted(c) \/ LoginConfirmed(c)
  \/ ForgotSent(c) \/ ForgotVerified(c) \/ NewPasswordSet(c) \/ LanguageSet(c)

(***************************************************************************)
(* Properties                                                              *)
(***************************************************************************)

\* A form that asks for a code does so for an address a code was sent to: the
\* second step of the login form belongs to the address its request was made with,
\* however late the answer comes and whatever was opened or closed meanwhile.
Step2HasCode ==
  /\ entry.login = 2 => <<"login_2fa", entry.pending>> \in mailed
  /\ entry.register = 2 => <<"registration", "a">> \in mailed
=============================================================================
