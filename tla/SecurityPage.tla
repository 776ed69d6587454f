----------------------------- MODULE SecurityPage -----------------------------
(***************************************************************************)
(* The security page, static/js/security_settings.js: the change of the    *)
(* password, the set-up and removal of the authenticator, and the two      *)
(* e-mail slots, each with its own buttons and its own calls in flight.    *)
(*                                                                         *)
(* Which e-mails and buttons exist is fixed when the page is rendered      *)
(* (templates/security_settings.html); the scripts change the page only    *)
(* where their answers say so, and otherwise reload it.                    *)
(***************************************************************************)
EXTENDS AuthPages, SettingsRoutes

VARIABLE sec     \* what the page and the closures of its script hold

\* The panels of the authenticator, and the one renderEnabledState or
\* renderDisabledState leaves visible, with its fields emptied.
TotpPanels == {"disabled", "setup", "recovery", "enabled"}
RenderedPanel(on) == IF on THEN "enabled" ELSE "disabled"

\* shown: the user row the page was rendered from; codeBlock, pwTotp: the code
\* block of the password form and passwordChangeTotpRequired; totpEnabled: the
\* constant of initEmailsManager; panel: the visible authenticator panel; slots:
\* e-mail slots whose code block is visible; pendingDelete, deleteBusy:
\* pendingDeleteSlot and deleteTotpPending.
SecStart(user) ==
  [shown |-> user, codeBlock |-> FALSE, pwTotp |-> FALSE,
   totpEnabled |-> user.on, panel |-> RenderedPanel(user.on),
   slots |-> {}, pendingDelete |-> 0, deleteBusy |-> FALSE]

\* While another page is shown.
NoUser ==
  [email |-> [s \in Slots |-> None], verified |-> [s \in Slots |-> FALSE],
   password |-> "registered", secret |-> 0, on |-> FALSE, twoFactor |-> TRUE]
NoSec == SecStart(NoUser)

secVars == <<sec>>

SecurityLoads == sec' = SecStart(account)

ReloadsSecurity(c) ==
  /\ Redirects(c, Landing("security"))
  /\ EntryLoads(0)
  /\ sec' = IF Landing("security") = "security" THEN SecStart(account) ELSE NoSec

\* The page is shown and no modal covers it.
AtSecurity == page = "security" /\ modals = {}

Staying == UNCHANGED <<authVars, accountVars>>

\* lockBtn, and the fetch of the handler.
PressHere(btn, req) == AtSecurity /\ Press(btn, req) /\ Staying /\ UNCHANGED sec

\* A good answer with unlockBtn, or with startBtnCooldown.
Released(c, s) ==
  HearsOk(c) /\ UnlockActionButton(c.btn) /\ UNCHANGED cooling /\ sec' = s
Rested(c, s) == HearsOk(c) /\ StartResendCooldown(c.btn) /\ sec' = s

\* Any other answer: its message is shown and nothing else.
Refused(c) == Fails(c) /\ UNCHANGED sec

\* The authenticator code with a password change, and with an e-mail: whether it is
\* asked for is what the last answer said, and what the page said when it was loaded.
PasswordTotp == TypedTotp(sec.pwTotp)
EmailTotp == TypedTotp(sec.totpEnabled)

(***************************************************************************)
(* initPasswordChange                                                      *)
(***************************************************************************)

\* The slots the form offers: a choice of two, or the one that is verified.
PasswordSlots ==
  LET verified == {s \in Slots : sec.shown.email[s] # None /\ sec.shown.verified[s]} IN
  IF verified = Slots THEN Slots ELSE IF 1 \in verified THEN {1} ELSE {2}

\* Both passwords are typed alike, which enables the button even while its timer
\* runs (refreshState).
PasswordSendClick ==
  \E slot \in PasswordSlots :
    PressHere("passwordSend", [Request("password_send") EXCEPT !.slot = slot])

PasswordSent(c) ==
  /\ c.btn = "passwordSend"
  /\ \/ Refused(c)
     \/ Rested(c, [sec EXCEPT !.pwTotp = c.ans.totp, !.codeBlock = TRUE])
  /\ Staying

PasswordResendClick ==
  /\ sec.codeBlock /\ "passwordResend" \notin cooling
  /\ \E slot \in PasswordSlots :
       PressHere("passwordResend", [Request("password_send") EXCEPT !.slot = slot])

PasswordResent(c) ==
  /\ c.btn = "passwordResend"
  /\ Refused(c) \/ Rested(c, [sec EXCEPT !.pwTotp = c.ans.totp])
  /\ Staying

PasswordConfirmClick ==
  /\ sec.codeBlock
  /\ \E code \in TypedCodes("password_change") :
       PressHere("passwordConfirm",
                 [Request("password_change") EXCEPT !.code = code, !.totp = PasswordTotp])

\* After a change the form is as at first, except that the button stays pending.
PasswordConfirmed(c) ==
  /\ c.btn = "passwordConfirm"
  /\ \/ Refused(c)
     \/ /\ HearsOk(c)
        /\ sec' = [sec EXCEPT !.codeBlock = FALSE, !.pwTotp = FALSE]
        /\ UNCHANGED <<locked, cooling>>
  /\ Staying

(***************************************************************************)
(* initTotpSecurity                                                        *)
(***************************************************************************)

\* postJSON of the handler of a button on one of the panels.
PostTotp(panel, btn, req) == sec.panel = panel /\ PressHere(btn, req)

\* Slip: the button is not locked.
TotpEnableUnlocked ==
  /\ AtSecurity /\ sec.panel = "disabled"
  /\ Fetch("totpEnable", Request("totp_start"))
  /\ UNCHANGED <<page, locked, cooling, losses, orphaned>>
  /\ Staying /\ UNCHANGED sec

TotpEnableClick == PostTotp("disabled", "totpEnable", Request("totp_start"))

\* The user scans the code that is shown.
TotpStarted(c) ==
  /\ c.btn = "totpEnable"
  /\ \/ Refused(c) /\ UNCHANGED held
     \/ Released(c, [sec EXCEPT !.panel = "setup"]) /\ held' = c.ans.n
  /\ UNCHANGED <<authVars, serverVars>>

TotpConfirmClick ==
  PostTotp("setup", "totpConfirm", [Request("totp_confirm") EXCEPT !.totp = held])

\* Slip: the enabled panel is shown in place, without the recovery codes.
TotpConfirmedInPlace(c) ==
  /\ c.btn = "totpConfirm"
  /\ Refused(c) \/ Released(c, [sec EXCEPT !.panel = RenderedPanel(TRUE)])
  /\ Staying

TotpConfirmed(c) ==
  /\ c.btn = "totpConfirm"
  /\ Refused(c) \/ Released(c, [sec EXCEPT !.panel = "recovery"])
  /\ Staying

\* "I have saved these codes" reloads the page.
RecoveryDone ==
  /\ AtSecurity /\ sec.panel = "recovery"
  /\ Leave(Landing("security"), calls)
  /\ EntryLoads(0)
  /\ sec' = IF Landing("security") = "security" THEN SecStart(account) ELSE NoSec
  /\ UNCHANGED accountVars

TotpDisableClick ==
  PostTotp("enabled", "totpDisable", [Request("totp_disable") EXCEPT !.totp = held])

TotpDisabled(c) ==
  /\ c.btn = "totpDisable"
  /\ Refused(c) \/ Released(c, [sec EXCEPT !.panel = RenderedPanel(FALSE)])
  /\ Staying

(***************************************************************************)
(* initEmailsManager                                                       *)
(***************************************************************************)
SlotButtons ==
  [confirm |-> <<"confirm1", "confirm2">>, resend |-> <<"resend1", "resend2">>,
   delete |-> <<"delete1", "delete2">>]
SlotButton(action, slot) == SlotButtons[action][slot]

\* getEmail: the address shown, or the one typed into the empty slot 2.
GetEmail(slot) ==
  IF sec.shown.email[slot] # None THEN sec.shown.email[slot] ELSE "b"

\* The confirm button sends a code while the code block is hidden and confirms the
\* code once it is visible.
EmailConfirmClick(slot) ==
  /\ ~sec.shown.verified[slot]
  /\ IF slot \notin sec.slots
     THEN PressHere(SlotButton("confirm", slot),
                    [Request("email_send") EXCEPT !.slot = slot, !.email = GetEmail(slot)])
     ELSE \E code \in TypedCodes("registration") :
            PressHere(SlotButton("confirm", slot),
                      [Request("email_confirm") EXCEPT !.slot = slot, !.code = code,
                                                       !.totp = EmailTotp])

EmailConfirmAnswered(c, slot) ==
  /\ c.btn = SlotButton("confirm", slot)
  /\ \/ Refused(c) /\ Staying
     \/ /\ c.req.op = "email_send"
        /\ Released(c, [sec EXCEPT !.slots = @ \cup {slot}])
        /\ Staying
     \/ c.req.op = "email_confirm" /\ ReloadsSecurity(c) /\ UNCHANGED accountVars

EmailResendClick(slot) ==
  /\ slot \in sec.slots /\ SlotButton("resend", slot) \notin cooling
  /\ PressHere(SlotButton("resend", slot),
               [Request("email_send") EXCEPT !.slot = slot, !.email = GetEmail(slot)])

EmailResent(c, slot) ==
  /\ c.btn = SlotButton("resend", slot)
  /\ Refused(c) \/ Rested(c, sec)
  /\ Staying

\* The only address gets a warning.  With the authenticator on, the button stays
\* pending under a modal that asks for its code.
EmailDeleteClick(slot) ==
  /\ AtSecurity /\ \A s \in Slots : sec.shown.email[s] # None
  /\ IF sec.totpEnabled
     THEN /\ LockActionButton(SlotButton("delete", slot))
          /\ sec' = [sec EXCEPT !.pendingDelete = slot, !.deleteBusy = FALSE]
          /\ modals' = {"emailDeleteTotpModal"}
          /\ UNCHANGED <<page, cooling, calls, made, losses, orphaned>>
     ELSE /\ Press(SlotButton("delete", slot),
                   [Request("email_delete") EXCEPT !.slot = slot])
          /\ UNCHANGED <<sec, modals>>
  /\ UNCHANGED <<entry, accountVars>>

\* The sixth digit sends the request.
DeleteTotpTyped ==
  /\ "emailDeleteTotpModal" \in modals
  /\ sec.pendingDelete # 0 /\ ~sec.deleteBusy
  /\ Fetch(SlotButton("delete", sec.pendingDelete),
           [Request("email_delete") EXCEPT !.slot = sec.pendingDelete, !.totp = held])
  /\ sec' = [sec EXCEPT !.deleteBusy = TRUE]
  /\ UNCHANGED <<page, locked, cooling, losses, orphaned>>
  /\ Staying

\* The cross and the overlay of that modal.
DeleteTotpClose ==
  /\ "emailDeleteTotpModal" \in modals
  /\ modals' = modals \ {"emailDeleteTotpModal"}
  /\ locked' = locked \ {SlotButton("delete", sec.pendingDelete)}
  /\ sec' = [sec EXCEPT !.pendingDelete = 0, !.deleteBusy = FALSE]
  /\ UNCHANGED <<page, cooling, calls, made, losses, orphaned, entry, accountVars>>

\* Escape is handled by app.js alone, which knows nothing of the pending delete.
DeleteTotpEscape ==
  /\ page = "security" /\ CloseModal
  /\ UNCHANGED sec

EmailDeleteAnswered(c, slot) ==
  /\ c.btn = SlotButton("delete", slot)
  /\ \/ Fails(c) /\ sec' = [sec EXCEPT !.deleteBusy = FALSE] /\ Staying
     \/ ReloadsSecurity(c) /\ UNCHANGED accountVars

SecurityUser ==
  \/ PasswordSendClick \/ PasswordResendClick \/ PasswordConfirmClick
  \/ TotpEnableClick \/ TotpConfirmClick \/ RecoveryDone \/ TotpDisableClick
  \/ \E slot \in Slots : \/ EmailConfirmClick(slot) \/ EmailResendClick(slot)
                         \/ EmailDeleteClick(slot)
  \/ DeleteTotpTyped \/ DeleteTotpClose \/ DeleteTotpEscape

SecurityAnswer(c) ==
  \/ PasswordSent(c) \/ PasswordResent(c) \/ PasswordConfirmed(c)
  \/ TotpStarted(c) \/ TotpConfirmed(c) \/ TotpDisabled(c)
  \/ \E slot \in Slots : \/ EmailConfirmAnswered(c, slot) \/ EmailResent(c, slot)
                         \/ EmailDeleteAnswered(c, slot)
=============================================================================
