---------------------------- MODULE SettingsRoutes ----------------------------
(* The routes of app/settings/routes.py: the two e-mail slots, the           *)
(* authenticator, and the change of the password.  All run in the thread     *)
(* pool on the user row read by get_current_user.                            *)
EXTENDS Account

Other(slot) == 3 - slot

\* POST /security/emails/send-code.  The address is stored, unverified, before the
\* code is sent to it.
EmailSendCode(c) ==
  /\ Runs(c, "email_send")
  /\ LET user == c.seen.user slot == c.req.slot
         key == <<"email_slot_send", slot, c.req.email>> IN
     \/ /\ c.req.email = user.email[Other(slot)] \/ key \in cool
        /\ RefusedUnchanged(c)
     \/ /\ c.req.email # user.email[Other(slot)]
        /\ Cooldown(key)
        /\ account' = Flush(user, [user EXCEPT !.email[slot] = c.req.email,
                                               !.verified[slot] = FALSE])
        /\ CreateCode("registration")
        /\ MailsThenReplies(c, "registration", c.req.email, Plain)
        /\ UNCHANGED <<tokens, session, minted, taken, doubled>>

\* POST /security/emails/confirm.  The code is burned before the authenticator is
\* asked, and the code is not tied to the slot it was sent to.
EmailConfirm(c) ==
  /\ Runs(c, "email_confirm")
  /\ LET slot == c.req.slot IN
     \/ c.seen.user.email[slot] = None /\ RefusedUnchanged(c)
     \/ /\ c.seen.user.email[slot] # None
        /\ VerifyCodeFails("registration", c.req.code, c.seen.row)
        /\ Replies(c, Error)
        /\ UNCHANGED <<account, taken, doubled, tokens, session, cool, minted, mailed>>
     \/ /\ c.seen.user.email[slot] # None
        /\ VerifyCode("registration", c.req.code, c.seen.row)
        /\ \E passed \in TotpOutcomes(account, c.req.totp) :
             /\ account' = [account EXCEPT !.verified[slot] = @ \/ passed]
             /\ Replies(c, IF passed THEN Plain ELSE Error)
        /\ UNCHANGED <<tokens, session, cool, minted, mailed>>

\* The row emails/delete leaves: the backup moves up when slot 1 goes.
WithoutSlot(user, slot) ==
  IF slot = 1
  THEN [user EXCEPT !.email = [s \in Slots |-> IF s = 1 THEN user.email[2] ELSE None],
                    !.verified = [s \in Slots |-> s = 1 /\ user.verified[2]]]
  ELSE [user EXCEPT !.email[2] = None, !.verified[2] = FALSE]

\* Slip: the last address is not protected.
EmailDeleteUnguarded(c) ==
  /\ Runs(c, "email_delete")
  /\ account' = Flush(c.seen.user, WithoutSlot(c.seen.user, c.req.slot))
  /\ Replies(c, Plain)
  /\ UNCHANGED <<codes, tokens, session, cool, minted, mailed, taken, doubled>>

\* POST /security/emails/delete.
EmailDelete(c) ==
  /\ Runs(c, "email_delete")
  /\ LET user == c.seen.user IN
     \/ None \in {user.email[s] : s \in Slots} /\ RefusedUnchanged(c)
     \/ /\ None \notin {user.email[s] : s \in Slots}
        /\ \E passed \in TotpOutcomes(user, c.req.totp) :
             IF passed
             THEN /\ account' = Flush(user, WithoutSlot(user, c.req.slot))
                  /\ Replies(c, Plain)
             ELSE Replies(c, Error) /\ UNCHANGED account
        /\ UNCHANGED <<codes, tokens, session, cool, minted, mailed, taken, doubled>>

\* POST /security/totp/setup/start: a new secret replaces the stored one.
TotpSetupStart(c) ==
  /\ Runs(c, "totp_start")
  /\ IF c.seen.user.on THEN RefusedUnchanged(c)
     ELSE /\ minted' = minted + 1
          /\ account' = Flush(c.seen.user, [c.seen.user EXCEPT !.secret = minted + 1,
                                                               !.on = FALSE])
          /\ Replies(c, Answer("", FALSE, minted + 1))
          /\ UNCHANGED <<codes, tokens, session, cool, mailed, taken, doubled>>

\* POST /security/totp/setup/confirm: the code is checked against the secret read
\* with the row.
TotpSetupConfirm(c) ==
  /\ Runs(c, "totp_confirm")
  /\ LET user == c.seen.user IN
     \/ /\ user.on \/ <<"totp_confirm">> \in cool
        /\ RefusedUnchanged(c)
     \/ /\ ~user.on /\ Cooldown(<<"totp_confirm">>)
        /\ IF user.secret # 0 /\ c.req.totp = user.secret
           THEN account' = Flush(user, [user EXCEPT !.on = TRUE]) /\ Replies(c, Plain)
           ELSE Replies(c, Error) /\ UNCHANGED account
        /\ UNCHANGED <<codes, tokens, session, minted, mailed, taken, doubled>>

\* POST /security/totp/disable: what is already off stays off.
TotpDisable(c) ==
  /\ Runs(c, "totp_disable")
  /\ LET user == c.seen.user IN
     \/ ~user.on /\ Replies(c, Plain) /\ UNCHANGED serverVars
     \/ /\ user.on /\ <<"totp_disable">> \in cool
        /\ RefusedUnchanged(c)
     \/ /\ user.on /\ Cooldown(<<"totp_disable">>)
        /\ \E passed \in TotpOutcomes(user, c.req.totp) :
             IF passed
             THEN /\ account' = Flush(user, [user EXCEPT !.on = FALSE, !.secret = 0])
                  /\ Replies(c, Plain)
             ELSE Replies(c, Error) /\ UNCHANGED account
        /\ UNCHANGED <<codes, tokens, session, minted, mailed, taken, doubled>>

\* POST /security/send-code.
PasswordSendCode(c) ==
  /\ Runs(c, "password_send")
  /\ LET slot == c.req.slot key == <<"password_change_initial", slot>> IN
     \/ /\ ~c.seen.user.verified[slot] \/ key \in cool
        /\ RefusedUnchanged(c)
     \/ /\ c.seen.user.verified[slot] /\ Cooldown(key)
        /\ CreateCode("password_change")
        /\ MailsThenReplies(c, "password_change", c.seen.user.email[slot],
                            Answer("", account.on, 0))
        /\ UNCHANGED <<account, tokens, session, minted, taken, doubled>>

\* POST /security/change-password: the user's other sessions end.
ChangePassword(c) ==
  /\ Runs(c, "password_change")
  /\ \/ /\ VerifyCodeFails("password_change", c.req.code, c.seen.row)
        /\ Replies(c, Error)
        /\ UNCHANGED <<account, taken, doubled, tokens, session, cool, minted, mailed>>
     \/ /\ VerifyCode("password_change", c.req.code, c.seen.row)
        /\ \E passed \in TotpOutcomes(account, c.req.totp) :
             IF passed
             THEN account' = [account EXCEPT !.password = "changed"] /\ Replies(c, Plain)
             ELSE Replies(c, Error) /\ UNCHANGED account
        /\ UNCHANGED <<tokens, session, cool, minted, mailed>>

SettingsRoute(c) ==
  \/ EmailSendCode(c) \/ EmailConfirm(c) \/ EmailDelete(c)
  \/ TotpSetupStart(c) \/ TotpSetupConfirm(c) \/ TotpDisable(c)
  \/ PasswordSendCode(c) \/ ChangePassword(c)
=============================================================================
