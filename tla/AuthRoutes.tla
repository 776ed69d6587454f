------------------------------ MODULE AuthRoutes ------------------------------
(* The routes of app/auth/routes.py: registration, login with an e-mail     *)
(* code, and the forgotten password.                                         *)
EXTENDS Account

NewAccount ==
  [email |-> [s \in Slots |-> IF s = 1 THEN "a" ELSE None],
   verified |-> [s \in Slots |-> FALSE], password |-> "registered",
   secret |-> 0, on |-> FALSE, twoFactor |-> TRUE]

SomeVerified(user) == \E s \in Slots : user.verified[s]

(***************************************************************************)
(* Registration                                                            *)
(***************************************************************************)

\* POST /register.  An unverified account is overwritten before the cooldown is
\* asked; a new one is removed again when its letter cannot be sent.
RegisterSignedIn(c) ==
  /\ Runs(c, "register") /\ c.seen.signedIn
  /\ Replies(c, Answer("redirect", FALSE, 0))
  /\ UNCHANGED serverVars

RegisterExisting(c) ==
  /\ Runs(c, "register") /\ ~c.seen.signedIn /\ c.seen.user.email[1] # None
  /\ IF SomeVerified(c.seen.user) THEN RefusedUnchanged(c)
     ELSE /\ account' = Flush(c.seen.user, [c.seen.user EXCEPT !.password = "registered"])
          /\ \/ /\ Cooldown(<<"register_initial", "a">>)
                /\ ActiveOrNewCode("registration")
                /\ MailsThenReplies(c, "registration", "a",
                                    Answer("enter_code", FALSE, 0))
             \/ /\ <<"register_initial", "a">> \in cool
                /\ Replies(c, Error)
                /\ UNCHANGED <<cool, codes, mailed>>
          /\ UNCHANGED <<tokens, session, minted, taken, doubled>>

RegisterNew(c) ==
  /\ Runs(c, "register") /\ ~c.seen.signedIn /\ c.seen.user.email[1] = None
  /\ \/ <<"register_initial", "a">> \in cool /\ RefusedUnchanged(c)
     \/ /\ Cooldown(<<"register_initial", "a">>)
        /\ \/ /\ account.email[1] = None
              /\ account' = NewAccount
              /\ CreateCode("registration") /\ Mails("registration", "a")
              /\ Replies(c, Answer("enter_code", FALSE, 0))
           \/ Replies(c, Error) /\ UNCHANGED <<account, codes, mailed>>
        /\ UNCHANGED <<tokens, session, minted, taken, doubled>>

\* POST /register/confirm.  The code is burned before the rest is tried: the wallet
\* and the session are committed with the mark, or rolled back with it.
RegisterConfirm(c) ==
  /\ Runs(c, "register_confirm")
  /\ \/ /\ VerifyCodeFails("registration", c.req.code, c.seen.row)
        /\ Replies(c, Error)
        /\ UNCHANGED <<account, session, taken, doubled>>
     \/ /\ VerifyCode("registration", c.req.code, c.seen.row)
        /\ \/ /\ account' = [account EXCEPT !.verified[1] = TRUE]
              /\ session' = TRUE
              /\ Replies(c, Plain)
           \/ Replies(c, Error) /\ UNCHANGED <<account, session>>
  /\ UNCHANGED <<tokens, cool, minted, mailed>>

\* POST /register/resend-code.
RegisterResend(c) ==
  /\ Runs(c, "register_resend")
  /\ \/ /\ ~Knows(account, c.req.email) \/ account.verified[1]
        /\ Replies(c, Plain) /\ UNCHANGED serverVars
     \/ /\ Knows(account, c.req.email) /\ ~account.verified[1]
        /\ \/ /\ Cooldown(<<"register_resend", c.req.email>>) /\ ActiveOrNewCode("registration")
              /\ MailsThenReplies(c, "registration", account.email[1], Plain)
              /\ UNCHANGED <<account, tokens, session, minted, taken, doubled>>
           \/ <<"register_resend", c.req.email>> \in cool /\ RefusedUnchanged(c)

(***************************************************************************)
(* Login                                                                   *)
(***************************************************************************)

\* POST /login and send_login_2fa_code.  The cooldown is taken before the address
\* is found to be unverified.
Login(c) ==
  /\ Runs(c, "login")
  /\ LET user == c.seen.user email == c.req.email IN
     \/ ~Knows(user, email) /\ RefusedUnchanged(c)
     \/ /\ Knows(user, email) /\ ~user.twoFactor
        /\ session' = TRUE
        /\ Replies(c, Answer("redirect", FALSE, 0))
        /\ UNCHANGED <<account, codes, tokens, cool, minted, mailed, taken, doubled>>
     \/ /\ Knows(user, email) /\ user.twoFactor
        /\ <<"login_initial", email>> \in cool
        /\ RefusedUnchanged(c)
     \/ /\ Knows(user, email) /\ user.twoFactor
        /\ Cooldown(<<"login_initial", email>>)
        /\ IF IsVerified(user, email)
           THEN /\ CreateCode("login_2fa")
                /\ MailsThenReplies(c, "login_2fa", email,
                                    Answer("2fa_required", user.on, 0))
           ELSE Replies(c, Error) /\ UNCHANGED <<codes, mailed>>
        /\ UNCHANGED <<account, tokens, session, minted, taken, doubled>>

\* POST /login/2fa.  The code is burned before the authenticator is asked.
Login2FA(c) ==
  /\ Runs(c, "login_2fa")
  /\ \/ ~IsVerified(c.seen.user, c.req.email) /\ RefusedUnchanged(c)
     \/ /\ IsVerified(c.seen.user, c.req.email)
        /\ VerifyCodeFails("login_2fa", c.req.code, c.seen.row)
        /\ Replies(c, Error)
        /\ UNCHANGED <<account, tokens, session, cool, minted, mailed, taken, doubled>>
     \/ /\ IsVerified(c.seen.user, c.req.email)
        /\ VerifyCode("login_2fa", c.req.code, c.seen.row)
        /\ \E passed \in TotpOutcomes(account, c.req.totp) :
             /\ session' = (session \/ passed)
             /\ Replies(c, IF passed THEN Answer("redirect", FALSE, 0) ELSE Error)
        /\ UNCHANGED <<account, tokens, cool, minted, mailed>>

\* POST /login/2fa/resend: silent about addresses it does not know.
LoginResend(c) ==
  /\ Runs(c, "login_resend")
  /\ \/ ~IsVerified(account, c.req.email) /\ Replies(c, Plain) /\ UNCHANGED serverVars
     \/ /\ IsVerified(account, c.req.email)
        /\ \/ /\ Cooldown(<<"login_resend", c.req.email>>) /\ CreateCode("login_2fa")
              /\ MailsThenReplies(c, "login_2fa", c.req.email, Plain)
              /\ UNCHANGED <<account, tokens, session, minted, taken, doubled>>
           \/ <<"login_resend", c.req.email>> \in cool /\ RefusedUnchanged(c)

(***************************************************************************)
(* Forgotten password                                                      *)
(***************************************************************************)

\* POST /forgot/send-code, whose cooldown key is that of the first or of a repeated
\* request.
ForgotSendCode(c) ==
  /\ Runs(c, c.req.op) /\ c.req.op \in {"forgot_send", "forgot_resend"}
  /\ \/ ~Knows(account, c.req.email) /\ Replies(c, Plain) /\ UNCHANGED serverVars
     \/ /\ Knows(account, c.req.email)
        /\ ~IsVerified(account, c.req.email) \/ <<c.req.op, c.req.email>> \in cool
        /\ RefusedUnchanged(c)
     \/ /\ IsVerified(account, c.req.email)
        /\ Cooldown(<<c.req.op, c.req.email>>) /\ CreateCode("reset")
        /\ MailsThenReplies(c, "reset", c.req.email, Answer("", account.on, 0))
        /\ UNCHANGED <<account, tokens, session, minted, taken, doubled>>

\* POST /forgot/verify.
ForgotVerify(c) ==
  /\ Runs(c, "forgot_verify")
  /\ \/ ~Knows(account, c.req.email) /\ RefusedUnchanged(c)
     \/ /\ Knows(account, c.req.email)
        /\ VerifyCodeFails("reset", c.req.code, CodeRow("reset"))
        /\ Replies(c, Error)
        /\ UNCHANGED <<account, tokens, session, cool, minted, mailed, taken, doubled>>
     \/ /\ Knows(account, c.req.email)
        /\ VerifyCode("reset", c.req.code, CodeRow("reset"))
        /\ \E passed \in TotpOutcomes(account, c.req.totp) :
             IF passed
             THEN /\ tokens' = [tokens EXCEPT !.n = @ + 1]
                  /\ Replies(c, Answer("redirect", FALSE, tokens.n + 1))
             ELSE Replies(c, Error) /\ UNCHANGED tokens
        /\ UNCHANGED <<account, session, cool, minted, mailed>>

\* Slip: the token is not marked used.
ForgotNewPasswordKeepsToken(c) ==
  /\ Runs(c, "new_password") /\ c.req.code \in 1..tokens.n
  /\ account' = [account EXCEPT !.password = "reset"]
  /\ session' = FALSE
  /\ taken' = taken \cup {<<"token", c.req.code>>}
  /\ doubled' = doubled \cup
       (IF <<"token", c.req.code>> \in taken THEN {"token"} ELSE {})
  /\ Replies(c, Plain)
  /\ UNCHANGED <<codes, tokens, cool, minted, mailed>>

\* POST /forgot/new-password: every session of the user ends.
ForgotNewPassword(c) ==
  /\ Runs(c, "new_password")
  /\ LET token == c.req.code IN
     IF token \in (1..tokens.n) \ tokens.used
     THEN /\ account' = [account EXCEPT !.password = "reset"]
          /\ tokens' = [tokens EXCEPT !.used = @ \cup {token}]
          /\ session' = FALSE
          /\ taken' = taken \cup {<<"token", token>>}
          /\ doubled' = doubled \cup
               (IF <<"token", token>> \in taken THEN {"token"} ELSE {})
          /\ Replies(c, Plain)
          /\ UNCHANGED <<codes, cool, minted, mailed>>
     ELSE RefusedUnchanged(c)

AuthRoute(c) ==
  \/ RegisterSignedIn(c) \/ RegisterExisting(c) \/ RegisterNew(c)
  \/ RegisterConfirm(c) \/ RegisterResend(c)
  \/ Login(c) \/ Login2FA(c) \/ LoginResend(c)
  \/ ForgotSendCode(c) \/ ForgotVerify(c) \/ ForgotNewPassword(c)
=============================================================================
