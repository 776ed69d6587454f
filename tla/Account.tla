------------------------------- MODULE Account -------------------------------
(***************************************************************************)
(* The account behind the entry pages and the security page: the routes of *)
(* app/auth/routes.py and app/settings/routes.py, the e-mail codes of      *)
(* app/codes.py and the cooldown of app/auth/code_action_cooldown.py.      *)
(*                                                                         *)
(* One person with one account, whose address is "a" and whose backup may  *)
(* be "b".  Routes declared with def run in the thread pool: they read the *)
(* user row (and, in verify_code, the code row) without a lock and commit  *)
(* later, so each takes two steps.  Routes declared with async def never   *)
(* yield between their queries: they take one.  The ORM writes only the    *)
(* attributes a handler changed.                                           *)
(*                                                                         *)
(* Three overlaps are left out.  An async route is atomic among async      *)
(* routes only: a threaded one may commit between two of its queries.  The *)
(* commits of one threaded handler (a user row, then a code) are one step. *)
(* And two overlapping calls of create_code may leave two unused codes,    *)
(* of which codes keeps the newest.                                        *)
(*                                                                         *)
(* Passwords are kept as the flow that set them; the check of a password   *)
(* at login is the check that the address is known.  A code typed by the   *)
(* user is the number of one that was issued, or WrongCode.  A TOTP code   *)
(* is the secret it was computed from.                                     *)
(***************************************************************************)
EXTENDS PageCalls

CONSTANT MaxTries          \* SECURITY_CODE_MAX_ATTEMPTS

ASSUME AttemptsBound == MaxTries \in Nat

None == "none"
Emails == {"a", "b"}
Slots == {1, 2}
Purposes == {"registration", "login_2fa", "reset", "password_change"}
WrongCode == 0

VARIABLES
  account,    \* the user row; no account while email[1] is None
  codes,      \* per purpose: newest code, whether unused, wrong attempts
  tokens,     \* password_reset_sessions: how many, which were used
  session,    \* the browser's cookie names a session row
  cool,       \* keys of _LAST_ACTION_AT younger than the cooldown
  minted,     \* TOTP secrets generated
  held,       \* the secret in the user's authenticator, 0 for none
  mailed,     \* history: <<purpose, address>> codes were sent to
  taken,      \* history: codes and tokens that were accepted
  doubled     \* history: purposes of which one code was accepted twice

serverVars == <<account, codes, tokens, session, cool, minted, mailed,
                taken, doubled>>
accountVars == <<serverVars, held>>

(***************************************************************************)
(* Requests and answers                                                    *)
(***************************************************************************)
Ops == {"register", "register_confirm", "register_resend", "login",
        "login_2fa", "login_resend", "forgot_send", "forgot_resend",
        "forgot_verify", "new_password", "email_send", "email_confirm",
        "email_delete", "totp_start", "totp_confirm", "totp_disable",
        "password_send", "password_change", "set_language"}

AsyncOps == {"register_resend", "login_resend", "forgot_send",
             "forgot_resend", "forgot_verify", "new_password", "set_language"}
SignedInOps == {"email_send", "email_confirm", "email_delete", "totp_start",
                "totp_confirm", "totp_disable", "password_send",
                "password_change"}

PurposeOf(op) ==
  CASE op \in {"login", "login_2fa", "login_resend"} -> "login_2fa"
    [] op \in {"forgot_send", "forgot_resend", "forgot_verify",
               "new_password"} -> "reset"
    [] op \in {"password_send", "password_change"} -> "password_change"
    [] OTHER -> "registration"

Request(op) == [op |-> op, email |-> None, slot |-> 0, code |-> 0, totp |-> 0]

Answer(next, totp, n) == [ok |-> TRUE, next |-> next, totp |-> totp, n |-> n]
Plain == Answer("", FALSE, 0)
Error == [ok |-> FALSE, next |-> "", totp |-> FALSE, n |-> 0]

(***************************************************************************)
(* Helpers of the routes                                                   *)
(***************************************************************************)
LiveCode(p) == IF codes[p].live THEN codes[p].n ELSE 0

\* What verify_code reads: the unused code and its wrong attempts.
CodeRow(p) == [live |-> LiveCode(p), tries |-> codes[p].tries]

\* get_current_user and the first SELECTs of a threaded route.
RouteReads(c) ==
  /\ IsSent(c) /\ c.req.op \notin AsyncOps
  /\ calls' = (calls \ {c}) \cup
       {Read(c, [user |-> account, row |-> CodeRow(PurposeOf(c.req.op)),
                 signedIn |-> session])}
  /\ UNCHANGED <<page, locked, cooling, made, losses, orphaned, accountVars>>

\* The route may run to its commit.
Runs(c, op) ==
  /\ c.req.op = op
  /\ IF op \in AsyncOps THEN IsSent(c) ELSE IsRead(c)
  /\ op \in SignedInOps => c.seen.signedIn
  /\ UNCHANGED <<page, locked, cooling, made, losses, orphaned, held>>

\* A redirect to the home page, which fetch follows: its status is good, but it is
\* no JSON, which the scripts of the authenticator ask for (postJSON).
HomePage(op) ==
  IF op \in {"totp_start", "totp_confirm", "totp_disable"} THEN Error ELSE Plain

\* A session that was deleted before the route looked for it.
NotAuthenticated(c) ==
  /\ IsRead(c) /\ c.req.op \in SignedInOps /\ ~c.seen.signedIn
  /\ Replies(c, HomePage(c.req.op))
  /\ UNCHANGED <<page, locked, cooling, made, losses, orphaned, accountVars>>

RefusedUnchanged(c) == Replies(c, Error) /\ UNCHANGED serverVars

\* db.commit() of a user row read as seen and changed to want.
Flush(seen, want) ==
  [f \in DOMAIN want |->
     IF f \in {"email", "verified"}
     THEN [s \in Slots |-> IF want[f][s] = seen[f][s] THEN account[f][s]
                                                      ELSE want[f][s]]
     ELSE IF want[f] = seen[f] THEN account[f] ELSE want[f]]

\* get_user_by_any_email finds the account.
Knows(user, email) == \E s \in Slots : user.email[s] = email

\* is_entered_email_verified.
IsVerified(user, email) ==
  \E s \in Slots : user.email[s] = email /\ user.verified[s]

\* enforce_code_action_cooldown.
Cooldown(key) == key \notin cool /\ cool' = cool \cup {key}

\* create_code: earlier codes of the purpose are deactivated.
CreateCode(p) ==
  codes' = [codes EXCEPT ![p] = [n |-> @.n + 1, live |-> TRUE, tries |-> 0]]

\* get_active_code(..) or create_code(..).
ActiveOrNewCode(p) == IF codes[p].live THEN UNCHANGED codes ELSE CreateCode(p)

\* send_email.
Mails(p, email) == mailed' = mailed \cup {<<p, email>>}

\* send_email may raise, after the code was committed and the cooldown spent.
MailsThenReplies(c, p, email, ans) ==
  \/ Mails(p, email) /\ Replies(c, ans)
  \/ Replies(c, Error) /\ UNCHANGED mailed

\* verify_code with the row read as row.
CodeMatches(code, row) ==
  code # WrongCode /\ code = row.live /\ row.tries < MaxTries

\* A wrong code counts as an attempt, which past the limit makes no difference; a
\* right one that is past its attempts is used up.
VerifyCodeFails(p, code, row) ==
  /\ ~CodeMatches(code, row)
  /\ codes' =
       IF row.live # codes[p].n THEN codes
       ELSE IF code = WrongCode
            THEN [codes EXCEPT ![p].tries = IF @ < MaxTries THEN @ + 1 ELSE @]
            ELSE [codes EXCEPT ![p].live = @ /\ code # row.live]

VerifyCode(p, code, row) ==
  /\ CodeMatches(code, row)
  /\ codes' = [codes EXCEPT ![p].live = @ /\ code # codes[p].n]
  /\ taken' = taken \cup {<<p, code>>}
  /\ doubled' = doubled \cup (IF <<p, code>> \in taken THEN {p} ELSE {})

\* require_totp_if_enabled: a matching code of a used time step is refused too.
TotpOutcomes(user, totp) ==
  IF ~user.on THEN {TRUE}
  ELSE IF totp = user.secret THEN {TRUE, FALSE} ELSE {FALSE}

\* A cooldown is a minute long; no route runs for a minute.
CooldownPasses ==
  /\ ~\E c \in calls : IsRead(c)
  /\ \E key \in cool : cool' = cool \ {key}
  /\ UNCHANGED <<callVars, account, codes, tokens, session, minted, held,
                 mailed, taken, doubled>>
=============================================================================
