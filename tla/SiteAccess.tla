------------------------------ MODULE SiteAccess ------------------------------
(***************************************************************************)
(* One browser tab that moves between the entry pages, the dashboard and   *)
(* the security page, over one account.  Moving on drops the handlers of   *)
(* the old page but not the requests it has sent.                          *)
(***************************************************************************)
EXTENDS SecurityPage

CONSTANT Visits    \* how visits start

vars == <<callVars, accountVars, authVars, secVars>>

Pages == {"index", "forgot", "new_password", "dashboard", "security"}

Buttons ==
  {"registerSubmit", "registerConfirm", "registerResend", "loginSubmit",
   "loginConfirm", "loginResend", "forgotSend", "forgotResend", "forgotVerify",
   "newPassword", "language", "passwordSend", "passwordResend",
   "passwordConfirm", "totpEnable", "totpConfirm", "totpDisable"} \cup
  {SlotButton(action, s) : action \in {"confirm", "resend", "delete"}, s \in Slots}

Users ==
  [email : [Slots -> Emails \cup {None}], verified : [Slots -> BOOLEAN],
   password : {"registered", "reset", "changed"},
   secret : 0..(MaxCalls + 1), on : BOOLEAN, twoFactor : BOOLEAN]

\* A registered account: with or without a backup address, an authenticator, and
\* the e-mail code at login.
Registered(backup, backupVerified, on, twoFactor) ==
  [email |-> [s \in Slots |-> IF s = 1 THEN "a" ELSE backup],
   verified |-> [s \in Slots |-> s = 1 \/ backupVerified],
   password |-> "registered", secret |-> IF on THEN 1 ELSE 0, on |-> on,
   twoFactor |-> twoFactor]

\* A visit starts with one button just pressed, on a page that is otherwise as it
\* was loaded; the page of the new password was loaded with a token.
Visit(user, to, modal, btn, req) ==
  [user |-> user, page |-> to, modal |-> modal, btn |-> btn, req |-> req]

\* The request behind each button of a page that is as it was loaded.
FirstRequest ==
  [registerSubmit |-> "register", loginSubmit |-> "login",
   forgotSend |-> "forgot_send", forgotResend |-> "forgot_resend",
   forgotVerify |-> "forgot_verify", newPassword |-> "new_password",
   passwordSend |-> "password_send", totpEnable |-> "totp_start",
   totpDisable |-> "totp_disable", confirm1 |-> "email_send",
   confirm2 |-> "email_send", delete1 |-> "email_delete",
   delete2 |-> "email_delete"]

\* A visit starts with one call made and on its way.
ASSUME VisitBounds == MaxCalls > 0 /\ MaxFlight > 0

\* Secrets are numbered in the order in which they were minted, so that of the row
\* a visit starts from, if it has one, is the first.
ASSUME VisitsStart ==
  \A v \in Visits :
    /\ v.user \in Users /\ v.user.secret \in {0, 1} /\ v.page \in Pages
    /\ v.btn \in DOMAIN FirstRequest /\ v.req.op = FirstRequest[v.btn]
    /\ v.req.email \in Emails \cup {None}
    /\ v.req.op = "email_send" => v.req.email \in Emails
    /\ v.user.email[1] = None => v.user = NoUser /\ v.page # "security"
    /\ v.btn = "totpEnable" => v.page = "security" /\ ~v.user.on
    /\ v.btn = "totpDisable" => v.page = "security" /\ v.user.on
    /\ v.modal \subseteq {"registerModal", "loginModal"}

Init ==
  \E v \in Visits :
    /\ account = v.user /\ page = v.page
    /\ modals = v.modal
    /\ tokens = [n |-> IF page = "new_password" THEN 1 ELSE 0, used |-> {}]
    /\ entry = [EntryStart EXCEPT !.token = tokens.n]
    /\ calls = {Sent(1, v.btn, v.req)} /\ locked = {v.btn}
    /\ cooling = {} /\ made = 1 /\ losses = 0 /\ orphaned = FALSE
    /\ session = (page = "security")
    /\ codes = [p \in Purposes |-> [n |-> 0, live |-> FALSE, tries |-> 0]]
    /\ cool = {} /\ mailed = {} /\ taken = {} /\ doubled = {}
    /\ minted = account.secret /\ held = account.secret
    /\ sec = IF page = "security" THEN SecStart(account) ELSE NoSec

\* Where a link or the address bar ends; with /logout the session row goes first.
Lands(to) ==
  /\ Leave(to, calls)
  /\ sec' = IF to = "security" THEN SecStart(account) ELSE NoSec
  /\ EntryLoads(0)
  /\ UNCHANGED <<account, codes, tokens, cool, minted, mailed, taken, doubled, held>>

Navigate ==
  /\ \E to \in {Landing(p) : p \in Pages \ {"new_password"}} : Lands(to)
  /\ UNCHANGED session

Logout ==
  /\ page \in {"dashboard", "security"} /\ session
  /\ session' = FALSE
  /\ Lands("index")

User ==
  \/ AuthUser /\ UNCHANGED secVars
  \/ SecurityUser
  \/ Navigate
  \/ Logout

Server ==
  \E c \in calls :
    /\ \/ RouteReads(c) \/ NotAuthenticated(c)
       \/ AuthRoute(c) \/ SettingsRoute(c) \/ SetLanguage(c)
    /\ UNCHANGED <<authVars, secVars>>

Hear ==
  \E c \in calls :
    \/ AuthAnswer(c) /\ UNCHANGED secVars
    \/ SecurityAnswer(c)

\* Bound: after the last call nothing waits for a timer.
Time ==
  /\ made < MaxCalls
  /\ \/ CooldownEnds /\ UNCHANGED accountVars
     \/ CooldownPasses
  /\ UNCHANGED <<authVars, secVars>>

Next == User \/ Server \/ Hear \/ Time

Spec == Init /\ [][Next]_vars

(***************************************************************************)
(* Properties                                                              *)
(***************************************************************************)

\* The variables stay within their types: every call is in one of its stages, and
\* the page only ever holds buttons and steps that exist.
TypeOK ==
  /\ page \in Pages
  /\ locked \subseteq Buttons /\ cooling \subseteq Buttons
  /\ made \in 0..MaxCalls /\ losses \in 0..MaxLost /\ orphaned \in BOOLEAN
  /\ Cardinality(calls) <= MaxFlight
  /\ \A c \in calls :
       /\ c.id \in Ids /\ c.btn \in Buttons /\ c.req.op \in Ops
       /\ c.owned \in BOOLEAN /\ c.stage \in {"sent", "read", "done"}
  /\ account \in Users
  /\ \A p \in Purposes : codes[p].n \in 0..MaxCalls /\ codes[p].tries \in 0..MaxTries
  /\ held \in 0..(MaxCalls + 1) /\ minted \in 0..(MaxCalls + 1)
  /\ modals \subseteq {"registerModal", "loginModal", "emailDeleteTotpModal"}
  /\ entry.register \in {1, 2} /\ entry.login \in {1, 2}
  /\ entry.pending \in Emails \cup {None}
  /\ sec.panel \in TotpPanels
  /\ sec.slots \subseteq Slots /\ sec.pendingDelete \in {0} \cup Slots

\* verify_code reads a code and uses it up in two steps, and only the pending mark
\* of the button keeps two requests from passing with one code.  It does so as long
\* as no request outlived its page or its answer; the registration code is left out,
\* since the two e-mail slots have a button each for it.
CodeUsedOnce == ~orphaned => doubled \subseteq {"registration"}

\* A reset token sets one password, even when the answer was lost and the request
\* repeated.
ResetTokenOnce == "token" \notin doubled

\* Two deletes, a delete and a new backup, in any order and with any row read
\* before: the account never ends without a primary address.
LastEmailKept ==
  [][account.email[1] # None => account'.email[1] # None]_vars

\* While no request outlived its page or its answer, the authenticator the user has
\* is the one the account asks for.
AuthenticatorMatches == account.on /\ ~orphaned => held = account.secret

\* initEmailsManager reads once whether the authenticator is on.  The page may only
\* be wrong about that while it shows the recovery codes, or is about to: otherwise
\* a confirmation would burn its e-mail code and be refused.
TotpAskedWhenRequired ==
  page = "security" /\ ~orphaned /\ account.on /\ ~sec.totpEnabled
    => sec.panel = "recovery" \/ Awaited("totpConfirm") # {}

\* No button is dead: one that is marked pending waits for a call that is on its
\* way, so an answer or a network error will release it.  Left out are the buttons
\* whose handlers keep them pending: the password confirmation after a success, and
\* a delete whose authenticator modal is open or was closed with Escape.
KeptPending == {"passwordConfirm"} \cup {SlotButton("delete", s) : s \in Slots}
PendingIsAwaited == \A btn \in locked \ KeptPending : Awaited(btn) # {}
=============================================================================
