--------------------------- MODULE SiteAccessProofs ---------------------------
(***************************************************************************)
(* Proofs about the entry pages and the security page within SiteAccess,   *)
(* for every bound on calls and every set of visits that starts from a user*)
(* row.                                                                    *)
(*                                                                         *)
(* Of the first four properties three need more than they say.  A second  *)
(* step is shown because of an answer: the invariant follows it back to    *)
(* the letter that was mailed before it (Announced).  The primary address  *)
(* is written by routes that read the row earlier, so the rows that calls  *)
(* carry are part of it (Good), and so is that no request would store the  *)
(* empty address.  A reset token is accepted twice only if it was accepted *)
(* and not marked (TokensMarked).  That no button is dead is an invariant  *)
(* of its own: each handler releases the button of the call it takes.      *)
(*                                                                         *)
(* The second half is about two-step routes: a code that is used once, and *)
(* the authenticator that stays in step with the account.  Both rest on    *)
(* the pending mark of a button (OneEach: one request of a guarded kind at *)
(* a time), on codes that are taken no longer being live (CodesKept), and  *)
(* on a panel being right until its own request has taken effect (Panels). *)
(*                                                                         *)
(* The last part is the type invariant.  Its bounds on secrets, tokens and *)
(* codes are not local: each is made by answering a call, so their numbers *)
(* and the calls the server has yet to answer stay within the calls made   *)
(* (Budget).                                                               *)
(***************************************************************************)
EXTENDS SiteAccess, FiniteSetTheorems, TLAPS

(***************************************************************************)
(* The invariant                                                           *)
(***************************************************************************)

\* A token of a reset that was accepted is marked used.
TokensMarked ==
  /\ "used" \in DOMAIN tokens
  /\ \A t : <<"token", t>> \in taken => t \in tokens.used
  /\ ResetTokenOnce

\* A user row, as stored and as read, has its two addresses.
UserRow(user) == "email" \in DOMAIN user /\ DOMAIN user.email = Slots

\* The answers that open a second step come after a letter.
Announced(c) ==
  /\ c.ans.next = "2fa_required" => <<"login_2fa", c.req.email>> \in mailed
  /\ c.ans.next = "enter_code" => <<"registration", "a">> \in mailed

\* No request would store the empty address.
Good(c) ==
  /\ {"btn", "req", "owned", "stage"} \subseteq DOMAIN c
  /\ IsRead(c) => "seen" \in DOMAIN c /\ UserRow(c.seen.user)
  /\ IsDone(c) => "ans" \in DOMAIN c /\ Announced(c)
  /\ c.req.op = "email_send" => c.req.email # None

CallsGood == \A c \in calls : Good(c)

EntryShown == {"login", "pending", "register"} \subseteq DOMAIN entry /\ Step2HasCode

Inv == TokensMarked /\ UserRow(account) /\ CallsGood /\ EntryShown

\* What a step owes besides the invariant.
FirstEmailStays == account.email[1] # None => account'.email[1] # None

(***************************************************************************)
(* Calls                                                                   *)
(***************************************************************************)

\* Letters are only added to, so a good call stays good.
LEMMA GoodStays ==
  ASSUME NEW c, Good(c), mailed \subseteq mailed'
  PROVE  Good(c)'
  BY DEF Good, Announced, UserRow

\* A call that is no longer awaited.
LEMMA GoodDisowned ==
  ASSUME NEW c, Good(c)
  PROVE  Good([c EXCEPT !.owned = FALSE])
  <1> DEFINE d == [c EXCEPT !.owned = FALSE]
  <1>1. /\ DOMAIN d = DOMAIN c
        /\ d.btn = c.btn /\ d.req = c.req /\ d.stage = c.stage
        /\ "ans" \in DOMAIN c => d.ans = c.ans
        /\ "seen" \in DOMAIN c => d.seen = c.seen
    BY DEF Good
  <1> HIDE DEF d
  <1>2. Good(d)
    BY <1>1 DEF Good, Announced, IsRead, IsDone
  <1> QED  BY <1>2 DEF d

\* Requests leave, are heard of, lost or left behind.
LEMMA CallsOfPage ==
  ASSUME CallsGood, mailed \subseteq mailed',
         \A d \in calls' : d \in calls \/ \E c \in calls : d = [c EXCEPT !.owned = FALSE]
  PROVE  CallsGood'
  <1> SUFFICES ASSUME NEW d \in calls' PROVE Good(d)'
    BY DEF CallsGood
  <1>1. Good(d)
    BY GoodDisowned DEF CallsGood
  <1> QED  BY <1>1, GoodStays

\* A request that leaves carries no row and no answer.
LEMMA Fetched ==
  ASSUME CallsGood, NEW btn, NEW req, Fetch(btn, req), UNCHANGED mailed,
         req.op = "email_send" => req.email # None
  PROVE  CallsGood'
  <1>1. PICK id : calls' = calls \cup {Sent(id, btn, req)}
    BY DEF Fetch
  <1>2. Good(Sent(id, btn, req))
    BY DEF Good, Sent, IsRead, IsDone
  <1>3. \A d \in calls' : Good(d)
    BY <1>1, <1>2 DEF CallsGood
  <1> QED  BY <1>3, GoodStays DEF CallsGood

\* The server's answer to a call.
LEMMA Answered ==
  ASSUME CallsGood, NEW c \in calls, NEW ans, Replies(c, ans), mailed \subseteq mailed',
         ans.next = "2fa_required" => <<"login_2fa", c.req.email>> \in mailed',
         ans.next = "enter_code" => <<"registration", "a">> \in mailed'
  PROVE  CallsGood'
  <1> SUFFICES ASSUME NEW d \in calls' PROVE Good(d)'
    BY DEF CallsGood
  <1>1. CASE d \in calls
    BY <1>1, GoodStays DEF CallsGood
  <1>2. CASE d = Done(c, ans)
    <2>1. /\ {"btn", "req", "owned", "stage", "ans"} \subseteq DOMAIN d
          /\ d.req = c.req /\ d.ans = ans /\ d.stage = "done"
      BY <1>2 DEF Done
    <2> QED  BY <2>1 DEF CallsGood, Good, Announced, IsRead, IsDone
  <1> QED  BY <1>1, <1>2 DEF Replies

(***************************************************************************)
(* What routes do to the account, the codes and the tokens                 *)
(***************************************************************************)

\* db.commit() touches only what the route has changed.
LEMMA Flushed ==
  ASSUME Inv, NEW seen, NEW want, UserRow(seen), UserRow(want),
         account' = Flush(seen, want),
         want.email[1] # seen.email[1] => want.email[1] # None
  PROVE  UserRow(account)' /\ FirstEmailStays
  <1>1. "email" \in DOMAIN account'
    BY DEF UserRow, Flush
  <1>2. account'.email = [s \in Slots |-> IF want.email[s] = seen.email[s]
                                          THEN account.email[s] ELSE want.email[s]]
    BY DEF UserRow, Flush
  <1> QED  BY <1>1, <1>2 DEF UserRow, FirstEmailStays, Slots

\* Fields other than the addresses.
LEMMA OtherField ==
  ASSUME Inv,
         \/ UNCHANGED account
         \/ \E x : account' = [account EXCEPT !.password = x]
         \/ \E x : account' = [account EXCEPT !.verified = x]
  PROVE  UserRow(account)' /\ FirstEmailStays
  BY DEF Inv, UserRow, FirstEmailStays

\* A code that is taken is no token.
LEMMA CodeTaken ==
  ASSUME Inv, NEW p, p # "token", NEW code,
         UNCHANGED <<tokens, taken, doubled>> \/
         /\ tokens' = tokens \/ \E n : tokens' = [tokens EXCEPT !.n = n]
         /\ taken' = taken \cup {<<p, code>>}
         /\ doubled' \subseteq doubled \cup {p}
  PROVE  TokensMarked'
  <1>1. tokens'.used = tokens.used /\ "used" \in DOMAIN tokens'
    BY DEF Inv, TokensMarked
  <1>2. \A t : <<"token", t>> \in taken' => <<"token", t>> \in taken
    OBVIOUS
  <1>3. "token" \notin doubled'
    BY DEF Inv, TokensMarked, ResetTokenOnce
  <1> QED  BY <1>1, <1>2, <1>3 DEF Inv, TokensMarked, ResetTokenOnce

\* verify_code, whether it fails or not.
LEMMA CodeVerified ==
  ASSUME Inv, NEW p \in Purposes, UNCHANGED tokens \/ \E n : tokens' = [tokens EXCEPT !.n = n],
         \/ UNCHANGED <<tokens, taken, doubled>>
         \/ \E code, row : VerifyCode(p, code, row)
  PROVE  TokensMarked'
  <1>1. p # "token"
    BY DEF Purposes
  <1>2. CASE UNCHANGED <<tokens, taken, doubled>>
    BY <1>1, <1>2, CodeTaken
  <1>3. ASSUME NEW code, NEW row, VerifyCode(p, code, row)
        PROVE  TokensMarked'
    <2>1. /\ taken' = taken \cup {<<p, code>>}
          /\ doubled' \subseteq doubled \cup {p}
      BY <1>3 DEF VerifyCode
    <2> QED  BY <1>1, <2>1, CodeTaken
  <1> QED  BY <1>2, <1>3

(***************************************************************************)
(* The routes                                                              *)
(***************************************************************************)
RouteKeeps ==
  UserRow(account)' /\ FirstEmailStays /\ TokensMarked' /\ CallsGood' /\ mailed \subseteq mailed'

\* A route that leaves the account and the tokens alone.
LEMMA RouteAnswers ==
  ASSUME Inv, NEW c \in calls, NEW ans, Replies(c, ans), mailed \subseteq mailed',
         UNCHANGED <<account, tokens, taken, doubled>>,
         ans.next = "2fa_required" => <<"login_2fa", c.req.email>> \in mailed',
         ans.next = "enter_code" => <<"registration", "a">> \in mailed'
  PROVE  RouteKeeps
  <1>1. CallsGood'
    BY Answered DEF Inv
  <1>2. TokensMarked'
    BY CodeTaken
  <1> QED  BY <1>1, <1>2, OtherField DEF RouteKeeps

\* Registration.
LEMMA RegisterKeeps ==
  ASSUME Inv, NEW c \in calls,
         RegisterSignedIn(c) \/ RegisterExisting(c) \/ RegisterNew(c)
           \/ RegisterConfirm(c) \/ RegisterResend(c)
  PROVE  RouteKeeps
  <1>1. CASE RegisterSignedIn(c) \/ RegisterResend(c)
    BY <1>1, RouteAnswers
    DEF RegisterSignedIn, RegisterResend, RefusedUnchanged, serverVars, Answer, Plain,
        Error, MailsThenReplies, Mails
  <1>2. CASE RegisterExisting(c)
    <2>1. CASE RefusedUnchanged(c)
      BY <2>1, RouteAnswers DEF RefusedUnchanged, serverVars, Error
    <2>2. CASE ~RefusedUnchanged(c)
      <3>1. PICK seen, want : /\ seen = c.seen.user
                              /\ want = [seen EXCEPT !.password = "registered"]
                              /\ account' = Flush(seen, want)
        BY <1>2, <2>2 DEF RegisterExisting
      <3>2. UserRow(seen) /\ UserRow(want) /\ want.email = seen.email
        BY <1>2, <3>1 DEF RegisterExisting, Runs, AsyncOps, Inv, CallsGood, Good, UserRow
      <3>3. UserRow(account)' /\ FirstEmailStays
        BY <3>1, <3>2, Flushed
      <3>4. UNCHANGED <<tokens, taken, doubled>> /\ mailed \subseteq mailed'
        BY <1>2, <2>2 DEF RegisterExisting, MailsThenReplies, Mails
      <3>5. CallsGood'
        BY <1>2, <2>2, <3>4, Answered
        DEF RegisterExisting, MailsThenReplies, Mails, Inv, Answer, Error
      <3> QED  BY <3>3, <3>4, <3>5, CodeTaken DEF RouteKeeps
    <2> QED  BY <2>1, <2>2
  <1>3. CASE RegisterNew(c)
    <2>1. UserRow(account)' /\ FirstEmailStays
      <3>1. CASE account' = NewAccount
        BY <3>1 DEF UserRow, FirstEmailStays, NewAccount, Slots, None
      <3> QED  BY <1>3, <3>1, OtherField DEF RegisterNew, RefusedUnchanged, serverVars
    <2>2. UNCHANGED <<tokens, taken, doubled>> /\ mailed \subseteq mailed'
      BY <1>3 DEF RegisterNew, Mails, RefusedUnchanged, serverVars
    <2>3. CallsGood'
      BY <1>3, <2>2, Answered
      DEF RegisterNew, RefusedUnchanged, serverVars, Mails, Inv, Answer, Error
    <2> QED  BY <2>1, <2>2, <2>3, CodeTaken DEF RouteKeeps
  <1>4. CASE RegisterConfirm(c)
    <2>1. UserRow(account)' /\ FirstEmailStays
      <3>1. UNCHANGED account \/ \E x : account' = [account EXCEPT !.verified = x]
        BY <1>4 DEF RegisterConfirm
      <3> QED  BY <3>1, OtherField
    <2>2. CallsGood' /\ UNCHANGED mailed
      BY <1>4, Answered DEF RegisterConfirm, Inv, Answer, Plain, Error
    <2>3. TokensMarked'
      <3>1. \/ UNCHANGED <<tokens, taken, doubled>>
            \/ /\ UNCHANGED tokens
               /\ VerifyCode("registration", c.req.code, c.seen.row)
        BY <1>4 DEF RegisterConfirm
      <3> QED  BY <3>1, CodeVerified DEF Purposes
    <2> QED  BY <2>1, <2>2, <2>3 DEF RouteKeeps
  <1> QED  BY <1>1, <1>2, <1>3, <1>4

\* Login, the forgotten password and the language.
LEMMA LoginKeeps ==
  ASSUME Inv, NEW c \in calls,
         \/ Login(c) \/ Login2FA(c) \/ LoginResend(c) \/ ForgotSendCode(c)
         \/ ForgotVerify(c) \/ ForgotNewPassword(c) \/ SetLanguage(c)
  PROVE  RouteKeeps
  <1> USE DEF Answer, Plain, Error, RefusedUnchanged, serverVars
  <1>1. CASE Login(c)
    BY <1>1, RouteAnswers DEF Login, MailsThenReplies, Mails
  <1>2. CASE LoginResend(c) \/ ForgotSendCode(c) \/ SetLanguage(c)
    BY <1>2, RouteAnswers DEF LoginResend, ForgotSendCode, SetLanguage,
                              MailsThenReplies, Mails
  <1>3. CASE Login2FA(c) \/ ForgotVerify(c)
    <2>1. UNCHANGED <<account, mailed>>
      BY <1>3 DEF Login2FA, ForgotVerify
    <2>2. CallsGood'
      BY <1>3, <2>1, Answered DEF Login2FA, ForgotVerify, Inv
    <2>3. TokensMarked'
      <3>1. CASE Login2FA(c)
        <4>1. \/ UNCHANGED <<tokens, taken, doubled>>
              \/ /\ UNCHANGED tokens
                 /\ VerifyCode("login_2fa", c.req.code, c.seen.row)
          BY <3>1 DEF Login2FA
        <4> QED  BY <4>1, CodeVerified DEF Purposes
      <3>2. CASE ForgotVerify(c)
        <4>1. \/ UNCHANGED <<tokens, taken, doubled>>
              \/ /\ UNCHANGED tokens \/ \E n : tokens' = [tokens EXCEPT !.n = n]
                 /\ VerifyCode("reset", c.req.code, CodeRow("reset"))
          BY <3>2 DEF ForgotVerify
        <4> QED  BY <4>1, CodeVerified DEF Purposes
      <3> QED  BY <1>3, <3>1, <3>2
    <2> QED  BY <2>1, <2>2, <2>3, OtherField DEF RouteKeeps
  <1>4. CASE ForgotNewPassword(c)
    <2>1. UserRow(account)' /\ FirstEmailStays
      BY <1>4, OtherField DEF ForgotNewPassword
    <2>2. CallsGood' /\ UNCHANGED mailed
      BY <1>4, Answered DEF ForgotNewPassword, Inv
    <2>3. TokensMarked'
      <3>1. CASE c.req.code \in (1..tokens.n) \ tokens.used
        <4>1. /\ tokens' = [tokens EXCEPT !.used = @ \cup {c.req.code}]
              /\ taken' = taken \cup {<<"token", c.req.code>>}
              /\ <<"token", c.req.code>> \notin taken => doubled' = doubled
          BY <1>4, <3>1 DEF ForgotNewPassword
        <4>2. doubled' = doubled
          BY <3>1, <4>1 DEF Inv, TokensMarked
        <4> QED  BY <4>1, <4>2 DEF Inv, TokensMarked, ResetTokenOnce
      <3>2. CASE UNCHANGED <<tokens, taken, doubled>>
        BY <3>2, CodeTaken
      <3> QED  BY <1>4, <3>1, <3>2 DEF ForgotNewPassword
    <2> QED  BY <2>1, <2>2, <2>3 DEF RouteKeeps
  <1> QED  BY <1>1, <1>2, <1>3, <1>4

\* The e-mail slots.
LEMMA EmailRoutesKeep ==
  ASSUME Inv, NEW c \in calls, EmailSendCode(c) \/ EmailConfirm(c) \/ EmailDelete(c)
  PROVE  RouteKeeps
  <1> USE DEF Answer, Plain, Error, RefusedUnchanged, serverVars
  <1>1. CASE RefusedUnchanged(c)
    BY <1>1, RouteAnswers
  <1>2. PICK seen : seen = c.seen.user
    OBVIOUS
  <1>3. CASE EmailSendCode(c) /\ ~RefusedUnchanged(c)
    <2>1. PICK slot, email, want :
            /\ slot = c.req.slot /\ email = c.req.email
            /\ want = [seen EXCEPT !.email[slot] = email, !.verified[slot] = FALSE]
      OBVIOUS
    <2>2. account' = Flush(seen, want)
      BY <1>2, <1>3, <2>1 DEF EmailSendCode
    <2>3. UserRow(seen) /\ email # None
      BY <1>2, <1>3, <2>1
      DEF EmailSendCode, Runs, AsyncOps, Inv, CallsGood, Good
    <2>4. /\ "email" \in DOMAIN want /\ want.email = [seen.email EXCEPT ![slot] = email]
      BY <2>1, <2>3 DEF UserRow
    <2>5. UserRow(want) /\ (want.email[1] # seen.email[1] => want.email[1] # None)
      BY <2>3, <2>4 DEF UserRow, Slots
    <2>6. UserRow(account)' /\ FirstEmailStays
      BY <2>2, <2>3, <2>5, Flushed
    <2>7. UNCHANGED <<tokens, taken, doubled>> /\ mailed \subseteq mailed'
      BY <1>3 DEF EmailSendCode, MailsThenReplies, Mails
    <2>8. CallsGood'
      BY <1>3, <2>7, Answered DEF EmailSendCode, MailsThenReplies, Inv
    <2> QED  BY <2>6, <2>7, <2>8, CodeTaken DEF RouteKeeps
  <1>4. CASE EmailConfirm(c) /\ ~RefusedUnchanged(c)
    <2>1. UserRow(account)' /\ FirstEmailStays
      <3>1. UNCHANGED account
            \/ \E slot, x : account' = [account EXCEPT !.verified[slot] = x]
        BY <1>4 DEF EmailConfirm
      <3>2. UNCHANGED account \/ \E x : account' = [account EXCEPT !.verified = x]
        BY <3>1
      <3> QED  BY <3>2, OtherField
    <2>2. CallsGood' /\ UNCHANGED mailed
      BY <1>4, Answered DEF EmailConfirm, Inv
    <2>3. TokensMarked'
      <3>1. \/ UNCHANGED <<tokens, taken, doubled>>
            \/ /\ UNCHANGED tokens
               /\ VerifyCode("registration", c.req.code, c.seen.row)
        BY <1>4 DEF EmailConfirm
      <3> QED  BY <3>1, CodeVerified DEF Purposes
    <2> QED  BY <2>1, <2>2, <2>3 DEF RouteKeeps
  <1>5. CASE EmailDelete(c) /\ ~RefusedUnchanged(c)
    <2>1. UNCHANGED <<tokens, taken, doubled, mailed>>
      BY <1>5 DEF EmailDelete
    <2>2. CallsGood'
      BY <1>5, <2>1, Answered DEF EmailDelete, Inv
    <2>3. UserRow(seen) /\ seen.email[1] # None /\ seen.email[2] # None
      BY <1>2, <1>5
      DEF EmailDelete, Runs, AsyncOps, Inv, CallsGood, Good, UserRow, Slots
    <2>4. UserRow(account)' /\ FirstEmailStays
      <3>1. CASE UNCHANGED account
        BY <3>1, OtherField
      <3>2. CASE account' = Flush(seen, WithoutSlot(seen, c.req.slot))
        <4>1. PICK want : want = WithoutSlot(seen, c.req.slot)
          OBVIOUS
        <4>2. "email" \in DOMAIN want /\ DOMAIN want.email = Slots /\ want.email[1] # None
          BY <2>3, <4>1 DEF WithoutSlot, UserRow, Slots
        <4> QED  BY <2>3, <3>2, <4>1, <4>2, Flushed DEF UserRow
      <3> QED  BY <1>2, <1>5, <3>1, <3>2 DEF EmailDelete
    <2> QED  BY <2>1, <2>2, <2>4, CodeTaken DEF RouteKeeps
  <1> QED  BY <1>1, <1>3, <1>4, <1>5

\* The authenticator.
LEMMA TotpRoutesKeep ==
  ASSUME Inv, NEW c \in calls, TotpSetupStart(c) \/ TotpSetupConfirm(c) \/ TotpDisable(c)
  PROVE  RouteKeeps
  <1> USE DEF Answer, Plain, Error, RefusedUnchanged, serverVars
  <1>1. UNCHANGED <<tokens, taken, doubled, mailed>>
    BY DEF TotpSetupStart, TotpSetupConfirm, TotpDisable
  <1>2. CallsGood'
    BY <1>1, Answered DEF TotpSetupStart, TotpSetupConfirm, TotpDisable, Inv
  <1>3. UserRow(account)' /\ FirstEmailStays
    <2>1. CASE UNCHANGED account
      BY <2>1, OtherField
    <2>2. CASE ~UNCHANGED account
      <3>1. PICK seen, want :
              /\ seen = c.seen.user /\ account' = Flush(seen, want)
              /\ \/ \E x : want = [seen EXCEPT !.secret = x, !.on = FALSE]
                 \/ \E x : want = [seen EXCEPT !.on = FALSE, !.secret = x]
                 \/ want = [seen EXCEPT !.on = TRUE]
        BY <2>2 DEF TotpSetupStart, TotpSetupConfirm, TotpDisable
      <3>2. UserRow(seen)
        BY <3>1 DEF TotpSetupStart, TotpSetupConfirm, TotpDisable, Runs, AsyncOps,
                    Inv, CallsGood, Good
      <3>3. "email" \in DOMAIN want /\ want.email = seen.email
        BY <3>1, <3>2 DEF UserRow
      <3> QED  BY <3>1, <3>2, <3>3, Flushed DEF UserRow
    <2> QED  BY <2>1, <2>2
  <1> QED  BY <1>1, <1>2, <1>3, CodeTaken DEF RouteKeeps

\* The password of a signed-in user.
LEMMA PasswordRoutesKeep ==
  ASSUME Inv, NEW c \in calls, PasswordSendCode(c) \/ ChangePassword(c)
  PROVE  RouteKeeps
  <1> USE DEF Answer, Plain, Error, RefusedUnchanged, serverVars
  <1>1. CASE PasswordSendCode(c)
    BY <1>1, RouteAnswers DEF PasswordSendCode, MailsThenReplies, Mails
  <1>2. CASE ChangePassword(c)
    <2>1. UserRow(account)' /\ FirstEmailStays
      <3>1. UNCHANGED account \/ \E x : account' = [account EXCEPT !.password = x]
        BY <1>2 DEF ChangePassword
      <3> QED  BY <3>1, OtherField
    <2>2. CallsGood' /\ UNCHANGED mailed
      BY <1>2, Answered DEF ChangePassword, Inv
    <2>3. TokensMarked'
      <3>1. \/ UNCHANGED <<tokens, taken, doubled>>
            \/ /\ UNCHANGED tokens
               /\ VerifyCode("password_change", c.req.code, c.seen.row)
        BY <1>2 DEF ChangePassword
      <3> QED  BY <3>1, CodeVerified DEF Purposes
    <2> QED  BY <2>1, <2>2, <2>3 DEF RouteKeeps
  <1> QED  BY <1>1, <1>2

\* The server's steps.
LEMMA ServerKeeps ==
  ASSUME Inv, Server
  PROVE  Inv' /\ FirstEmailStays
  <1>1. PICK c \in calls : /\ \/ RouteReads(c) \/ NotAuthenticated(c)
                              \/ AuthRoute(c) \/ SettingsRoute(c) \/ SetLanguage(c)
                           /\ UNCHANGED <<authVars, secVars>>
    BY DEF Server
  <1>2. CASE RouteReads(c)
    <2>1. PICK seen : /\ calls' = (calls \ {c}) \cup {Read(c, seen)}
                      /\ seen.user = account
      BY <1>2 DEF RouteReads
    <2>2. UNCHANGED <<account, tokens, taken, doubled, mailed>>
      BY <1>2 DEF RouteReads, accountVars, serverVars
    <2>3. Good(Read(c, seen))
      <3>1. PICK d : d = Read(c, seen)
        OBVIOUS
      <3>2. /\ {"btn", "req", "owned", "stage", "seen"} \subseteq DOMAIN d
            /\ d.stage = "read" /\ d.seen.user = account /\ d.req = c.req
        BY <2>1, <3>1 DEF Read
      <3> QED  BY <3>1, <3>2 DEF Inv, CallsGood, Good, IsRead, IsDone
    <2>4. CallsGood'
      <3>1. \A d \in calls' : Good(d)
        BY <2>1, <2>3 DEF Inv, CallsGood
      <3> QED  BY <2>2, <3>1, GoodStays DEF CallsGood
    <2> QED  BY <1>1, <2>2, <2>4, OtherField, CodeTaken
             DEF Inv, EntryShown, Step2HasCode, authVars
  <1>3. CASE ~RouteReads(c)
    <2>1. RouteKeeps
      <3>1. CASE NotAuthenticated(c)
        BY <3>1, RouteAnswers DEF NotAuthenticated, HomePage, Plain, Answer, Error,
                                       accountVars, serverVars
      <3> QED
        BY <1>1, <1>3, <3>1, RegisterKeeps, LoginKeeps, EmailRoutesKeep, TotpRoutesKeep,
           PasswordRoutesKeep
        DEF AuthRoute, SettingsRoute
    <2> QED  BY <1>1, <2>1 DEF RouteKeeps, Inv, EntryShown, Step2HasCode, authVars
  <1> QED  BY <1>2, <1>3

(***************************************************************************)
(* The pages                                                               *)
(***************************************************************************)
Quiet == UNCHANGED <<account, tokens, taken, doubled, mailed>>

\* The pages write none of the account, the tokens and the letters.
LEMMA PageKeeps ==
  ASSUME Inv, Quiet, CallsGood', EntryShown'
  PROVE  Inv' /\ FirstEmailStays
  BY OtherField, CodeTaken DEF Quiet, Inv

\* The forms go back to their first step, or stay.
LEMMA EntryStays ==
  ASSUME Inv, Quiet,
         \/ UNCHANGED entry
         \/ \E token : EntryLoads(token)
         \/ \E modal : entry' = Opened(modal)
         \/ \E asked : entry' = [entry EXCEPT !.totpAsked = asked]
  PROVE  EntryShown'
  <1> USE DEF Inv, Quiet, EntryShown, Step2HasCode
  <1>1. CASE UNCHANGED entry
    BY <1>1
  <1>2. CASE \E token : EntryLoads(token)
    BY <1>2 DEF EntryLoads, EntryStart
  <1>3. CASE entry' = RegisterShowStep1(entry)
    BY <1>3 DEF RegisterShowStep1
  <1>4. CASE entry' = LoginShowStep1(entry)
    <2>1. /\ {"login", "pending", "register"} \subseteq DOMAIN entry'
          /\ entry'.login = 1 /\ entry'.register = entry.register
      BY <1>4 DEF LoginShowStep1
    <2> QED  BY <2>1
  <1>5. CASE \E asked : entry' = [entry EXCEPT !.totpAsked = asked]
    BY <1>5
  <1> QED  BY <1>1, <1>2, <1>3, <1>4, <1>5 DEF Opened

\* The document is replaced.
LEMMA LeaveKeeps ==
  ASSUME Inv, Quiet, NEW to, NEW pending, pending \subseteq calls, Leave(to, pending)
  PROVE  CallsGood'
  <1>1. \A d \in calls' : \E c \in calls : d = [c EXCEPT !.owned = FALSE]
    BY DEF Leave
  <1> QED  BY <1>1, CallsOfPage DEF Inv, Quiet

\* An answer is heard, or a call lost.
LEMMA HearKeeps ==
  ASSUME Inv, Quiet, NEW c \in calls, Hears(c) \/ Loses(c)
  PROVE  CallsGood'
  <1>1. \A d \in calls' : d \in calls \/ \E b \in calls : d = [b EXCEPT !.owned = FALSE]
    BY DEF Hears, Loses
  <1> QED  BY <1>1, CallsOfPage DEF Inv, Quiet

\* A button of the pages is pressed.
LEMMA PressKeeps ==
  ASSUME Inv, Quiet, NEW btn, NEW req, Fetch(btn, req),
         req.op = "email_send" => req.email # None
  PROVE  CallsGood'
  BY Fetched DEF Inv, Quiet

\* What users do on the entry pages.
LEMMA AuthUserKeeps ==
  ASSUME Inv, AuthUser
  PROVE  Inv' /\ FirstEmailStays
  <1>1. Quiet
    BY DEF AuthUser, OpenModal, CloseModal, RegisterSubmit, RegisterConfirmClick,
           RegisterResendClick, LoginSubmit, LoginConfirmClick, LoginResendClick,
           ForgotSendClick, ForgotResendClick, ForgotVerifyClick, NewPasswordClick,
           LanguageClick, PostResend, accountVars, serverVars, Quiet
  <1>2. EntryShown'
    <2>1. UNCHANGED entry \/ \E modal : entry' = Opened(modal)
      BY DEF AuthUser, OpenModal, CloseModal, RegisterSubmit, RegisterConfirmClick,
             RegisterResendClick, LoginSubmit, LoginConfirmClick, LoginResendClick,
             ForgotSendClick, ForgotResendClick, ForgotVerifyClick, NewPasswordClick,
             LanguageClick, PostResend, authVars
    <2> QED  BY <1>1, <2>1, EntryStays
  <1>3. CallsGood'
    <2>1. CASE UNCHANGED calls
      BY <1>1, <2>1, CallsOfPage DEF Inv, Quiet
    <2>2. ASSUME NEW btn, NEW req, Fetch(btn, req), req.op # "email_send"
          PROVE  CallsGood'
      BY <1>1, <2>2, PressKeeps
    <2>3. ASSUME NEW btn, NEW op, NEW email, op # "email_send", PostResend(btn, op, email)
          PROVE  CallsGood'
      <3>1. PICK req : req = [Request(op) EXCEPT !.email = email]
        OBVIOUS
      <3>2. Fetch(btn, req) /\ req.op = op
        BY <2>3, <3>1 DEF PostResend, Press, Request
      <3> QED  BY <2>2, <2>3, <3>2
    <2>4. UNCHANGED calls
          \/ (\E btn, op, email : op # "email_send" /\ PostResend(btn, op, email))
          \/ (\E btn, req : req.op # "email_send" /\ Fetch(btn, req))
      <3>1. CASE RegisterSubmit
        BY <3>1 DEF RegisterSubmit, Press, Request
      <3>2. CASE RegisterConfirmClick
        BY <3>2 DEF RegisterConfirmClick, Press, Request
      <3>3. CASE RegisterResendClick \/ LoginResendClick \/ ForgotResendClick
        BY <3>3 DEF RegisterResendClick, LoginResendClick, ForgotResendClick
      <3>4. CASE LoginSubmit
        BY <3>4 DEF LoginSubmit, Press, Request
      <3>5. CASE LoginConfirmClick
        BY <3>5 DEF LoginConfirmClick, Press, Request
      <3>6. CASE ForgotSendClick
        BY <3>6 DEF ForgotSendClick, Press, Request
      <3>7. CASE ForgotVerifyClick
        BY <3>7 DEF ForgotVerifyClick, Press, Request
      <3>8. CASE NewPasswordClick
        BY <3>8 DEF NewPasswordClick, Press, Request
      <3>9. CASE LanguageClick
        BY <3>9 DEF LanguageClick, Request
      <3>10. CASE \/ \E modal \in {"registerModal", "loginModal"} : OpenModal(modal)
                  \/ page = "index" /\ CloseModal
        BY <3>10 DEF OpenModal, CloseModal, callVars
      <3> QED  BY <3>1, <3>2, <3>3, <3>4, <3>5, <3>6, <3>7, <3>8, <3>9, <3>10
               DEF AuthUser
    <2> QED  BY <2>1, <2>2, <2>3, <2>4
  <1> QED  BY <1>1, <1>2, <1>3, PageKeeps

\* What users do on the security page.
LEMMA SecurityUserKeeps ==
  ASSUME Inv, SecurityUser
  PROVE  Inv' /\ FirstEmailStays
  <1> USE DEF PressHere, Press, Staying, accountVars, serverVars, authVars, Quiet
  <1>1. ASSUME Quiet, EntryShown', UNCHANGED calls
        PROVE  Inv' /\ FirstEmailStays
    <2>1. CallsGood'
      BY <1>1, CallsOfPage DEF Inv
    <2> QED  BY <1>1, <2>1, PageKeeps
  <1>2. ASSUME NEW btn, NEW req, Fetch(btn, req), UNCHANGED <<entry, accountVars>>,
               req.op = "email_send" => req.email # None
        PROVE  Inv' /\ FirstEmailStays
    <2>1. Quiet
      BY <1>2
    <2> QED  BY <1>2, <2>1, PressKeeps, EntryStays, PageKeeps
  <1>3. CASE PasswordSendClick \/ PasswordResendClick
    <2>1. PICK btn, slot :
            PressHere(btn, [Request("password_send") EXCEPT !.slot = slot])
      BY <1>3 DEF PasswordSendClick, PasswordResendClick
    <2> QED  BY <1>2, <2>1 DEF Request
  <1>4. CASE PasswordConfirmClick
    <2>1. PICK code, totp :
            PressHere("passwordConfirm", [Request("password_change") EXCEPT !.code = code,
                                                                          !.totp = totp])
      BY <1>4 DEF PasswordConfirmClick
    <2> QED  BY <1>2, <2>1 DEF Request
  <1>5. CASE TotpEnableClick
    BY <1>2, <1>5 DEF TotpEnableClick, PostTotp, Request
  <1>6. CASE TotpConfirmClick \/ TotpDisableClick
    <2>1. PICK btn, op, totp : /\ op # "email_send"
                               /\ PressHere(btn, [Request(op) EXCEPT !.totp = totp])
      BY <1>6 DEF TotpConfirmClick, TotpDisableClick, PostTotp
    <2> QED  BY <1>2, <2>1 DEF Request
  <1>7. CASE RecoveryDone
    <2>1. Quiet /\ CallsGood' /\ EntryShown'
      BY <1>7, LeaveKeeps, EntryStays DEF RecoveryDone
    <2> QED  BY <2>1, PageKeeps
  <1>8. ASSUME NEW slot \in Slots, EmailConfirmClick(slot) \/ EmailResendClick(slot)
        PROVE  Inv' /\ FirstEmailStays
    <2>1. GetEmail(slot) # None
      BY DEF GetEmail, None
    <2>2. PICK btn, req : /\ PressHere(btn, req)
                          /\ req.op = "email_send" => req.email # None
      <3>1. ASSUME NEW btn, NEW email, email # None,
                   PressHere(btn, [Request("email_send") EXCEPT !.slot = slot,
                                                               !.email = email])
            PROVE  \E b, req : /\ PressHere(b, req)
                               /\ req.op = "email_send" => req.email # None
        <4>1. PICK req : req = [Request("email_send") EXCEPT !.slot = slot,
                                                             !.email = email]
          OBVIOUS
        <4>2. req.email = email
          BY <4>1 DEF Request
        <4> HIDE DEF PressHere
        <4> QED  BY <3>1, <4>1, <4>2
      <3>2. ASSUME NEW btn, NEW code, NEW totp,
                   PressHere(btn, [Request("email_confirm") EXCEPT !.slot = slot,
                                                       !.code = code, !.totp = totp])
            PROVE  \E b, req : /\ PressHere(b, req)
                               /\ req.op = "email_send" => req.email # None
        <4>1. PICK req : req = [Request("email_confirm") EXCEPT !.slot = slot,
                                                    !.code = code, !.totp = totp]
          OBVIOUS
        <4>2. req.op = "email_confirm"
          BY <4>1 DEF Request
        <4> HIDE DEF PressHere
        <4> QED  BY <3>2, <4>1, <4>2
      <3> HIDE DEF PressHere
      <3> QED  BY <1>8, <2>1, <3>1, <3>2 DEF EmailConfirmClick, EmailResendClick
    <2> QED  BY <1>2, <2>2
  <1>9. ASSUME NEW slot \in Slots, EmailDeleteClick(slot)
        PROVE  Inv' /\ FirstEmailStays
    <2>1. CASE UNCHANGED calls
      BY <1>1, <1>9, <2>1, EntryStays DEF EmailDeleteClick
    <2>2. CASE Press(SlotButton("delete", slot),
                     [Request("email_delete") EXCEPT !.slot = slot])
      BY <1>2, <1>9, <2>2 DEF EmailDeleteClick, Request
    <2> QED  BY <1>9, <2>1, <2>2 DEF EmailDeleteClick
  <1>10. CASE DeleteTotpTyped
    BY <1>2, <1>10 DEF DeleteTotpTyped, Request
  <1>11. CASE DeleteTotpClose \/ DeleteTotpEscape
    BY <1>1, <1>11, EntryStays DEF DeleteTotpClose, DeleteTotpEscape, CloseModal, callVars
  <1> QED
    BY <1>3, <1>4, <1>5, <1>6, <1>7, <1>8, <1>9, <1>10, <1>11 DEF SecurityUser

\* The answers reach the page.
LEMMA HearsKeep ==
  ASSUME Inv, Hear
  PROVE  Inv' /\ FirstEmailStays
  <1> USE DEF Fails, HearsError, NetworkFails, HearsOk
  <1>1. PICK c \in calls : \/ AuthAnswer(c) /\ UNCHANGED secVars
                           \/ SecurityAnswer(c)
    BY DEF Hear
  <1>2. Quiet
    BY <1>1
    DEF AuthAnswer, RegisterSubmitted, RegisterConfirmed, ResendAnswered, LoginSubmitted,
        LoginConfirmed, ForgotSent, ForgotVerified, NewPasswordSet, LanguageSet,
        SecurityAnswer, PasswordSent, PasswordResent, PasswordConfirmed, TotpStarted,
        TotpConfirmed, TotpDisabled, EmailConfirmAnswered, EmailResent,
        EmailDeleteAnswered, Staying, accountVars, serverVars, Quiet
  <1>3. ASSUME NEW to, Redirects(c, to)
        PROVE  CallsGood'
    BY <1>2, <1>3, LeaveKeeps DEF Redirects
  <1>4. ASSUME Hears(c) \/ Loses(c)
        PROVE  CallsGood'
    BY <1>2, <1>4, HearKeeps
  <1>5. CASE AuthAnswer(c)
    <2>1. CallsGood'
      BY <1>3, <1>4, <1>5
      DEF AuthAnswer, RegisterSubmitted, RegisterConfirmed, ResendAnswered, LoginSubmitted,
          LoginConfirmed, ForgotSent, ForgotVerified, NewPasswordSet, LanguageSet
    <2>2. EntryShown'
      <3>1. CASE entry' = RegisterShowStep2(entry) /\ c.ans.next = "enter_code" /\ Hears(c)
        BY <1>2, <3>1
        DEF Hears, RegisterShowStep2, Inv, CallsGood, Good, Announced, EntryShown,
            Step2HasCode, Quiet
      <3>2. CASE /\ entry' = LoginShowStep2(entry, c.req.email, c.ans.totp)
                 /\ c.ans.next = "2fa_required" /\ Hears(c)
        <4>1. <<"login_2fa", c.req.email>> \in mailed
          BY <3>2 DEF Hears, Inv, CallsGood, Good, Announced
        <4>2. /\ {"login", "pending", "register"} \subseteq DOMAIN entry'
              /\ entry'.pending = c.req.email /\ entry'.register = entry.register
          BY <3>2 DEF LoginShowStep2, Inv, EntryShown
        <4> QED  BY <1>2, <4>1, <4>2 DEF Inv, EntryShown, Step2HasCode, Quiet
      <3>3. CASE \/ UNCHANGED entry
                 \/ \E token : EntryLoads(token)
                 \/ \E asked : entry' = [entry EXCEPT !.totpAsked = asked]
        BY <1>2, <3>3, EntryStays
      <3> QED
        BY <1>5, <3>1, <3>2, <3>3
        DEF AuthAnswer, RegisterSubmitted, RegisterConfirmed, ResendAnswered,
            LoginSubmitted, LoginConfirmed, ForgotSent, ForgotVerified, NewPasswordSet,
            LanguageSet, authVars
    <2> QED  BY <1>2, <2>1, <2>2, PageKeeps
  <1>6. CASE SecurityAnswer(c)
    <2>1. CallsGood'
      BY <1>3, <1>4, <1>6
      DEF SecurityAnswer, PasswordSent, PasswordResent, PasswordConfirmed, TotpStarted,
          TotpConfirmed, TotpDisabled, EmailConfirmAnswered, EmailResent,
          EmailDeleteAnswered, Refused, Released, Rested, ReloadsSecurity
    <2>2. UNCHANGED entry \/ \E token : EntryLoads(token)
      BY <1>6
      DEF SecurityAnswer, PasswordSent, PasswordResent, PasswordConfirmed, TotpStarted,
          TotpConfirmed, TotpDisabled, EmailConfirmAnswered, EmailResent,
          EmailDeleteAnswered, ReloadsSecurity, Staying, authVars
    <2> QED  BY <1>2, <2>1, <2>2, EntryStays, PageKeeps
  <1> QED  BY <1>1, <1>5, <1>6

\* The tab moves on, or time passes.
LEMMA MovesKeep ==
  ASSUME Inv, Navigate \/ Logout \/ Time
  PROVE  Inv' /\ FirstEmailStays
  <1>1. Quiet
    BY DEF Navigate, Logout, Lands, Time, CooldownEnds, CooldownPasses, accountVars,
           serverVars, Quiet
  <1>2. CASE Navigate \/ Logout
    <2>1. PICK to : Leave(to, calls) /\ EntryLoads(0)
      BY <1>2 DEF Navigate, Logout, Lands
    <2> QED  BY <1>1, <2>1, LeaveKeeps, EntryStays, PageKeeps
  <1>3. CASE Time
    <2>1. UNCHANGED <<calls, entry>>
      BY <1>3 DEF Time, CooldownEnds, CooldownPasses, callVars, authVars
    <2>2. CallsGood'
      BY <1>1, <2>1, CallsOfPage DEF Inv, Quiet
    <2> QED  BY <1>1, <2>1, <2>2, EntryStays, PageKeeps
  <1> QED  BY <1>2, <1>3

(***************************************************************************)
(* Theorems                                                                *)
(***************************************************************************)

\* Every step keeps the invariant and the primary address.
LEMMA StepKeeps ==
  ASSUME Inv, [Next]_vars
  PROVE  Inv' /\ FirstEmailStays
  <1>1. CASE UNCHANGED vars
    <2>1. Quiet /\ UNCHANGED <<calls, entry>>
      BY <1>1 DEF vars, callVars, accountVars, serverVars, authVars, Quiet
    <2>2. CallsGood'
      BY <2>1, CallsOfPage DEF Inv, Quiet
    <2> QED  BY <2>1, <2>2, EntryStays, PageKeeps
  <1> QED
    BY <1>1, AuthUserKeeps, SecurityUserKeeps, ServerKeeps, HearsKeep, MovesKeep
    DEF Next, User

\* A visit starts with a request of its own and no letter.
LEMMA Starts ==
  Init => Inv
  <1> SUFFICES ASSUME Init PROVE Inv
    OBVIOUS
  <1>1. PICK v \in Visits :
          /\ account = v.user /\ \E n : tokens = [n |-> n, used |-> {}]
          /\ taken = {} /\ doubled = {} /\ calls = {Sent(1, v.btn, v.req)}
          /\ entry = [EntryStart EXCEPT !.token = tokens.n]
    BY DEF Init
  <1>2. UserRow(account)
    BY <1>1, VisitsStart DEF UserRow, Users
  <1>3. CallsGood
    <2>1. v.req.op = "email_send" => v.req.email # None
      BY VisitsStart DEF Emails, None
    <2> QED  BY <1>1, <2>1 DEF CallsGood, Good, Sent, IsRead, IsDone
  <1>4. TokensMarked
    BY <1>1 DEF TokensMarked, ResetTokenOnce
  <1>5. EntryShown
    BY <1>1 DEF EntryShown, Step2HasCode, EntryStart
  <1> QED  BY <1>2, <1>3, <1>4, <1>5 DEF Inv

\* /forgot/new-password accepts a reset token once, however often the request for it
\* is repeated and whichever of its answers are lost.
THEOREM TokenAcceptedOnce ==
  Spec => []ResetTokenOnce
  <1>1. Inv => ResetTokenOnce
    BY DEF Inv, TokensMarked
  <1> QED  BY <1>1, Starts, StepKeeps, PTL DEF Spec

\* showStep2 of the login and the registration form: no form asks for a code unless
\* one was mailed to the address it holds, however late the answers come.
THEOREM CodeAskedWasMailed ==
  Spec => []Step2HasCode
  <1>1. Inv => Step2HasCode
    BY DEF Inv, EntryShown
  <1> QED  BY <1>1, Starts, StepKeeps, PTL DEF Spec

\* emails/delete and emails/send-code work on rows read before: in any order of any
\* number of them the account keeps its primary address.
THEOREM PrimaryEmailKept ==
  Spec => LastEmailKept
  <1>1. Inv /\ [Next]_vars => [account.email[1] # None => account'.email[1] # None]_vars
    BY StepKeeps DEF FirstEmailStays
  <1> QED  BY <1>1, Starts, StepKeeps, PTL DEF Spec, LastEmailKept

(***************************************************************************)
(* No button is dead                                                       *)
(***************************************************************************)
Waits(btn) == \E c \in calls : c.owned /\ c.btn = btn
PendingWaits == \A btn \in locked \ KeptPending : Waits(btn)

\* A call stays awaited while the server works on it.
LEMMA ServerLeavesPending ==
  ASSUME PendingWaits, Server
  PROVE  PendingWaits'
  <1>1. PICK c \in calls : \/ RouteReads(c) \/ NotAuthenticated(c)
                           \/ AuthRoute(c) \/ SettingsRoute(c) \/ SetLanguage(c)
    BY DEF Server
  <1>2. UNCHANGED locked
    BY <1>1
    DEF RouteReads, NotAuthenticated, AuthRoute, RegisterSignedIn, RegisterExisting,
        RegisterNew, RegisterConfirm, RegisterResend, Login, Login2FA, LoginResend,
        ForgotSendCode, ForgotVerify, ForgotNewPassword, SettingsRoute, EmailSendCode,
        EmailConfirm, EmailDelete, TotpSetupStart, TotpSetupConfirm, TotpDisable,
        PasswordSendCode, ChangePassword, SetLanguage, Runs
  <1>3. \/ \E seen : calls' = (calls \ {c}) \cup {Read(c, seen)}
        \/ \E ans : Replies(c, ans)
    <2>1. CASE RouteReads(c) \/ NotAuthenticated(c) \/ SetLanguage(c)
      BY <2>1 DEF RouteReads, NotAuthenticated, SetLanguage
    <2>2. CASE AuthRoute(c)
      BY <2>2
      DEF AuthRoute, RegisterSignedIn, RegisterExisting, RegisterNew, RegisterConfirm,
          RegisterResend, Login, Login2FA, LoginResend, ForgotSendCode, ForgotVerify,
          ForgotNewPassword, RefusedUnchanged, MailsThenReplies
    <2>3. CASE SettingsRoute(c)
      BY <2>3
      DEF SettingsRoute, EmailSendCode, EmailConfirm, EmailDelete, TotpSetupStart,
          TotpSetupConfirm, TotpDisable, PasswordSendCode, ChangePassword,
          RefusedUnchanged, MailsThenReplies
    <2> QED  BY <1>1, <2>1, <2>2, <2>3
  <1>4. /\ \A b \in calls : b # c => b \in calls'
        /\ c.owned => \E d \in calls' : d.owned /\ d.btn = c.btn
    <2>1. CASE \E seen : calls' = (calls \ {c}) \cup {Read(c, seen)}
      <3>1. PICK seen : calls' = (calls \ {c}) \cup {Read(c, seen)}
        BY <2>1
      <3>2. Read(c, seen).owned = c.owned /\ Read(c, seen).btn = c.btn
        BY DEF Read
      <3> QED  BY <3>1, <3>2
    <2>2. CASE \E ans : Replies(c, ans)
      <3>1. PICK ans : Replies(c, ans)
        BY <2>2
      <3>2. Done(c, ans).owned = c.owned /\ Done(c, ans).btn = c.btn
        BY DEF Done
      <3> QED  BY <3>1, <3>2 DEF Replies
    <2> QED  BY <1>3, <2>1, <2>2
  <1> QED  BY <1>2, <1>4 DEF PendingWaits, Waits

\* A call that is heard or lost releases its button, or belongs to one that is kept.
LEMMA HearingReleases ==
  ASSUME PendingWaits, NEW c \in calls, calls \ {c} \subseteq calls',
         locked' \subseteq locked, c.btn \notin locked' \/ c.btn \in KeptPending
  PROVE  PendingWaits'
  BY DEF PendingWaits, Waits

\* A fetch, with or without a lock.
LEMMA FetchingWaits ==
  ASSUME PendingWaits, NEW btn, NEW req, Fetch(btn, req), locked' \subseteq locked \cup {btn}
  PROVE  PendingWaits'
  <1>1. PICK id : calls' = calls \cup {Sent(id, btn, req)}
    BY DEF Fetch
  <1>2. Sent(id, btn, req) \in calls' /\ Sent(id, btn, req).owned
        /\ Sent(id, btn, req).btn = btn
    BY <1>1 DEF Sent
  <1> QED  BY <1>1, <1>2 DEF PendingWaits, Waits

\* A step that only locks a button of the kept ones, or releases some.
LEMMA LockingWaits ==
  ASSUME PendingWaits, UNCHANGED calls, locked' \subseteq locked \cup KeptPending
  PROVE  PendingWaits'
  BY DEF PendingWaits, Waits

\* The answers of the two pages.
LEMMA HearLeavesPending ==
  ASSUME PendingWaits, Hear
  PROVE  PendingWaits'
  <1>1. PICK c \in calls : AuthAnswer(c) \/ SecurityAnswer(c)
    BY DEF Hear
  <1>2. CASE locked' = {}
    BY <1>2 DEF PendingWaits
  <1>3. ASSUME Hears(c) \/ Loses(c)
        PROVE  calls \ {c} \subseteq calls'
    BY <1>3 DEF Hears, Loses
  <1>4. CASE \/ Fails(c)
             \/ HearsOk(c) /\ UnlockActionButton(c.btn)
             \/ HearsOk(c) /\ StartResendCooldown(c.btn)
    <2>1. locked' = locked \ {c.btn} /\ (Hears(c) \/ Loses(c))
      BY <1>4 DEF Fails, HearsError, NetworkFails, HearsOk, UnlockActionButton,
                  StartResendCooldown
    <2> QED  BY <1>3, <2>1, HearingReleases
  <1>5. CASE AuthAnswer(c)
    BY <1>2, <1>4, <1>5
    DEF AuthAnswer, RegisterSubmitted, RegisterConfirmed, ResendAnswered, LoginSubmitted,
        LoginConfirmed, ForgotSent, ForgotVerified, NewPasswordSet, LanguageSet, Fails,
        Redirects, Leave
  <1>6. CASE PasswordConfirmed(c)
    <2>1. CASE Hears(c) /\ UNCHANGED locked
      BY <1>3, <1>6, <2>1, HearingReleases DEF PasswordConfirmed, KeptPending
    <2> QED  BY <1>4, <1>6, <2>1 DEF PasswordConfirmed, Refused, HearsOk
  <1>7. CASE SecurityAnswer(c) /\ ~PasswordConfirmed(c)
    BY <1>2, <1>4, <1>7
    DEF SecurityAnswer, PasswordSent, PasswordResent, TotpStarted, TotpConfirmed,
        TotpDisabled, EmailConfirmAnswered, EmailResent, EmailDeleteAnswered, Refused,
        Released, Rested, ReloadsSecurity, Redirects, Leave
  <1> QED  BY <1>1, <1>5, <1>6, <1>7

\* The clicks of the two pages.
LEMMA UserLeavesPending ==
  ASSUME PendingWaits, User \/ Time
  PROVE  PendingWaits'
  <1> USE DEF PressHere, Press, LockActionButton
  <1>1. CASE locked' = {}
    BY <1>1 DEF PendingWaits
  <1>2. ASSUME NEW btn, NEW req, Fetch(btn, req), locked' \subseteq locked \cup {btn}
        PROVE  PendingWaits'
    BY <1>2, FetchingWaits
  <1>3. CASE UNCHANGED calls /\ locked' \subseteq locked \cup KeptPending
    BY <1>3, LockingWaits
  <1>4. CASE AuthUser
    BY <1>2, <1>3, <1>4
    DEF AuthUser, OpenModal, CloseModal, RegisterSubmit, RegisterConfirmClick,
        RegisterResendClick, LoginSubmit, LoginConfirmClick, LoginResendClick,
        ForgotSendClick, ForgotResendClick, ForgotVerifyClick, NewPasswordClick,
        LanguageClick, PostResend, callVars
  <1>5. CASE \/ PasswordSendClick \/ PasswordResendClick \/ PasswordConfirmClick
             \/ TotpEnableClick \/ TotpConfirmClick \/ TotpDisableClick
    BY <1>2, <1>5
    DEF PasswordSendClick, PasswordResendClick, PasswordConfirmClick, TotpEnableClick,
        TotpConfirmClick, TotpDisableClick, PostTotp
  <1>6. CASE \E slot \in Slots : EmailConfirmClick(slot) \/ EmailResendClick(slot)
    BY <1>2, <1>6 DEF EmailConfirmClick, EmailResendClick
  <1>7. CASE \E slot \in Slots : EmailDeleteClick(slot)
    <2>1. PICK slot \in Slots : EmailDeleteClick(slot)
      BY <1>7
    <2>2. SlotButton("delete", slot) \in KeptPending
      BY DEF KeptPending
    <2> QED  BY <1>2, <1>3, <2>1, <2>2 DEF EmailDeleteClick
  <1>8. CASE RecoveryDone \/ Navigate \/ Logout
    BY <1>1, <1>8 DEF RecoveryDone, Navigate, Logout, Lands, Leave
  <1>9. CASE DeleteTotpTyped
    BY <1>2, <1>9 DEF DeleteTotpTyped
  <1>10. CASE DeleteTotpClose \/ DeleteTotpEscape \/ Time
    BY <1>3, <1>10
    DEF DeleteTotpClose, DeleteTotpEscape, CloseModal, Time, CooldownEnds, CooldownPasses,
        callVars
  <1> QED
    BY <1>4, <1>5, <1>6, <1>7, <1>8, <1>9, <1>10 DEF User, SecurityUser

\* lockActionButton and unlockActionButton: a button that is marked pending is one a
\* call on its way will release, whatever the user does meanwhile, but for the ones
\* whose handlers keep them pending.
THEOREM NoDeadButton ==
  Spec => []PendingIsAwaited
  <1>1. Init => PendingWaits
    <2> SUFFICES ASSUME Init PROVE PendingWaits
      OBVIOUS
    <2>1. PICK v \in Visits : calls = {Sent(1, v.btn, v.req)} /\ locked = {v.btn}
      BY DEF Init
    <2>2. Sent(1, v.btn, v.req).owned /\ Sent(1, v.btn, v.req).btn = v.btn
      BY DEF Sent
    <2> QED  BY <2>1, <2>2 DEF PendingWaits, Waits
  <1>2. PendingWaits /\ [Next]_vars => PendingWaits'
    <2> SUFFICES ASSUME PendingWaits, [Next]_vars PROVE PendingWaits'
      OBVIOUS
    <2>1. CASE UNCHANGED vars
      BY <2>1, LockingWaits DEF vars, callVars
    <2> QED
      BY <2>1, UserLeavesPending, ServerLeavesPending, HearLeavesPending DEF Next
  <1>3. PendingWaits => PendingIsAwaited
    BY DEF PendingWaits, PendingIsAwaited, Waits, Awaited
  <1> QED  BY <1>1, <1>2, <1>3, PTL DEF Spec

(***************************************************************************)
(* The invariant of the codes and the authenticator                        *)
(***************************************************************************)

\* The requests whose button lets at most one of them be on its way.
Guard ==
  [login_2fa |-> "loginConfirm", password_change |-> "passwordConfirm",
   totp_start |-> "totpEnable", totp_confirm |-> "totpConfirm",
   totp_disable |-> "totpDisable"]

Guarded(c) ==
  \A op \in DOMAIN Guard :
    /\ c.req.op = op <=> c.btn = Guard[op]
    /\ c.req.op = op => c.btn \in locked /\ \A d \in calls : d.req.op = op => d = c

OneEach == \A c \in calls : c.owned /\ Guarded(c)

\* A code that was taken is no longer the live one.
CodesKept ==
  /\ DOMAIN codes = Purposes
  /\ \A p \in Purposes :
       /\ {"n", "live", "tries"} \subseteq DOMAIN codes[p] /\ codes[p].n \in Nat
       /\ \A n : <<p, n>> \in taken =>
                   n \in 1..codes[p].n /\ ~(codes[p].live /\ n = codes[p].n)

\* The code row a call has read is one that exists.
RowsKept ==
  \A c \in calls :
    IsRead(c) => c.seen.row.live \in 0..codes[PurposeOf(c.req.op)].n

\* The code a call has read as unused is still unused.
RowsFresh ==
  \A c \in calls :
    IsRead(c) /\ c.req.op \in {"login_2fa", "password_change"}
      => <<PurposeOf(c.req.op), c.seen.row.live>> \notin taken

CodesOnce == OneEach /\ RowsFresh /\ doubled \subseteq {"registration"}

(***************************************************************************)
(* One request for each guarded button                                     *)
(***************************************************************************)

\* The server works on a call.
LEMMA OneServed ==
  ASSUME OneEach, NEW c \in calls, UNCHANGED locked, NEW d,
         d.btn = c.btn, d.req = c.req, d.owned = c.owned,
         calls' \subseteq (calls \ {c}) \cup {d}
  PROVE  OneEach'
  BY DEF OneEach, Guarded

\* The request that leaves with a fetch.
LEMMA SentOff ==
  ASSUME NEW btn, NEW req, Fetch(btn, req)
  PROVE  \E d : /\ calls' = calls \cup {d} /\ d.owned /\ IsSent(d)
                /\ d.btn = btn /\ d.req = req
  <1>1. PICK id : calls' = calls \cup {Sent(id, btn, req)}
    BY DEF Fetch
  <1>2. PICK d : d = Sent(id, btn, req)
    OBVIOUS
  <1>3. d.owned /\ IsSent(d) /\ d.btn = btn /\ d.req = req
    BY <1>2 DEF Sent, IsSent
  <1> QED  BY <1>1, <1>2, <1>3

\* A button that is not pending is pressed.
LEMMA OnePressed ==
  ASSUME OneEach, NEW btn, NEW req, Fetch(btn, req), LockActionButton(btn),
         \A op \in DOMAIN Guard : req.op = op <=> btn = Guard[op]
  PROVE  OneEach'
  <1>1. PICK d : calls' = calls \cup {d} /\ d.owned /\ d.btn = btn /\ d.req = req
    BY SentOff
  <1>2. ASSUME NEW op \in DOMAIN Guard, NEW c \in calls, c.req.op = op
        PROVE  req.op # op
    BY <1>2 DEF OneEach, Guarded, LockActionButton
  <1> QED  BY <1>1, <1>2 DEF OneEach, Guarded, LockActionButton

\* A request of another kind leaves.
LEMMA OneFetched ==
  ASSUME OneEach, NEW btn, NEW req, Fetch(btn, req), locked \subseteq locked',
         \A op \in DOMAIN Guard : req.op # op /\ btn # Guard[op]
  PROVE  OneEach'
  <1>1. PICK d : calls' = calls \cup {d} /\ d.owned /\ d.btn = btn /\ d.req = req
    BY SentOff
  <1> QED  BY <1>1 DEF OneEach, Guarded

\* A call ends with its button, whatever becomes of that.
LEMMA OneHeard ==
  ASSUME OneEach, NEW c \in calls, calls' \subseteq calls \ {c},
         locked \ {c.btn} \subseteq locked'
  PROVE  OneEach'
  BY DEF OneEach, Guarded

\* Buttons of another kind are locked or released.
LEMMA OneStays ==
  ASSUME OneEach, calls' \subseteq calls, NEW btn, locked \ {btn} \subseteq locked',
         \A op \in DOMAIN Guard : btn # Guard[op]
  PROVE  OneEach'
  BY DEF OneEach, Guarded

(***************************************************************************)
(* Codes                                                                   *)
(***************************************************************************)

\* A new code.
LEMMA CodeCreated ==
  ASSUME CodesKept, NEW p \in Purposes, CreateCode(p), UNCHANGED taken
  PROVE  CodesKept' /\ \A q \in Purposes : codes[q].n <= codes'[q].n
  BY DEF CodesKept, CreateCode

\* A code that is refused.
LEMMA CodeRefused ==
  ASSUME CodesKept, NEW p \in Purposes, NEW code, NEW row, VerifyCodeFails(p, code, row),
         UNCHANGED taken
  PROVE  CodesKept' /\ \A q \in Purposes : codes'[q].n = codes[q].n
  <1>1. \/ UNCHANGED codes
        \/ \E t : codes' = [codes EXCEPT ![p].tries = t]
        \/ codes' = [codes EXCEPT ![p].live = @ /\ code # row.live]
    BY DEF VerifyCodeFails
  <1>2. CASE UNCHANGED codes
    BY <1>2 DEF CodesKept
  <1>3. CASE \E t : codes' = [codes EXCEPT ![p].tries = t]
    BY <1>3 DEF CodesKept
  <1>4. CASE codes' = [codes EXCEPT ![p].live = @ /\ code # row.live]
    <2>1. \A q \in Purposes : /\ codes'[q].n = codes[q].n
                              /\ {"n", "live", "tries"} \subseteq DOMAIN codes'[q]
                              /\ codes'[q].live => codes[q].live
      BY <1>4 DEF CodesKept
    <2>2. DOMAIN codes' = Purposes
      BY <1>4 DEF CodesKept
    <2> QED  BY <2>1, <2>2 DEF CodesKept
  <1> QED  BY <1>1, <1>2, <1>3, <1>4

\* A code that is taken.
LEMMA CodeAccepted ==
  ASSUME CodesKept, NEW p \in Purposes, NEW code, NEW row, VerifyCode(p, code, row),
         row.live \in 0..codes[p].n
  PROVE  CodesKept' /\ \A q \in Purposes : codes[q].n <= codes'[q].n
  <1>1. code \in 1..codes[p].n
    BY DEF VerifyCode, CodeMatches, WrongCode, CodesKept
  <1>2. codes' = [codes EXCEPT ![p].live = @ /\ code # codes[p].n]
    BY DEF VerifyCode
  <1>3. \A q \in Purposes : /\ codes'[q].n = codes[q].n
                            /\ {"n", "live", "tries"} \subseteq DOMAIN codes'[q]
                            /\ codes'[q].live => codes[q].live
    BY <1>2 DEF CodesKept
  <1>4. codes'[p].live => code # codes[p].n
    BY <1>2 DEF CodesKept
  <1>5. taken' = taken \cup {<<p, code>>}
    BY DEF VerifyCode
  <1>6. DOMAIN codes' = Purposes
    BY <1>2 DEF CodesKept
  <1> QED  BY <1>1, <1>3, <1>4, <1>5, <1>6 DEF CodesKept

\* What a route does to the codes.
CodeStep(c) ==
  \/ UNCHANGED <<codes, taken, doubled>>
  \/ \E p \in Purposes : CreateCode(p) /\ UNCHANGED <<taken, doubled>>
  \/ \E p \in Purposes : \E row : VerifyCodeFails(p, c.req.code, row)
                              /\ UNCHANGED <<taken, doubled>>
  \/ \E p \in Purposes : \E row :
       /\ VerifyCode(p, c.req.code, row)
       /\ \/ /\ IsRead(c) /\ row = c.seen.row /\ p = PurposeOf(c.req.op)
             /\ p # "registration" => c.req.op \in {"login_2fa", "password_change"}
          \/ p = "reset" /\ row = CodeRow(p)
  \/ /\ UNCHANGED codes
     /\ \E t : taken' = taken \cup {<<"token", t>>}
     /\ doubled' \subseteq doubled \cup {"token"}

\* Every route is one of these.
LEMMA RoutesOfCodes ==
  ASSUME NEW c, \/ RouteReads(c) \/ NotAuthenticated(c)
                \/ AuthRoute(c) \/ SettingsRoute(c) \/ SetLanguage(c)
  PROVE  CodeStep(c)
  <1> USE DEF RefusedUnchanged, serverVars, accountVars
  <1>1. ASSUME NEW p \in Purposes, CreateCode(p), UNCHANGED <<taken, doubled>>
        PROVE  CodeStep(c)
    BY <1>1 DEF CodeStep
  <1>2. ASSUME NEW p \in Purposes, NEW row, VerifyCodeFails(p, c.req.code, row),
               UNCHANGED <<taken, doubled>>
        PROVE  CodeStep(c)
    BY <1>2 DEF CodeStep
  <1>3. ASSUME NEW p \in Purposes, VerifyCode(p, c.req.code, c.seen.row), IsRead(c),
               p = PurposeOf(c.req.op),
               p # "registration" => c.req.op \in {"login_2fa", "password_change"}
        PROVE  CodeStep(c)
    BY <1>3 DEF CodeStep
  <1>4. CASE UNCHANGED <<codes, taken, doubled>>
    BY <1>4 DEF CodeStep
  <1>5. CASE RouteReads(c) \/ NotAuthenticated(c) \/ SetLanguage(c) \/ RegisterSignedIn(c)
    BY <1>4, <1>5 DEF RouteReads, NotAuthenticated, SetLanguage, RegisterSignedIn
  <1>6. CASE RegisterExisting(c) \/ RegisterNew(c) \/ RegisterResend(c)
    BY <1>1, <1>4, <1>6
    DEF RegisterExisting, RegisterNew, RegisterResend, ActiveOrNewCode, Purposes
  <1>7. CASE RegisterConfirm(c)
    BY <1>2, <1>3, <1>7 DEF RegisterConfirm, Runs, AsyncOps, PurposeOf, Purposes
  <1>8. CASE Login(c) \/ LoginResend(c) \/ ForgotSendCode(c)
    BY <1>1, <1>4, <1>8 DEF Login, LoginResend, ForgotSendCode, Purposes
  <1>9. CASE Login2FA(c)
    BY <1>2, <1>3, <1>4, <1>9 DEF Login2FA, Runs, AsyncOps, PurposeOf, Purposes
  <1>10. CASE ForgotVerify(c)
    <2>1. ASSUME VerifyCode("reset", c.req.code, CodeRow("reset"))
          PROVE  CodeStep(c)
      BY <2>1 DEF CodeStep, Purposes
    <2> QED  BY <1>2, <1>4, <1>10, <2>1 DEF ForgotVerify, Purposes
  <1>11. CASE ForgotNewPassword(c)
    BY <1>4, <1>11 DEF ForgotNewPassword, CodeStep
  <1>12. CASE EmailSendCode(c) \/ EmailDelete(c) \/ PasswordSendCode(c)
    BY <1>1, <1>4, <1>12 DEF EmailSendCode, EmailDelete, PasswordSendCode, Purposes
  <1>13. CASE EmailConfirm(c)
    BY <1>2, <1>3, <1>4, <1>13 DEF EmailConfirm, Runs, AsyncOps, PurposeOf, Purposes
  <1>14. CASE TotpSetupStart(c) \/ TotpSetupConfirm(c) \/ TotpDisable(c)
    BY <1>4, <1>14 DEF TotpSetupStart, TotpSetupConfirm, TotpDisable
  <1>15. CASE ChangePassword(c)
    BY <1>2, <1>3, <1>15 DEF ChangePassword, Runs, AsyncOps, PurposeOf, Purposes
  <1> QED
    BY <1>5, <1>6, <1>7, <1>8, <1>9, <1>10, <1>11, <1>12, <1>13, <1>14, <1>15
    DEF AuthRoute, SettingsRoute

\* The codes of every purpose only get more.
LEMMA CodesStep ==
  ASSUME CodesKept, RowsKept, NEW c \in calls, CodeStep(c)
  PROVE  CodesKept' /\ \A p \in Purposes : codes[p].n <= codes'[p].n
  <1>1. CASE /\ UNCHANGED codes
              /\ \A p \in Purposes : \A n : <<p, n>> \in taken' => <<p, n>> \in taken
    BY <1>1 DEF CodesKept
  <1>3. ASSUME NEW p \in Purposes, NEW row, VerifyCode(p, c.req.code, row),
               \/ IsRead(c) /\ row = c.seen.row /\ p = PurposeOf(c.req.op)
               \/ p = "reset" /\ row = CodeRow(p)
        PROVE  row.live \in 0..codes[p].n
    <2>1. CASE IsRead(c) /\ row = c.seen.row /\ p = PurposeOf(c.req.op)
      BY <2>1 DEF RowsKept
    <2>2. CASE row = CodeRow(p)
      <3>1. row.live = LiveCode(p)
        BY <2>2 DEF CodeRow
      <3> QED  BY <3>1 DEF LiveCode, CodesKept
    <2> QED  BY <1>3, <2>1, <2>2
  <1>4. CASE UNCHANGED codes /\ \E t : taken' = taken \cup {<<"token", t>>}
    <2>1. \A p \in Purposes : \A n : <<p, n>> \in taken' => <<p, n>> \in taken
      BY <1>4 DEF Purposes
    <2> QED  BY <1>1, <1>4, <2>1
  <1>5. CASE UNCHANGED <<codes, taken>>
    BY <1>1, <1>5
  <1>6. ASSUME NEW p \in Purposes, NEW row, VerifyCode(p, c.req.code, row),
               \/ IsRead(c) /\ row = c.seen.row /\ p = PurposeOf(c.req.op)
               \/ p = "reset" /\ row = CodeRow(p)
        PROVE  CodesKept' /\ \A q \in Purposes : codes[q].n <= codes'[q].n
    <2>1. row.live \in 0..codes[p].n
      BY <1>3, <1>6
    <2> QED  BY <1>6, <2>1, CodeAccepted
  <1>7. ASSUME NEW p \in Purposes, UNCHANGED <<taken, doubled>>,
               CreateCode(p) \/ \E row : VerifyCodeFails(p, c.req.code, row)
        PROVE  CodesKept' /\ \A q \in Purposes : codes[q].n <= codes'[q].n
    BY <1>7, CodeCreated, CodeRefused DEF CodesKept
  <1> QED  BY <1>4, <1>5, <1>6, <1>7 DEF CodeStep

\* What becomes of a call that the server works on.
Becomes(c, d) ==
  /\ d.btn = c.btn /\ d.req = c.req /\ d.owned = c.owned
  /\ calls' = (calls \ {c}) \cup (IF IsDone(d) /\ ~c.owned THEN {} ELSE {d})
  /\ \/ IsDone(d) /\ ~IsRead(d)
     \/ /\ IsRead(d) /\ ~IsDone(d) /\ d.seen.user = account
        /\ d.seen.row = CodeRow(PurposeOf(c.req.op)) /\ d.seen.signedIn = session
        /\ UNCHANGED accountVars

LEMMA RepliesBecomes ==
  ASSUME NEW c, NEW ans, Replies(c, ans)
  PROVE  \E d : Becomes(c, d) /\ IsDone(d) /\ d.ans = ans
  <1>1. PICK d : d = Done(c, ans)
    OBVIOUS
  <1>2. /\ d.btn = c.btn /\ d.req = c.req /\ d.owned = c.owned
        /\ d.stage = "done" /\ d.ans = ans
    BY <1>1 DEF Done
  <1> QED  BY <1>1, <1>2 DEF Becomes, Replies, IsDone, IsRead

LEMMA Served ==
  ASSUME NEW c, \/ RouteReads(c) \/ NotAuthenticated(c)
                \/ AuthRoute(c) \/ SettingsRoute(c) \/ SetLanguage(c)
  PROVE  /\ UNCHANGED <<page, locked, orphaned, held>>
         /\ \E d : Becomes(c, d)
  <1>1. UNCHANGED <<page, locked, orphaned, held>>
    BY DEF RouteReads, NotAuthenticated, AuthRoute, RegisterSignedIn, RegisterExisting,
        RegisterNew, RegisterConfirm, RegisterResend, Login, Login2FA, LoginResend,
        ForgotSendCode, ForgotVerify, ForgotNewPassword, SettingsRoute, EmailSendCode,
        EmailConfirm, EmailDelete, TotpSetupStart, TotpSetupConfirm, TotpDisable,
        PasswordSendCode, ChangePassword, SetLanguage, Runs, accountVars
  <1>2. CASE RouteReads(c)
    <2>1. PICK seen : /\ seen = [user |-> account, row |-> CodeRow(PurposeOf(c.req.op)),
                                 signedIn |-> session]
                      /\ calls' = (calls \ {c}) \cup {Read(c, seen)}
      BY <1>2 DEF RouteReads
    <2>2. PICK d : d = Read(c, seen)
      OBVIOUS
    <2>3. /\ d.btn = c.btn /\ d.req = c.req /\ d.owned = c.owned
          /\ d.stage = "read" /\ d.seen = seen
      BY <2>2 DEF Read
    <2>4. UNCHANGED accountVars
      BY <1>2 DEF RouteReads
    <2> QED  BY <1>1, <2>1, <2>2, <2>3, <2>4 DEF Becomes, IsDone, IsRead
  <1>3. CASE \E ans : Replies(c, ans)
    BY <1>1, <1>3, RepliesBecomes
  <1>4. CASE NotAuthenticated(c) \/ SetLanguage(c)
    BY <1>3, <1>4 DEF NotAuthenticated, SetLanguage
  <1>5. CASE AuthRoute(c)
    BY <1>3, <1>5
    DEF AuthRoute, RegisterSignedIn, RegisterExisting, RegisterNew, RegisterConfirm,
        RegisterResend, Login, Login2FA, LoginResend, ForgotSendCode, ForgotVerify,
        ForgotNewPassword, RefusedUnchanged, MailsThenReplies
  <1>6. CASE SettingsRoute(c)
    BY <1>3, <1>6
    DEF SettingsRoute, EmailSendCode, EmailConfirm, EmailDelete, TotpSetupStart,
        TotpSetupConfirm, TotpDisable, PasswordSendCode, ChangePassword, RefusedUnchanged,
        MailsThenReplies
  <1> QED  BY <1>2, <1>4, <1>5, <1>6

\* The rows that calls have read stay those of codes that exist.
LEMMA RowsServed ==
  ASSUME CodesKept, RowsKept, NEW c \in calls, CodeStep(c), NEW d, Becomes(c, d)
  PROVE  RowsKept'
  <1>1. \A op : PurposeOf(op) \in Purposes
    BY DEF PurposeOf, Purposes
  <1> SUFFICES ASSUME NEW b \in calls', IsRead(b)
               PROVE  b.seen.row.live \in 0..codes'[PurposeOf(b.req.op)].n
    BY DEF RowsKept, IsRead
  <1>2. PICK p \in Purposes : p = PurposeOf(b.req.op)
    BY <1>1
  <1>3. codes[p].n \in Nat /\ codes'[p].n \in Nat /\ codes[p].n <= codes'[p].n
    BY CodesStep DEF CodesKept
  <1>4. CASE b \in calls
    BY <1>2, <1>3, <1>4 DEF RowsKept
  <1>5. CASE b = d /\ b \notin calls
    <2>1. b.seen.row.live = LiveCode(p) /\ UNCHANGED codes
      BY <1>2, <1>5 DEF Becomes, CodeRow, accountVars, serverVars
    <2> QED  BY <1>2, <1>3, <2>1 DEF LiveCode
  <1> QED  BY <1>4, <1>5 DEF Becomes

\* A code that was read as unused is taken by the call that has read it alone.
LEMMA OnceServed ==
  ASSUME Inv, ResetTokenOnce', CodesKept, RowsKept, CodesOnce, NEW c \in calls,
         CodeStep(c), UNCHANGED locked, NEW d, Becomes(c, d)
  PROVE  CodesOnce'
  <1>1. OneEach'
    BY OneServed DEF Becomes, CodesOnce
  <1>2. ASSUME NEW b \in calls', b \in calls, b # c, IsRead(b),
               b.req.op \in {"login_2fa", "password_change"}
        PROVE  <<PurposeOf(b.req.op), b.seen.row.live>> \notin taken'
    <2>1. PICK p, n : p = PurposeOf(b.req.op) /\ n = b.seen.row.live
      OBVIOUS
    <2>2. <<p, n>> \notin taken /\ p \in {"login_2fa", "password_change"}
      BY <1>2, <2>1 DEF CodesOnce, RowsFresh, PurposeOf
    <2>3. c.req.op # b.req.op
      BY <1>2 DEF CodesOnce, OneEach, Guarded, Guard
    <2>4. ASSUME NEW q \in Purposes, NEW row, VerifyCode(q, c.req.code, row),
                 \/ /\ q = PurposeOf(c.req.op)
                    /\ q # "registration" => c.req.op \in {"login_2fa", "password_change"}
                 \/ q = "reset"
          PROVE  <<p, n>> \notin taken'
      <3>1. q # p
        BY <1>2, <2>1, <2>3, <2>4 DEF PurposeOf
      <3>2. taken' = taken \cup {<<q, c.req.code>>}
        BY <2>4 DEF VerifyCode
      <3> QED  BY <2>2, <3>1, <3>2
    <2>5. <<p, n>> \notin taken'
      <3>1. ASSUME NEW t, taken' = taken \cup {<<"token", t>>}
            PROVE  <<p, n>> \notin taken'
        BY <2>2, <3>1
      <3> QED  BY <2>2, <2>4, <3>1 DEF CodeStep
    <2> QED  BY <2>1, <2>5
  <1>3. RowsFresh'
    <2> SUFFICES ASSUME NEW b \in calls', IsRead(b),
                        b.req.op \in {"login_2fa", "password_change"}
                 PROVE  <<PurposeOf(b.req.op), b.seen.row.live>> \notin taken'
      BY DEF RowsFresh, IsRead
    <2>1. CASE b \in calls /\ b # c
      BY <1>2, <2>1
    <2>2. CASE b = d /\ IsRead(d)
      <3>1. PICK p \in Purposes : p = PurposeOf(b.req.op)
        BY DEF PurposeOf, Purposes
      <3>2. b.seen.row.live = LiveCode(p) /\ UNCHANGED taken
        BY <2>2, <3>1 DEF Becomes, CodeRow, accountVars, serverVars, IsDone, IsRead
      <3>3. <<p, LiveCode(p)>> \notin taken
        BY DEF LiveCode, CodesKept
      <3> QED  BY <3>1, <3>2, <3>3
    <2> QED  BY <2>1, <2>2 DEF Becomes
  <1>4. doubled' \subseteq {"registration"}
    <2>1. "token" \notin doubled'
      BY DEF ResetTokenOnce
    <2>2. ASSUME NEW p \in Purposes, NEW row, VerifyCode(p, c.req.code, row), p # "registration",
                 \/ /\ IsRead(c) /\ row = c.seen.row /\ p = PurposeOf(c.req.op)
                    /\ p # "registration" => c.req.op \in {"login_2fa", "password_change"}
                 \/ p = "reset" /\ row = CodeRow(p)
          PROVE  doubled' = doubled
      <3>1. c.req.code = row.live /\ row.live # 0
        BY <2>2 DEF VerifyCode, CodeMatches, WrongCode
      <3>2. <<p, row.live>> \notin taken
        <4>1. CASE row = CodeRow(p)
          <5>1. row.live = LiveCode(p)
            BY <4>1 DEF CodeRow
          <5> QED  BY <3>1, <5>1 DEF LiveCode, CodesKept
        <4> QED  BY <2>2, <4>1 DEF CodesOnce, RowsFresh
      <3> QED  BY <2>2, <3>1, <3>2 DEF VerifyCode
    <2>3. ASSUME NEW row, VerifyCode("registration", c.req.code, row)
          PROVE  doubled' \subseteq doubled \cup {"registration"}
      BY <2>3 DEF VerifyCode
    <2> QED  BY <2>1, <2>2, <2>3 DEF CodeStep, CodesOnce
  <1> QED  BY <1>1, <1>3, <1>4 DEF CodesOnce

(***************************************************************************)
(* Who has no account                                                      *)
(***************************************************************************)

\* The attributes a row has.
Row(user) == {"email", "verified", "on", "secret", "twoFactor"} \subseteq DOMAIN user

RowsHave == Row(account) /\ \A c \in calls : IsRead(c) => Row(c.seen.user)

\* A user row that nobody has registered.
Stranger(user) ==
  user.twoFactor /\ \A s \in Slots : user.email[s] = None /\ ~user.verified[s]

\* Without an account there is no session, no code, and no call that saw either.
Unregistered ==
  account.email[1] = None =>
    /\ Stranger(account) /\ ~session /\ page # "security"
    /\ \A p \in Purposes : codes[p].n = 0
    /\ \A c \in calls : IsRead(c) => Stranger(c.seen.user) /\ ~c.seen.signedIn

\* The registration code is resent to an address.
Addressed == \A c \in calls : c.req.op = "register_resend" => c.req.email # None

\* Where no code was issued none is accepted.
LEMMA NoCodeAccepted ==
  ASSUME RowsKept, NEW c \in calls, NEW p \in Purposes, NEW row, codes[p].n = 0,
         \/ IsRead(c) /\ row = c.seen.row /\ p = PurposeOf(c.req.op)
         \/ row = CodeRow(p)
  PROVE  ~VerifyCode(p, c.req.code, row)
  <1>1. row.live = 0
    <2>1. CASE IsRead(c) /\ row = c.seen.row /\ p = PurposeOf(c.req.op)
      BY <2>1 DEF RowsKept
    <2>2. CASE row = CodeRow(p)
      <3>1. row.live = LiveCode(p)
        BY <2>2 DEF CodeRow
      <3> QED  BY <3>1 DEF LiveCode
    <2> QED  BY <2>1, <2>2
  <1> QED  BY <1>1 DEF VerifyCode, CodeMatches, WrongCode

\* No route lets a stranger in, but for registration.
LEMMA StrangerServed ==
  ASSUME Inv, CodesKept, RowsKept, RowsHave, Unregistered, Addressed, NEW c \in calls,
         \/ RouteReads(c) \/ NotAuthenticated(c)
         \/ AuthRoute(c) \/ SettingsRoute(c) \/ SetLanguage(c),
         NEW d, Becomes(c, d)
  PROVE  Unregistered'
  <1> USE DEF RefusedUnchanged, serverVars, accountVars
  <1> SUFFICES ASSUME account'.email[1] = None, account.email[1] = None
               PROVE  Unregistered'
    <2>1. FirstEmailStays
      BY ServerKeeps, RegisterKeeps, LoginKeeps, EmailRoutesKeep, TotpRoutesKeep,
         PasswordRoutesKeep
      DEF AuthRoute, SettingsRoute, RouteKeeps, RouteReads, NotAuthenticated,
          FirstEmailStays
    <2> QED  BY <2>1 DEF Unregistered, FirstEmailStays
  <1>1. /\ Stranger(account) /\ ~session /\ page # "security"
        /\ \A p \in Purposes : codes[p].n = 0
        /\ \A b \in calls : IsRead(b) => Stranger(b.seen.user) /\ ~b.seen.signedIn
    BY DEF Unregistered
  <1>2. UNCHANGED page
    BY Served
  <1>3. ASSUME UNCHANGED <<account, session, codes>>
        PROVE  Unregistered'
    BY <1>1, <1>2, <1>3 DEF Unregistered, Becomes, Stranger, IsRead
  <1>4. ASSUME UNCHANGED <<account, session>>, NEW p \in Purposes, NEW row,
               VerifyCodeFails(p, c.req.code, row), UNCHANGED taken
        PROVE  Unregistered'
    <2>1. \A q \in Purposes : codes'[q].n = 0
      BY <1>1, <1>4, CodeRefused
    <2>2. \A b \in calls' : IsRead(b) => Stranger(b.seen.user) /\ ~b.seen.signedIn
      BY <1>1 DEF Becomes
    <2> QED  BY <1>1, <1>2, <1>4, <2>1, <2>2 DEF Unregistered, Stranger, IsRead
  <1>5. CASE RouteReads(c) \/ NotAuthenticated(c) \/ RegisterSignedIn(c) \/ SetLanguage(c)
    BY <1>3, <1>5 DEF RouteReads, NotAuthenticated, RegisterSignedIn, SetLanguage
  <1>6. ~SettingsRoute(c) /\ ~RegisterExisting(c)
    BY <1>1
    DEF SettingsRoute, EmailSendCode, EmailConfirm, EmailDelete, TotpSetupStart,
        TotpSetupConfirm, TotpDisable, PasswordSendCode, ChangePassword, Runs, AsyncOps,
        SignedInOps, RegisterExisting, Stranger, Slots
  <1>7. CASE RegisterNew(c)
    <2>1. account' # NewAccount
      BY DEF NewAccount, Slots, None
    <2> QED  BY <1>3, <1>7, <2>1 DEF RegisterNew
  <1>8. CASE RegisterConfirm(c)
    <2>1. ~VerifyCode("registration", c.req.code, c.seen.row)
      BY <1>1, <1>8, NoCodeAccepted DEF RegisterConfirm, Runs, AsyncOps, PurposeOf, Purposes
    <2> QED  BY <1>4, <1>8, <2>1 DEF RegisterConfirm, Purposes
  <1>9. CASE RegisterResend(c)
    <2>1. ~Knows(account, c.req.email)
      BY <1>1, <1>9 DEF RegisterResend, Runs, Addressed, Knows, Stranger
    <2> QED  BY <1>3, <1>9, <2>1 DEF RegisterResend
  <1>10. \A email : /\ ~IsVerified(account, email)
                    /\ IsRead(c) => ~IsVerified(c.seen.user, email) /\ c.seen.user.twoFactor
    BY <1>1 DEF IsVerified, Stranger
  <1>11. CASE Login(c) \/ Login2FA(c) \/ LoginResend(c) \/ ForgotSendCode(c)
    BY <1>3, <1>10, <1>11 DEF Login, Login2FA, LoginResend, ForgotSendCode, Runs, AsyncOps
  <1>12. CASE ForgotVerify(c)
    <2>1. ~VerifyCode("reset", c.req.code, CodeRow("reset"))
      BY <1>1, NoCodeAccepted DEF Purposes
    <2> QED  BY <1>3, <1>4, <1>12, <2>1 DEF ForgotVerify, Purposes
  <1>13. CASE ForgotNewPassword(c)
    <2>1. CASE /\ account' = [account EXCEPT !.password = "reset"]
               /\ session' = FALSE /\ UNCHANGED codes
      <3>1. \A b \in calls' : IsRead(b) => Stranger(b.seen.user) /\ ~b.seen.signedIn
        BY <1>1, <2>1 DEF Becomes
      <3>2. Stranger(account')
        BY <1>1, <2>1 DEF Stranger, RowsHave, Row
      <3> QED  BY <1>1, <1>2, <2>1, <3>1, <3>2 DEF Unregistered, Stranger, IsRead
    <2> QED  BY <1>3, <1>13, <2>1 DEF ForgotNewPassword
  <1> QED
    BY <1>5, <1>6, <1>7, <1>8, <1>9, <1>11, <1>12, <1>13 DEF AuthRoute

(***************************************************************************)
(* The authenticator and its panels                                        *)
(***************************************************************************)
TotpOps == {"totp_start", "totp_confirm", "totp_disable"}

\* The panel each request is made from.
PanelOf ==
  [totp_start |-> "disabled", totp_confirm |-> "setup", totp_disable |-> "enabled"]

Told(c) == IsDone(c) /\ c.ans.ok

\* What a good answer says of the account.
Effect(c) ==
  /\ c.req.op = "totp_start" => ~account.on /\ c.ans.n = account.secret
  /\ c.req.op = "totp_confirm" => account.on /\ held = account.secret
  /\ c.req.op = "totp_disable" => ~account.on

TotpCall(c) ==
  /\ page = "security" /\ sec.panel = PanelOf[c.req.op]
  /\ IsRead(c) => c.seen.user.on = account.on /\ c.seen.user.secret = account.secret
  /\ Told(c) => Effect(c)

\* What the page shows, and what the authenticator of the user is.
PanelShows ==
  /\ page = "security" =>
       /\ sec.panel \in {"recovery", "enabled"} <=> account.on
       /\ sec.panel # "disabled" => held = account.secret
  /\ page # "security" /\ account.on => held = account.secret

\* A request about the authenticator keeps its panel, and the panel is right until
\* the request has taken effect.
Panels ==
  /\ \A c \in calls : c.req.op \in TotpOps => TotpCall(c)
  /\ (\A c \in calls : c.req.op \in TotpOps => ~Told(c)) => PanelShows

\* There is one such request at most.
LEMMA OneTotp ==
  ASSUME OneEach, Panels, NEW c \in calls, NEW d \in calls,
         c.req.op \in TotpOps, d.req.op \in TotpOps
  PROVE  c = d
  <1>1. c.req.op = d.req.op
    BY DEF Panels, TotpCall, PanelOf, TotpOps
  <1> QED  BY <1>1 DEF OneEach, Guarded, Guard, TotpOps

\* The authenticator in the user row changes by its own routes, or with a new row.
LEMMA AccountServed ==
  ASSUME RowsHave, NEW c \in calls,
         \/ RouteReads(c) \/ NotAuthenticated(c)
         \/ AuthRoute(c) \/ SettingsRoute(c) \/ SetLanguage(c)
  PROVE  /\ Row(account')
         /\ \/ account'.on = account.on /\ account'.secret = account.secret
            \/ c.req.op \in TotpOps
            \/ account.email[1] = None /\ ~account'.on
  <1> USE DEF RefusedUnchanged, serverVars, accountVars, RowsHave, Row
  <1>1. CASE UNCHANGED account
    BY <1>1
  <1>2. CASE \/ \E x : account' = [account EXCEPT !.password = x]
             \/ \E x : account' = [account EXCEPT !.verified = x]
    BY <1>2
  <1>3. ASSUME NEW seen, NEW want, Row(seen), account' = Flush(seen, want),
               DOMAIN want = DOMAIN seen,
               \/ want.on = seen.on /\ want.secret = seen.secret
               \/ c.req.op \in TotpOps
        PROVE  /\ Row(account')
               /\ \/ account'.on = account.on /\ account'.secret = account.secret
                  \/ c.req.op \in TotpOps
    BY <1>3 DEF Flush
  <1>4. CASE AuthRoute(c)
    <2>1. CASE RegisterExisting(c)
      <3>1. CASE UNCHANGED account
        BY <1>1, <3>1
      <3>2. CASE ~UNCHANGED account
        <4>1. PICK seen, want : /\ seen = c.seen.user
                                /\ want = [seen EXCEPT !.password = "registered"]
                                /\ account' = Flush(seen, want) /\ IsRead(c)
          BY <2>1, <3>2 DEF RegisterExisting, Runs, AsyncOps
        <4> QED  BY <1>3, <4>1
      <3> QED  BY <3>1, <3>2
    <2>2. CASE RegisterNew(c)
      <3>1. CASE account' = NewAccount /\ account.email[1] = None
        BY <3>1 DEF NewAccount
      <3> QED  BY <1>1, <2>2, <3>1 DEF RegisterNew
    <2>3. CASE RegisterConfirm(c)
      BY <1>1, <1>2, <2>3 DEF RegisterConfirm
    <2>4. CASE ForgotNewPassword(c)
      BY <1>1, <1>2, <2>4 DEF ForgotNewPassword
    <2> QED
      BY <1>1, <1>4, <2>1, <2>2, <2>3, <2>4
      DEF AuthRoute, RegisterSignedIn, RegisterResend, Login, Login2FA, LoginResend,
          ForgotSendCode, ForgotVerify
  <1>5. CASE SettingsRoute(c) /\ ~UNCHANGED account
    <2>1. CASE EmailSendCode(c)
      <3>1. PICK seen, slot, email, want :
              /\ seen = c.seen.user
              /\ want = [seen EXCEPT !.email[slot] = email, !.verified[slot] = FALSE]
              /\ account' = Flush(seen, want) /\ IsRead(c)
        BY <1>5, <2>1 DEF EmailSendCode, Runs, AsyncOps
      <3>2. DOMAIN want = DOMAIN seen /\ want.on = seen.on /\ want.secret = seen.secret
        BY <3>1
      <3> QED  BY <1>3, <3>1, <3>2
    <2>2. CASE EmailDelete(c)
      <3>1. PICK seen, want :
              /\ seen = c.seen.user /\ want = WithoutSlot(seen, c.req.slot)
              /\ account' = Flush(seen, want) /\ IsRead(c)
        BY <1>5, <2>2 DEF EmailDelete, Runs, AsyncOps
      <3>2. DOMAIN want = DOMAIN seen /\ want.on = seen.on /\ want.secret = seen.secret
        BY <3>1 DEF WithoutSlot
      <3> QED  BY <1>3, <3>1, <3>2
    <2>3. CASE TotpSetupStart(c) \/ TotpSetupConfirm(c) \/ TotpDisable(c)
      <3>1. PICK seen, want :
              /\ seen = c.seen.user /\ account' = Flush(seen, want)
              /\ DOMAIN want = DOMAIN seen /\ IsRead(c) /\ c.req.op \in TotpOps
        BY <1>5, <2>3 DEF TotpSetupStart, TotpSetupConfirm, TotpDisable, Runs, AsyncOps,
                          TotpOps
      <3> QED  BY <1>3, <3>1
    <2>4. CASE EmailConfirm(c)
      <3>1. \E slot, x : account' = [account EXCEPT !.verified[slot] = x]
        BY <1>5, <2>4 DEF EmailConfirm
      <3> QED  BY <1>2, <3>1
    <2>5. CASE PasswordSendCode(c) \/ ChangePassword(c)
      BY <1>2, <1>5, <2>5 DEF PasswordSendCode, ChangePassword
    <2> QED  BY <1>5, <2>1, <2>2, <2>3, <2>4, <2>5 DEF SettingsRoute
  <1> QED
    BY <1>1, <1>4, <1>5 DEF RouteReads, NotAuthenticated, SetLanguage

\* The rows stay whole.
LEMMA RowsHaveServed ==
  ASSUME RowsHave, NEW c \in calls,
         \/ RouteReads(c) \/ NotAuthenticated(c)
         \/ AuthRoute(c) \/ SettingsRoute(c) \/ SetLanguage(c),
         NEW d, Becomes(c, d)
  PROVE  RowsHave'
  <1>1. Row(account')
    BY AccountServed
  <1>2. \A b \in calls' : IsRead(b) => Row(b.seen.user)
    BY DEF Becomes, RowsHave
  <1> QED  BY <1>1, <1>2 DEF RowsHave, Row, IsRead

\* A request about the authenticator, after the server has worked on it.
LEMMA TotpServed ==
  ASSUME OneEach, Panels, NEW c \in calls, c.req.op \in TotpOps, NEW d, Becomes(c, d),
         UNCHANGED <<page, held, sec>>,
         IsRead(d) => d.seen.user = account',
         IF Told(d) THEN Effect(d)'
         ELSE PanelShows /\ account'.on = account.on /\ account'.secret = account.secret
  PROVE  Panels'
  <1>1. \A b \in calls : b.req.op \in TotpOps => b = c
    BY OneTotp
  <1>2. \A b \in calls' : b.req.op \in TotpOps => b = d
    BY <1>1 DEF Becomes
  <1>3. TotpCall(c) /\ c.owned
    BY DEF Panels, OneEach
  <1>4. d \in calls' /\ d.req = c.req
    BY <1>3 DEF Becomes
  <1>5. TotpCall(d)'
    BY <1>3, <1>4 DEF TotpCall, Told, IsDone, IsRead, Effect
  <1>6. ~Told(d) => PanelShows'
    BY DEF PanelShows
  <1> QED  BY <1>2, <1>4, <1>5, <1>6 DEF Panels, Told, IsDone

\* The routes of the authenticator.
LEMMA TotpRoutesShow ==
  ASSUME RowsHave, OneEach, Panels, NEW c \in calls, UNCHANGED <<page, held, sec>>,
         TotpSetupStart(c) \/ TotpSetupConfirm(c) \/ TotpDisable(c)
  PROVE  Panels'
  <1> USE DEF Answer, Plain, Error, RefusedUnchanged, serverVars
  <1>1. /\ c.req.op \in TotpOps /\ IsRead(c) /\ ~Told(c)
        /\ TotpSetupStart(c) => c.req.op = "totp_start"
        /\ TotpSetupConfirm(c) => c.req.op = "totp_confirm"
        /\ TotpDisable(c) => c.req.op = "totp_disable"
    BY DEF TotpSetupStart, TotpSetupConfirm, TotpDisable, Runs, AsyncOps, TotpOps, Told,
           IsDone, IsRead
  <1>2. TotpCall(c) /\ PanelShows
    <2>1. \A b \in calls : b.req.op \in TotpOps => ~Told(b)
      BY <1>1, OneTotp
    <2> QED  BY <1>1, <2>1 DEF Panels
  <1>3. PICK seen : /\ seen = c.seen.user /\ Row(seen)
                    /\ seen.on = account.on /\ seen.secret = account.secret
    BY <1>1, <1>2 DEF RowsHave, TotpCall
  <1>4. ASSUME NEW ans, Replies(c, ans),
               IF ans.ok
               THEN /\ c.req.op = "totp_start" => ~account'.on /\ ans.n = account'.secret
                    /\ c.req.op = "totp_confirm" => account'.on /\ held' = account'.secret
                    /\ c.req.op = "totp_disable" => ~account'.on
               ELSE account'.on = account.on /\ account'.secret = account.secret
        PROVE  Panels'
    <2>1. PICK d : Becomes(c, d) /\ IsDone(d) /\ d.ans = ans
      BY <1>4, RepliesBecomes
    <2>2. d.req = c.req /\ ~IsRead(d)
      BY <2>1 DEF Becomes, IsDone, IsRead
    <2> QED  BY <1>1, <1>2, <1>4, <2>1, <2>2, TotpServed DEF Told, Effect
  <1>5. ASSUME NEW want, account' = Flush(seen, want), DOMAIN want = DOMAIN seen
        PROVE  /\ account'.on = IF want.on = seen.on THEN account.on ELSE want.on
               /\ account'.secret = IF want.secret = seen.secret THEN account.secret
                                    ELSE want.secret
    BY <1>3, <1>5 DEF Flush, Row
  <1>6. CASE TotpSetupStart(c)
    <2>1. CASE RefusedUnchanged(c)
      BY <1>4, <2>1
    <2>2. CASE ~RefusedUnchanged(c)
      <3>1. PICK want : /\ want = [seen EXCEPT !.secret = minted + 1, !.on = FALSE]
                        /\ account' = Flush(seen, want) /\ ~seen.on
        BY <1>3, <1>6, <2>2 DEF TotpSetupStart
      <3>2. DOMAIN want = DOMAIN seen /\ want.on = FALSE /\ want.secret = minted + 1
        BY <1>3, <3>1 DEF Row
      <3>3. ~account'.on /\ account'.secret = minted + 1
        BY <1>3, <1>5, <3>1, <3>2
      <3>4. PICK ans : /\ ans = [ok |-> TRUE, next |-> "", totp |-> FALSE, n |-> minted + 1]
                       /\ Replies(c, ans)
        BY <1>6, <2>2 DEF TotpSetupStart
      <3>5. ans.ok /\ ans.n = account'.secret /\ c.req.op = "totp_start"
        BY <1>1, <1>6, <3>3, <3>4
      <3> HIDE DEF Replies
      <3>6. /\ c.req.op # "totp_confirm" /\ c.req.op # "totp_disable"
        BY <3>5
      <3> QED  BY <1>4, <3>3, <3>4, <3>5, <3>6
    <2> QED  BY <2>1, <2>2
  <1>7. CASE TotpSetupConfirm(c)
    <2>1. CASE Replies(c, Error) /\ UNCHANGED account
      BY <1>4, <2>1
    <2>2. CASE ~(Replies(c, Error) /\ UNCHANGED account)
      <3>1. PICK want : /\ want = [seen EXCEPT !.on = TRUE]
                        /\ account' = Flush(seen, want) /\ ~seen.on
        BY <1>3, <1>7, <2>2 DEF TotpSetupConfirm
      <3>2. DOMAIN want = DOMAIN seen /\ want.on = TRUE /\ want.secret = seen.secret
        BY <1>3, <3>1 DEF Row
      <3>3. account'.on /\ account'.secret = account.secret
        BY <1>3, <1>5, <3>1, <3>2
      <3>4. held = account.secret
        BY <1>1, <1>2, <1>7 DEF TotpCall, PanelShows, PanelOf
      <3>5. Replies(c, Plain)
        BY <1>7, <2>2 DEF TotpSetupConfirm
      <3> QED  BY <1>1, <1>4, <1>7, <3>3, <3>4, <3>5
    <2> QED  BY <2>1, <2>2
  <1>8. CASE TotpDisable(c)
    <2>1. CASE Replies(c, Error) /\ UNCHANGED account
      BY <1>4, <2>1
    <2>2. CASE ~seen.on /\ Replies(c, Plain) /\ UNCHANGED account
      BY <1>1, <1>3, <1>4, <1>8, <2>2
    <2>3. CASE seen.on /\ ~(Replies(c, Error) /\ UNCHANGED account)
      <3>1. PICK want : /\ want = [seen EXCEPT !.on = FALSE, !.secret = 0]
                        /\ account' = Flush(seen, want)
        BY <1>3, <1>8, <2>3 DEF TotpDisable
      <3>2. DOMAIN want = DOMAIN seen /\ want.on = FALSE
        BY <1>3, <3>1 DEF Row
      <3>3. ~account'.on
        BY <1>3, <1>5, <2>3, <3>1, <3>2
      <3>4. Replies(c, Plain)
        BY <1>3, <1>8, <2>3 DEF TotpDisable
      <3> QED  BY <1>1, <1>4, <1>8, <3>3, <3>4
    <2> QED  BY <1>3, <1>8, <2>1, <2>2, <2>3 DEF TotpDisable
  <1> QED  BY <1>6, <1>7, <1>8

\* The routes, where they are about something else.
LEMMA PanelsServed ==
  ASSUME RowsHave, Unregistered, OneEach, Panels, NEW c \in calls,
         UNCHANGED <<page, held, sec>>,
         \/ RouteReads(c) \/ NotAuthenticated(c)
         \/ AuthRoute(c) \/ SettingsRoute(c) \/ SetLanguage(c)
  PROVE  Panels'
  <1> USE DEF accountVars, serverVars
  <1>1. CASE c.req.op \notin TotpOps
    <2>1. PICK d : Becomes(c, d)
      BY Served
    <2>2. \A b : b.req.op \in TotpOps => (b \in calls <=> b \in calls')
      BY <1>1, <2>1 DEF Becomes
    <2>3. CASE account'.on = account.on /\ account'.secret = account.secret
      BY <2>2, <2>3 DEF Panels, TotpCall, PanelShows, Told, IsDone, IsRead, Effect
    <2>4. CASE account.email[1] = None /\ ~account'.on
      BY <2>2, <2>4 DEF Panels, TotpCall, PanelShows, Unregistered
    <2> QED  BY <1>1, <2>3, <2>4, AccountServed
  <1>2. CASE c.req.op \in TotpOps
    <2>1. CASE RouteReads(c) \/ NotAuthenticated(c)
      <3>1. UNCHANGED account /\ ~Told(c)
        BY <2>1 DEF RouteReads, NotAuthenticated, Told, IsDone, IsRead, IsSent
      <3>2. PanelShows
        <4>1. \A b \in calls : b.req.op \in TotpOps => ~Told(b)
          BY <1>2, <3>1, OneTotp
        <4> QED  BY <4>1 DEF Panels
      <3>3. CASE RouteReads(c)
        <4>1. PICK seen : /\ seen = [user |-> account, row |-> CodeRow(PurposeOf(c.req.op)),
                                     signedIn |-> session]
                          /\ calls' = (calls \ {c}) \cup {Read(c, seen)}
          BY <3>3 DEF RouteReads
        <4>2. PICK d : d = Read(c, seen)
          OBVIOUS
        <4>3. /\ d.btn = c.btn /\ d.req = c.req /\ d.owned = c.owned
              /\ d.stage = "read" /\ d.seen = seen
          BY <4>2 DEF Read
        <4>4. Becomes(c, d) /\ ~Told(d) /\ d.seen.user = account'
          BY <3>1, <3>3, <4>1, <4>2, <4>3 DEF Becomes, IsDone, IsRead, Told, RouteReads
        <4> QED  BY <1>2, <3>1, <3>2, <4>4, TotpServed
      <3>4. CASE NotAuthenticated(c)
        <4>1. PICK ans : Replies(c, ans) /\ ~ans.ok
          <5>1. ~Error.ok
            BY DEF Error
          <5>2. Replies(c, HomePage(c.req.op)) /\ HomePage(c.req.op) = Error
            BY <1>2, <3>4 DEF NotAuthenticated, HomePage, TotpOps
          <5> QED  BY <5>1, <5>2
        <4>2. PICK d : Becomes(c, d) /\ IsDone(d) /\ d.ans = ans
          BY <4>1, RepliesBecomes
        <4>3. ~Told(d) /\ ~IsRead(d)
          BY <4>1, <4>2 DEF Told, IsDone, IsRead
        <4> QED  BY <1>2, <3>1, <3>2, <4>2, <4>3, TotpServed
      <3> QED  BY <2>1, <3>3, <3>4
    <2>2. CASE TotpSetupStart(c) \/ TotpSetupConfirm(c) \/ TotpDisable(c)
      BY <2>2, TotpRoutesShow
    <2>3. ~AuthRoute(c) /\ ~SetLanguage(c)
      BY <1>2
      DEF AuthRoute, RegisterSignedIn, RegisterExisting, RegisterNew, RegisterConfirm,
          RegisterResend, Login, Login2FA, LoginResend, ForgotSendCode, ForgotVerify,
          ForgotNewPassword, SetLanguage, Runs, TotpOps
    <2>4. SettingsRoute(c) => TotpSetupStart(c) \/ TotpSetupConfirm(c) \/ TotpDisable(c)
      BY <1>2
      DEF SettingsRoute, EmailSendCode, EmailConfirm, EmailDelete, PasswordSendCode,
          ChangePassword, Runs, TotpOps
    <2> QED  BY <2>1, <2>2, <2>3, <2>4
  <1> QED  BY <1>1, <1>2

(***************************************************************************)
(* The pages                                                               *)
(***************************************************************************)

\* A delete waits for its code while its modal is open, and the page was told of the
\* authenticator it shows as enabled.
SecurityShown ==
  /\ {"panel", "totpEnabled", "pendingDelete"} \subseteq DOMAIN sec
  /\ "emailDeleteTotpModal" \in modals => sec.pendingDelete \in Slots
  /\ page = "security" /\ sec.panel = "enabled" => sec.totpEnabled

ServerKept == CodesKept /\ RowsKept /\ RowsHave /\ Unregistered /\ Addressed

AuthInv ==
  /\ Inv /\ ServerKept /\ SecurityShown
  /\ ~orphaned => CodesOnce /\ Panels

\* The pages leave the user row and the codes to the server.
Aside == UNCHANGED <<account, codes, taken, doubled>> /\ (session' => session)

\* Requests leave without having read anything; the others stay or are left behind.
LEMMA AsideKeeps ==
  ASSUME AuthInv, Aside, page' = "security" => page = "security" \/ session,
         \A d \in calls' :
           \/ d \in calls \/ \E c \in calls : d = [c EXCEPT !.owned = FALSE]
           \/ IsSent(d) /\ (d.req.op = "register_resend" => d.req.email # None)
  PROVE  ServerKept'
  <1>1. ASSUME NEW d \in calls'
        PROVE  \/ \E c \in calls : /\ d.req = c.req /\ d.stage = c.stage
                                   /\ IsRead(c) => d.seen = c.seen
               \/ IsSent(d) /\ (d.req.op = "register_resend" => d.req.email # None)
    <2>1. ASSUME NEW c \in calls, d = [c EXCEPT !.owned = FALSE]
          PROVE  /\ d.req = c.req /\ d.stage = c.stage
                 /\ IsRead(c) => d.seen = c.seen
      BY <2>1 DEF AuthInv, Inv, CallsGood, Good
    <2> QED  BY <1>1, <2>1
  <1>2. Addressed'
    BY <1>1 DEF Addressed, AuthInv, ServerKept
  <1>3. ASSUME NEW d \in calls', IsRead(d)
        PROVE  \E c \in calls : IsRead(c) /\ d.req = c.req /\ d.seen = c.seen
    BY <1>1, <1>3 DEF IsRead, IsSent
  <1>4. RowsKept' /\ RowsHave'
    BY <1>3 DEF RowsKept, RowsHave, Row, AuthInv, ServerKept, Aside, IsRead
  <1>5. Unregistered'
    BY <1>3 DEF Unregistered, Stranger, AuthInv, ServerKept, Aside, IsRead
  <1>6. CodesKept'
    BY DEF CodesKept, AuthInv, ServerKept, Aside
  <1> QED  BY <1>2, <1>4, <1>5, <1>6 DEF ServerKept

\* No row is read by a page.
LEMMA FreshAside ==
  ASSUME CodesOnce, Aside, OneEach', \A d \in calls' : d \in calls \/ IsSent(d)
  PROVE  CodesOnce'
  <1>1. RowsFresh'
    BY DEF CodesOnce, RowsFresh, Aside, IsRead, IsSent
  <1> QED  BY <1>1 DEF CodesOnce, Aside

(***************************************************************************)
(* Buttons                                                                 *)
(***************************************************************************)
Pressed(btn, req) ==
  /\ Fetch(btn, req)
  /\ \/ LockActionButton(btn)
     \/ UNCHANGED locked /\ \A op \in DOMAIN Guard : btn # Guard[op]
  /\ \A op \in DOMAIN Guard : req.op = op <=> btn = Guard[op]
  /\ req.op = "register_resend" => req.email # None
  /\ req.op \in TotpOps => page = "security" /\ sec.panel = PanelOf[req.op]
  /\ sec'.panel = sec.panel
  /\ UNCHANGED <<page, orphaned, accountVars>>

OrphanedOr == ~orphaned' => CodesOnce' /\ Panels'

LEMMA PressedKeeps ==
  ASSUME AuthInv, NEW btn, NEW req, Pressed(btn, req)
  PROVE  ServerKept' /\ OrphanedOr
  <1>1. PICK d : /\ calls' = calls \cup {d} /\ d.owned /\ IsSent(d)
                 /\ d.btn = btn /\ d.req = req
    BY SentOff DEF Pressed
  <1>2. Aside
    BY DEF Pressed, Aside, accountVars, serverVars
  <1>3. ServerKept'
    BY <1>1, <1>2, AsideKeeps DEF Pressed
  <1> SUFFICES ASSUME ~orphaned' PROVE CodesOnce' /\ Panels'
    BY <1>3 DEF OrphanedOr
  <1>4. CodesOnce /\ Panels /\ OneEach
    BY DEF Pressed, AuthInv, CodesOnce
  <1>5. OneEach'
    BY <1>4, OnePressed, OneFetched DEF Pressed
  <1>6. CodesOnce'
    BY <1>1, <1>2, <1>4, <1>5, FreshAside
  <1>7. UNCHANGED <<page, account, held>> /\ sec'.panel = sec.panel /\ ~Told(d)
    BY <1>1 DEF Pressed, accountVars, serverVars, Told, IsDone, IsSent
  <1>8. \A c \in calls : c.req.op \in TotpOps => TotpCall(c)'
    BY <1>4, <1>7 DEF Panels, TotpCall, Effect, Told, IsDone, IsRead
  <1>9. CASE req.op \notin TotpOps
    <2>1. (\A c \in calls : c.req.op \in TotpOps => ~Told(c)) => PanelShows'
      BY <1>4, <1>7 DEF Panels, PanelShows
    <2> QED  BY <1>1, <1>6, <1>8, <1>9, <2>1 DEF Panels, Told, IsDone
  <1>10. CASE req.op \in TotpOps
    <2>1. ASSUME NEW c \in calls, c.req.op \in TotpOps
          PROVE  FALSE
      <3>1. sec.panel = PanelOf[c.req.op] /\ sec.panel = PanelOf[req.op]
        BY <1>4, <1>10, <2>1 DEF Panels, TotpCall, Pressed
      <3>2. c.req.op = req.op /\ req.op \in DOMAIN Guard
        BY <1>10, <2>1, <3>1 DEF TotpOps, PanelOf, Guard
      <3>3. c.btn = btn /\ c.btn \in locked
        BY <1>4, <3>2 DEF OneEach, Guarded, Pressed
      <3> QED  BY <3>2, <3>3 DEF Pressed, LockActionButton
    <2>2. PanelShows
      BY <1>4, <2>1 DEF Panels
    <2>3. TotpCall(d)'
      BY <1>1, <1>7, <1>10 DEF TotpCall, Pressed, Told, IsDone, IsRead, IsSent
    <2>4. PanelShows'
      BY <1>7, <2>2 DEF PanelShows
    <2> QED  BY <1>1, <1>6, <1>8, <2>3, <2>4 DEF Panels
  <1> QED  BY <1>9, <1>10

\* Nothing is sent or heard.
LEMMA StillKeeps ==
  ASSUME AuthInv, UNCHANGED <<page, calls, orphaned, account, codes, taken, doubled, held,
                              session>>,
         sec'.panel = sec.panel,
         NEW btn, locked \ {btn} \subseteq locked', \A op \in DOMAIN Guard : btn # Guard[op]
  PROVE  ServerKept' /\ OrphanedOr
  <1>1. Aside
    BY DEF Aside
  <1>2. ServerKept'
    BY <1>1, AsideKeeps
  <1> SUFFICES ASSUME ~orphaned' PROVE CodesOnce' /\ Panels'
    BY <1>2 DEF OrphanedOr
  <1>3. CodesOnce /\ Panels /\ OneEach
    BY DEF AuthInv, CodesOnce
  <1>4. CodesOnce'
    BY <1>1, <1>3, OneStays, FreshAside
  <1>5. Panels'
    BY <1>3 DEF Panels, TotpCall, PanelShows, Effect
  <1> QED  BY <1>4, <1>5

\* The buttons of the entry pages.
LEMMA AuthUserPresses ==
  ASSUME AuthUser, UNCHANGED sec
  PROVE  (\E btn, req : Pressed(btn, req)) \/ UNCHANGED <<callVars, accountVars>>
  <1>1. ASSUME NEW btn, NEW req, Press(btn, req), UNCHANGED accountVars,
               \A op \in DOMAIN Guard : req.op = op <=> btn = Guard[op],
               req.op \notin TotpOps, req.op = "register_resend" => req.email # None
        PROVE  \E b, r : Pressed(b, r)
    BY <1>1 DEF Press, Pressed
  <1>2. ASSUME NEW btn, NEW op, NEW email, PostResend(btn, op, email),
               btn \in {"registerResend", "loginResend", "forgotResend"},
               op \in {"register_resend", "login_resend", "forgot_resend"},
               op = "register_resend" => email # None
        PROVE  \E b, r : Pressed(b, r)
    <2>1. PICK req : req = [Request(op) EXCEPT !.email = email]
      OBVIOUS
    <2>2. req.op = op /\ req.email = email
      BY <2>1 DEF Request
    <2>3. Press(btn, req) /\ UNCHANGED accountVars
      BY <1>2, <2>1 DEF PostResend
    <2> QED  BY <1>1, <1>2, <2>2, <2>3 DEF Guard, TotpOps
  <1>3. CASE RegisterResendClick \/ LoginResendClick \/ ForgotResendClick
    <2>1. "a" # None
      BY DEF None
    <2> QED
      BY <1>2, <1>3, <2>1 DEF RegisterResendClick, LoginResendClick, ForgotResendClick
  <1>4. ASSUME NEW btn \in {"registerSubmit", "loginSubmit", "forgotSend"},
               NEW op \in {"register", "login", "forgot_send"}, NEW email,
               Press(btn, [Request(op) EXCEPT !.email = email]), UNCHANGED accountVars
        PROVE  \E b, r : Pressed(b, r)
    <2>1. PICK req : /\ req = [Request(op) EXCEPT !.email = email]
                     /\ Press(btn, req) /\ UNCHANGED accountVars
      BY <1>4
    <2>2. req.op = op
      BY <2>1 DEF Request
    <2>3. \A o \in DOMAIN Guard : req.op = o <=> btn = Guard[o]
      BY <2>1, <2>2 DEF Guard
    <2>4. req.op \notin TotpOps /\ req.op # "register_resend"
      BY <2>1, <2>2 DEF TotpOps
    <2> QED  BY <1>1, <2>1, <2>3, <2>4
  <1>10. CASE RegisterSubmit \/ LoginSubmit \/ ForgotSendClick
    BY <1>4, <1>10 DEF RegisterSubmit, LoginSubmit, ForgotSendClick
  <1>5. CASE RegisterConfirmClick
    <2>1. PICK code, req :
            /\ req = [Request("register_confirm") EXCEPT !.email = "a", !.code = code]
            /\ Press("registerConfirm", req) /\ UNCHANGED accountVars
      BY <1>5 DEF RegisterConfirmClick
    <2>2. req.op = "register_confirm"
      BY <2>1 DEF Request
    <2>3. \A op \in DOMAIN Guard : req.op = op <=> "registerConfirm" = Guard[op]
      BY <2>1, <2>2 DEF Guard
    <2>4. req.op \notin TotpOps /\ req.op # "register_resend"
      BY <2>1, <2>2 DEF TotpOps
    <2> QED  BY <1>1, <2>1, <2>3, <2>4
  <1>6. CASE LoginConfirmClick
    <2>1. PICK code, req :
            /\ req = [Request("login_2fa") EXCEPT !.email = entry.pending, !.code = code,
                                                  !.totp = LoginTotp]
            /\ Press("loginConfirm", req) /\ UNCHANGED accountVars
      BY <1>6 DEF LoginConfirmClick
    <2>2. req.op = "login_2fa"
      BY <2>1 DEF Request
    <2>3. \A op \in DOMAIN Guard : req.op = op <=> "loginConfirm" = Guard[op]
      BY <2>1, <2>2 DEF Guard
    <2>4. req.op \notin TotpOps /\ req.op # "register_resend"
      BY <2>1, <2>2 DEF TotpOps
    <2> QED  BY <1>1, <2>1, <2>3, <2>4
  <1>7. CASE ForgotVerifyClick
    <2>1. PICK email, code, req :
            /\ req = [Request("forgot_verify") EXCEPT !.email = email, !.code = code,
                                                      !.totp = ForgotTotp]
            /\ Press("forgotVerify", req) /\ UNCHANGED accountVars
      BY <1>7 DEF ForgotVerifyClick
    <2>2. req.op = "forgot_verify"
      BY <2>1 DEF Request
    <2>3. \A op \in DOMAIN Guard : req.op = op <=> "forgotVerify" = Guard[op]
      BY <2>1, <2>2 DEF Guard
    <2>4. req.op \notin TotpOps /\ req.op # "register_resend"
      BY <2>1, <2>2 DEF TotpOps
    <2> QED  BY <1>1, <2>1, <2>3, <2>4
  <1>8. CASE NewPasswordClick
    <2>1. PICK req : /\ req = [Request("new_password") EXCEPT !.code = entry.token]
                     /\ Press("newPassword", req) /\ UNCHANGED accountVars
      BY <1>8 DEF NewPasswordClick
    <2>2. req.op = "new_password"
      BY <2>1 DEF Request
    <2>3. \A op \in DOMAIN Guard : req.op = op <=> "newPassword" = Guard[op]
      BY <2>1, <2>2 DEF Guard
    <2>4. req.op \notin TotpOps /\ req.op # "register_resend"
      BY <2>1, <2>2 DEF TotpOps
    <2> QED  BY <1>1, <2>1, <2>3, <2>4
  <1>9. CASE LanguageClick
    <2>1. PICK req : req = Request("set_language")
      OBVIOUS
    <2>2. req.op = "set_language"
      BY <2>1 DEF Request
    <2>3. Pressed("language", req)
      BY <1>9, <2>1, <2>2 DEF LanguageClick, Pressed, Guard, TotpOps
    <2> QED  BY <2>3
  <1> QED
    BY <1>3, <1>5, <1>6, <1>7, <1>8, <1>9, <1>10 DEF AuthUser, OpenModal, CloseModal

\* The buttons of an e-mail slot have no guarded request.
LEMMA SlotButtonsFree ==
  ASSUME NEW slot \in Slots, NEW action \in {"confirm", "resend", "delete"}
  PROVE  \A op \in DOMAIN Guard : SlotButton(action, slot) # Guard[op]
  BY DEF SlotButton, SlotButtons, Slots, Guard

\* The buttons of the security page.
LEMMA SecurityUserPresses ==
  ASSUME AuthInv, SecurityUser
  PROVE  \/ \E btn, req : Pressed(btn, req)
         \/ DeleteTotpClose \/ DeleteTotpEscape \/ RecoveryDone
         \/ \E slot \in Slots : EmailDeleteClick(slot) /\ UNCHANGED calls
  <1>1. ASSUME NEW btn, NEW req, PressHere(btn, req),
               \A op \in DOMAIN Guard : req.op = op <=> btn = Guard[op],
               req.op \in TotpOps => sec.panel = PanelOf[req.op],
               req.op # "register_resend"
        PROVE  \E b, r : Pressed(b, r)
    BY <1>1 DEF PressHere, Press, Pressed, AtSecurity, Staying
  <1>2. ASSUME NEW btn \in {"passwordSend", "passwordResend"}, NEW slot,
               PressHere(btn, [Request("password_send") EXCEPT !.slot = slot])
        PROVE  \E b, r : Pressed(b, r)
    <2>1. PICK req : /\ req = [Request("password_send") EXCEPT !.slot = slot]
                     /\ PressHere(btn, req)
      BY <1>2
    <2>2. req.op = "password_send"
      BY <2>1 DEF Request
    <2>3. \A op \in DOMAIN Guard : req.op = op <=> btn = Guard[op]
      BY <2>1, <2>2 DEF Guard
    <2>4. req.op \notin TotpOps /\ req.op # "register_resend"
      BY <2>1, <2>2 DEF TotpOps
    <2> QED  BY <1>1, <2>1, <2>3, <2>4
  <1>10. CASE PasswordSendClick \/ PasswordResendClick
    BY <1>2, <1>10 DEF PasswordSendClick, PasswordResendClick
  <1>3. CASE PasswordConfirmClick
    <2>1. PICK code, req :
            /\ req = [Request("password_change") EXCEPT !.code = code, !.totp = PasswordTotp]
            /\ PressHere("passwordConfirm", req)
      BY <1>3 DEF PasswordConfirmClick
    <2>2. req.op = "password_change"
      BY <2>1 DEF Request
    <2>3. \A op \in DOMAIN Guard : req.op = op <=> "passwordConfirm" = Guard[op]
      BY <2>1, <2>2 DEF Guard
    <2>4. req.op \notin TotpOps /\ req.op # "register_resend"
      BY <2>1, <2>2 DEF TotpOps
    <2> QED  BY <1>1, <2>1, <2>3, <2>4
  <1>4. CASE TotpEnableClick
    <2>1. PICK req : /\ req = Request("totp_start") /\ PressHere("totpEnable", req)
                     /\ sec.panel = "disabled"
      BY <1>4 DEF TotpEnableClick, PostTotp
    <2>2. req.op = "totp_start"
      BY <2>1 DEF Request
    <2>3. /\ \A op \in DOMAIN Guard : req.op = op <=> Guard[op] = Guard[req.op]
          /\ req.op # "register_resend"
      BY <2>2 DEF Guard
    <2>4. /\ Guard[req.op] = "totpEnable"
          /\ req.op \in TotpOps => sec.panel = PanelOf[req.op]
      BY <2>1, <2>2 DEF Guard, PanelOf
    <2> QED  BY <1>1, <2>1, <2>3, <2>4
  <1>5. CASE TotpConfirmClick
    <2>1. PICK req : /\ req = [Request("totp_confirm") EXCEPT !.totp = held]
                     /\ PressHere("totpConfirm", req) /\ sec.panel = "setup"
      BY <1>5 DEF TotpConfirmClick, PostTotp
    <2>2. req.op = "totp_confirm"
      BY <2>1 DEF Request
    <2>3. /\ \A op \in DOMAIN Guard : req.op = op <=> Guard[op] = Guard[req.op]
          /\ req.op # "register_resend"
      BY <2>2 DEF Guard
    <2>4. /\ Guard[req.op] = "totpConfirm"
          /\ req.op \in TotpOps => sec.panel = PanelOf[req.op]
      BY <2>1, <2>2 DEF Guard, PanelOf
    <2> QED  BY <1>1, <2>1, <2>3, <2>4
  <1>6. CASE TotpDisableClick
    <2>1. PICK req : /\ req = [Request("totp_disable") EXCEPT !.totp = held]
                     /\ PressHere("totpDisable", req) /\ sec.panel = "enabled"
      BY <1>6 DEF TotpDisableClick, PostTotp
    <2>2. req.op = "totp_disable"
      BY <2>1 DEF Request
    <2>3. /\ \A op \in DOMAIN Guard : req.op = op <=> Guard[op] = Guard[req.op]
          /\ req.op # "register_resend"
      BY <2>2 DEF Guard
    <2>4. /\ Guard[req.op] = "totpDisable"
          /\ req.op \in TotpOps => sec.panel = PanelOf[req.op]
      BY <2>1, <2>2 DEF Guard, PanelOf
    <2> QED  BY <1>1, <2>1, <2>3, <2>4
  <1>7. ASSUME NEW slot \in Slots, EmailConfirmClick(slot) \/ EmailResendClick(slot)
        PROVE  \E b, r : Pressed(b, r)
    <2> DEFINE B == {SlotButton("confirm", slot), SlotButton("resend", slot)}
    <2>1. PICK btn, req : /\ btn \in B /\ PressHere(btn, req)
                          /\ req.op \in {"email_send", "email_confirm"}
      <3>1. ASSUME NEW btn \in B, NEW email,
                   PressHere(btn, [Request("email_send") EXCEPT !.slot = slot,
                                                               !.email = email])
            PROVE  \E b, r : /\ b \in B /\ PressHere(b, r)
                             /\ r.op \in {"email_send", "email_confirm"}
        <4>1. PICK r : r = [Request("email_send") EXCEPT !.slot = slot, !.email = email]
          OBVIOUS
        <4>2. r.op = "email_send"
          BY <4>1 DEF Request
        <4> QED  BY <3>1, <4>1, <4>2
      <3>2. ASSUME NEW btn \in B, NEW code, NEW totp,
                   PressHere(btn, [Request("email_confirm") EXCEPT !.slot = slot,
                                                       !.code = code, !.totp = totp])
            PROVE  \E b, r : /\ b \in B /\ PressHere(b, r)
                             /\ r.op \in {"email_send", "email_confirm"}
        <4>1. PICK r : r = [Request("email_confirm") EXCEPT !.slot = slot, !.code = code,
                                                            !.totp = totp]
          OBVIOUS
        <4>2. r.op = "email_confirm"
          BY <4>1 DEF Request
        <4> QED  BY <3>2, <4>1, <4>2
      <3>3. CASE EmailConfirmClick(slot)
        BY <3>1, <3>2, <3>3 DEF EmailConfirmClick
      <3>4. CASE EmailResendClick(slot)
        BY <3>1, <3>4 DEF EmailResendClick
      <3> QED  BY <1>7, <3>3, <3>4
    <2>3. \A op \in DOMAIN Guard : btn # Guard[op]
      BY <2>1, SlotButtonsFree
    <2>4. /\ \A op \in DOMAIN Guard : req.op = op <=> btn = Guard[op]
          /\ req.op \notin TotpOps /\ req.op # "register_resend"
      BY <2>1, <2>3 DEF Guard, TotpOps
    <2> QED  BY <1>1, <2>1, <2>4
  <1>8. ASSUME NEW slot \in Slots, EmailDeleteClick(slot), ~UNCHANGED calls
        PROVE  \E b, r : Pressed(b, r)
    <2>1. PICK req : /\ req = [Request("email_delete") EXCEPT !.slot = slot]
                     /\ Press(SlotButton("delete", slot), req)
                     /\ UNCHANGED <<sec, accountVars>>
      BY <1>8 DEF EmailDeleteClick
    <2>2. req.op = "email_delete"
      BY <2>1 DEF Request
    <2>3. \A op \in DOMAIN Guard : SlotButton("delete", slot) # Guard[op]
      BY SlotButtonsFree
    <2>4. Pressed(SlotButton("delete", slot), req)
      BY <2>1, <2>2, <2>3 DEF Pressed, Press, Guard, TotpOps
    <2> QED  BY <2>4
  <1>9. CASE DeleteTotpTyped
    <2>1. PICK slot, req :
            /\ slot = sec.pendingDelete
            /\ req = [Request("email_delete") EXCEPT !.slot = slot, !.totp = held]
            /\ Fetch(SlotButton("delete", slot), req)
      BY <1>9 DEF DeleteTotpTyped
    <2>2. req.op = "email_delete"
      BY <2>1 DEF Request
    <2>3. \A op \in DOMAIN Guard : SlotButton("delete", slot) # Guard[op]
      BY <1>9, <2>1, SlotButtonsFree DEF AuthInv, SecurityShown, DeleteTotpTyped
    <2>4. sec'.panel = sec.panel
      BY <1>9 DEF DeleteTotpTyped, AuthInv, SecurityShown
    <2>5. Pressed(SlotButton("delete", slot), req)
      BY <1>9, <2>1, <2>2, <2>3, <2>4 DEF DeleteTotpTyped, Pressed, Staying, Guard, TotpOps
    <2> QED  BY <2>5
  <1> QED
    BY <1>3, <1>4, <1>5, <1>6, <1>7, <1>8, <1>9, <1>10 DEF SecurityUser

(***************************************************************************)
(* Answers, and other documents                                            *)
(***************************************************************************)
Untouched == UNCHANGED <<account, codes, taken, doubled, held, session>>

\* An answer is heard that changes no panel.
LEMMA HeardKeeps ==
  ASSUME AuthInv, Untouched, NEW c \in calls, calls' = calls \ {c},
         locked \ {c.btn} \subseteq locked', UNCHANGED <<page, orphaned>>,
         sec'.panel = sec.panel,
         ~orphaned /\ c.req.op \in TotpOps => ~Told(c)
  PROVE  ServerKept' /\ OrphanedOr
  <1>1. Aside
    BY DEF Aside, Untouched
  <1>2. ServerKept'
    BY <1>1, AsideKeeps
  <1> SUFFICES ASSUME ~orphaned' PROVE CodesOnce' /\ Panels'
    BY <1>2 DEF OrphanedOr
  <1>3. CodesOnce /\ Panels /\ OneEach
    BY DEF AuthInv, CodesOnce
  <1>4. CodesOnce'
    BY <1>1, <1>3, OneHeard, FreshAside
  <1>5. Panels'
    <2>1. \A b \in calls' : b.req.op \in TotpOps => TotpCall(b)'
      BY <1>3 DEF Panels, TotpCall, Effect, Untouched
    <2>2. (\A b \in calls' : b.req.op \in TotpOps => ~Told(b)) => PanelShows
      BY <1>3 DEF Panels
    <2>3. PanelShows => PanelShows'
      BY DEF PanelShows, Untouched
    <2> QED  BY <2>1, <2>2, <2>3 DEF Panels, Told, IsDone
  <1> QED  BY <1>4, <1>5

\* An error, or no answer at all.
LEMMA FailsKeeps ==
  ASSUME AuthInv, Untouched, NEW c \in calls, Fails(c), sec'.panel = sec.panel
  PROVE  ServerKept' /\ OrphanedOr
  <1>1. Aside /\ UNCHANGED page /\ locked \ {c.btn} \subseteq locked'
    BY DEF Aside, Untouched, Fails, HearsError, NetworkFails, Loses, UnlockActionButton
  <1>2. CASE /\ calls' = calls \ {c} /\ UNCHANGED orphaned /\ ~Told(c)
    BY <1>1, <1>2, HeardKeeps
  <1>3. CASE orphaned' /\ \A d \in calls' : d \in calls \/ d = [c EXCEPT !.owned = FALSE]
    <2>1. ServerKept'
      BY <1>1, <1>3, AsideKeeps
    <2> QED  BY <1>3, <2>1 DEF OrphanedOr
  <1>4. \/ /\ calls' = calls \ {c} /\ UNCHANGED orphaned /\ ~Told(c)
        \/ orphaned' /\ \A d \in calls' : d \in calls \/ d = [c EXCEPT !.owned = FALSE]
    BY DEF Fails, HearsError, NetworkFails, Hears, Loses, Told, IsDone, IsSent
  <1> QED  BY <1>2, <1>3, <1>4

\* Another document is loaded.
LEMMA LeftKeeps ==
  ASSUME AuthInv, UNCHANGED <<account, codes, taken, doubled, held>>, session' => session,
         NEW to, NEW pending, Leave(to, pending), pending \subseteq calls,
         ~orphaned => \A c \in calls \ pending : c.req.op \notin TotpOps,
         to = "security" => page = "security" \/ session,
         \/ to # "security" \/ sec' = SecStart(account)
         \/ page = "security" /\ sec'.panel = sec.panel
  PROVE  ServerKept' /\ OrphanedOr
  <1>0. \/ to = "security" /\ sec' = SecStart(account)
        \/ to # "security" \/ (page = "security" /\ sec'.panel = sec.panel)
    OBVIOUS
  <1>1. Aside
    BY DEF Aside
  <1>2. page' = to /\ \A d \in calls' : \E c \in calls : d = [c EXCEPT !.owned = FALSE]
    BY DEF Leave
  <1>3. ServerKept'
    BY <1>1, <1>2, AsideKeeps
  <1> SUFFICES ASSUME ~orphaned' PROVE CodesOnce' /\ Panels'
    BY <1>3 DEF OrphanedOr
  <1>4. ~orphaned /\ CodesOnce /\ Panels /\ OneEach
    BY DEF Leave, AuthInv, CodesOnce
  <1>5. pending = {} /\ calls' = {}
    BY <1>4 DEF Leave, OneEach
  <1>6. CodesOnce'
    BY <1>1, <1>4, <1>5, FreshAside DEF OneEach
  <1>7. PanelShows
    BY <1>4, <1>5 DEF Panels
  <1>8. CASE to = "security" /\ sec' = SecStart(account)
    <2>1. sec'.panel = RenderedPanel(account.on)
      BY <1>8 DEF SecStart
    <2>2. account.on => held = account.secret
      BY <1>7 DEF PanelShows
    <2>3. PanelShows'
      <3>1. CASE account.on
        <4>1. sec'.panel = "enabled"
          BY <2>1, <3>1 DEF RenderedPanel
        <4> QED  BY <1>2, <1>8, <2>2, <3>1, <4>1 DEF PanelShows
      <3>2. CASE ~account.on
        <4>1. sec'.panel = "disabled"
          BY <2>1, <3>2 DEF RenderedPanel
        <4> QED  BY <1>2, <1>8, <3>2, <4>1 DEF PanelShows
      <3> QED  BY <3>1, <3>2
    <2> QED  BY <1>5, <1>6, <2>3 DEF Panels
  <1>9. CASE to # "security" \/ (page = "security" /\ sec'.panel = sec.panel)
    <2>1. PanelShows'
      BY <1>2, <1>7, <1>9 DEF PanelShows
    <2> QED  BY <1>5, <1>6, <2>1 DEF Panels
  <1> QED  BY <1>0, <1>8, <1>9

\* A redirect by the handler of an answer.
LEMMA RedirectKeeps ==
  ASSUME AuthInv, Untouched, NEW c \in calls, NEW to, Redirects(c, to),
         \A op \in TotpOps : c.btn # Guard[op],
         to = "security" => page = "security" \/ session,
         \/ to # "security" \/ sec' = SecStart(account)
         \/ page = "security" /\ sec'.panel = sec.panel
  PROVE  ServerKept' /\ OrphanedOr
  <1>1. ~orphaned => c.req.op \notin TotpOps
    BY DEF AuthInv, CodesOnce, OneEach, Guarded, TotpOps, Guard
  <1> QED  BY <1>1, LeftKeeps DEF Redirects, Untouched

\* A good answer that the page takes in place.
LEMMA HeardOkKeeps ==
  ASSUME AuthInv, Untouched, NEW c \in calls, HearsOk(c), locked \ {c.btn} \subseteq locked',
         sec'.panel = sec.panel, \A op \in TotpOps : c.btn # Guard[op]
  PROVE  ServerKept' /\ OrphanedOr
  <1>1. ~orphaned => c.req.op \notin TotpOps
    BY DEF AuthInv, CodesOnce, OneEach, Guarded, TotpOps, Guard
  <1> QED  BY <1>1, HeardKeeps DEF HearsOk, Hears

\* A good answer about the authenticator.
LEMMA TotpHeard ==
  ASSUME AuthInv, UNCHANGED <<account, codes, taken, doubled, session>>, NEW c \in calls,
         HearsOk(c), UnlockActionButton(c.btn),
         NEW op \in TotpOps, c.btn = Guard[op],
         sec'.panel = [totp_start |-> "setup", totp_confirm |-> "recovery",
                       totp_disable |-> "disabled"][op],
         IF op = "totp_start" THEN held' = c.ans.n ELSE held' = held
  PROVE  ServerKept' /\ OrphanedOr
  <1>1. Aside /\ UNCHANGED page /\ calls' = calls \ {c} /\ UNCHANGED orphaned
    BY DEF Aside, HearsOk, Hears
  <1>2. ServerKept'
    BY <1>1, AsideKeeps
  <1> SUFFICES ASSUME ~orphaned' PROVE CodesOnce' /\ Panels'
    BY <1>2 DEF OrphanedOr
  <1>3. CodesOnce /\ Panels /\ OneEach
    BY <1>1 DEF AuthInv, CodesOnce
  <1>4. CodesOnce'
    BY <1>1, <1>3, OneHeard, FreshAside DEF UnlockActionButton
  <1>5. c.req.op = op
    BY <1>3 DEF OneEach, Guarded, TotpOps, Guard
  <1>6. \A b \in calls' : b.req.op \notin TotpOps
    BY <1>1, <1>3, <1>5, OneTotp
  <1>7. page = "security" /\ Effect(c)
    BY <1>3, <1>5 DEF Panels, TotpCall, Told, HearsOk, Hears
  <1>8. PanelShows'
    BY <1>1, <1>5, <1>7 DEF PanelShows, Effect, TotpOps
  <1> QED  BY <1>4, <1>6, <1>8 DEF Panels

(***************************************************************************)
(* What the security page knows                                            *)
(***************************************************************************)

\* Fields of the page change, but not what it was told at first.
LEMMA ShownStays ==
  ASSUME SecurityShown, page' = "security" => page = "security",
         {"panel", "totpEnabled", "pendingDelete"} \subseteq DOMAIN sec',
         sec'.totpEnabled = sec.totpEnabled,
         sec'.panel = sec.panel \/ sec'.panel # "enabled",
         "emailDeleteTotpModal" \in modals' => sec'.pendingDelete \in Slots
  PROVE  SecurityShown'
  BY DEF SecurityShown

\* The page is rendered from the user row.
LEMMA ShownLoads ==
  ASSUME NEW user, sec' = SecStart(user), modals' = {}
  PROVE  SecurityShown'
  <1>1. /\ {"panel", "totpEnabled", "pendingDelete"} \subseteq DOMAIN sec'
        /\ sec'.panel = RenderedPanel(user.on) /\ sec'.totpEnabled = user.on
    BY DEF SecStart
  <1>2. sec'.panel = "enabled" => sec'.totpEnabled
    BY <1>1 DEF RenderedPanel
  <1> QED  BY <1>1, <1>2 DEF SecurityShown

LEMMA AuthUserShown ==
  ASSUME SecurityShown, AuthUser, UNCHANGED sec
  PROVE  SecurityShown'
  <1>1. /\ UNCHANGED page
        /\ modals' \subseteq modals \cup {"registerModal", "loginModal"}
    BY DEF AuthUser, OpenModal, CloseModal, RegisterSubmit, RegisterConfirmClick,
           RegisterResendClick, LoginSubmit, LoginConfirmClick, LoginResendClick,
           ForgotSendClick, ForgotResendClick, ForgotVerifyClick, NewPasswordClick,
           LanguageClick, PostResend, Press, callVars, authVars
  <1> QED  BY <1>1 DEF SecurityShown

LEMMA SecurityUserShown ==
  ASSUME SecurityShown, SecurityUser
  PROVE  SecurityShown'
  <1> USE DEF PressHere, Press, Staying, authVars
  <1>1. CASE UNCHANGED <<page, modals, sec>>
    BY <1>1 DEF SecurityShown
  <1>2. CASE \/ PasswordSendClick \/ PasswordResendClick \/ PasswordConfirmClick
             \/ TotpEnableClick \/ TotpConfirmClick \/ TotpDisableClick
    BY <1>1, <1>2
    DEF PasswordSendClick, PasswordResendClick, PasswordConfirmClick, TotpEnableClick,
        TotpConfirmClick, TotpDisableClick, PostTotp
  <1>3. CASE \E slot \in Slots : EmailConfirmClick(slot) \/ EmailResendClick(slot)
    BY <1>1, <1>3 DEF EmailConfirmClick, EmailResendClick
  <1>4. CASE \E slot \in Slots : EmailDeleteClick(slot)
    <2>1. PICK slot \in Slots : EmailDeleteClick(slot)
      BY <1>4
    <2>2. CASE sec' = [sec EXCEPT !.pendingDelete = slot, !.deleteBusy = FALSE]
               /\ UNCHANGED page
      <3>1. sec'.pendingDelete = slot
        BY <2>2 DEF SecurityShown
      <3> QED  BY <2>2, <3>1, ShownStays DEF SecurityShown
    <2> QED  BY <1>1, <2>1, <2>2 DEF EmailDeleteClick
  <1>5. CASE DeleteTotpTyped
    <2>1. sec' = [sec EXCEPT !.deleteBusy = TRUE] /\ UNCHANGED <<page, modals>>
      BY <1>5 DEF DeleteTotpTyped
    <2> QED  BY <2>1, ShownStays DEF SecurityShown
  <1>6. CASE DeleteTotpClose
    <2>1. /\ sec' = [sec EXCEPT !.pendingDelete = 0, !.deleteBusy = FALSE]
          /\ UNCHANGED page /\ "emailDeleteTotpModal" \notin modals'
      BY <1>6 DEF DeleteTotpClose
    <2> QED  BY <2>1, ShownStays DEF SecurityShown
  <1>7. CASE DeleteTotpEscape
    BY <1>7 DEF DeleteTotpEscape, CloseModal, callVars, SecurityShown
  <1>8. CASE RecoveryDone
    BY <1>8, ShownLoads DEF RecoveryDone, EntryLoads, NoSec
  <1> QED
    BY <1>2, <1>3, <1>4, <1>5, <1>6, <1>7, <1>8 DEF SecurityUser

LEMMA HearShown ==
  ASSUME SecurityShown, Hear
  PROVE  SecurityShown'
  <1>1. PICK c \in calls : \/ AuthAnswer(c) /\ UNCHANGED secVars
                           \/ SecurityAnswer(c)
    BY DEF Hear
  <1> USE DEF Staying, authVars, Fails, HearsError, NetworkFails, Loses, Hears, HearsOk
  <1>2. CASE AuthAnswer(c) /\ UNCHANGED sec
    <2>1. page' = "security" => page = "security"
      BY <1>2
      DEF AuthAnswer, RegisterSubmitted, RegisterConfirmed, ResendAnswered, LoginSubmitted,
          LoginConfirmed, ForgotSent, ForgotVerified, NewPasswordSet, LanguageSet,
          Redirects, Leave, Landing
    <2>2. modals' = modals \/ modals' = {}
      BY <1>2
      DEF AuthAnswer, RegisterSubmitted, RegisterConfirmed, ResendAnswered, LoginSubmitted,
          LoginConfirmed, ForgotSent, ForgotVerified, NewPasswordSet, LanguageSet,
          EntryLoads
    <2> QED  BY <1>2, <2>1, <2>2 DEF SecurityShown
  <1>3. CASE UNCHANGED <<page, modals, sec>>
    BY <1>3 DEF SecurityShown
  <1>4. ASSUME NEW d, ReloadsSecurity(d)
        PROVE  SecurityShown'
    BY <1>4, ShownLoads DEF ReloadsSecurity, EntryLoads, NoSec
  <1>5. ASSUME UNCHANGED <<page, modals>>,
               /\ DOMAIN sec' = DOMAIN sec /\ sec'.totpEnabled = sec.totpEnabled
               /\ sec'.panel = sec.panel \/ sec'.panel # "enabled"
               /\ sec'.pendingDelete = sec.pendingDelete
        PROVE  SecurityShown'
    BY <1>5, ShownStays DEF SecurityShown
  <1>6. CASE SecurityAnswer(c)
    <2>1. CASE PasswordSent(c) \/ PasswordResent(c) \/ PasswordConfirmed(c)
      <3>1. UNCHANGED <<page, modals>>
        BY <2>1 DEF PasswordSent, PasswordResent, PasswordConfirmed, Refused, Rested
      <3>2. \/ UNCHANGED sec
            \/ \E x, y : \/ sec' = [sec EXCEPT !.pwTotp = x]
                         \/ sec' = [sec EXCEPT !.pwTotp = x, !.codeBlock = y]
                         \/ sec' = [sec EXCEPT !.codeBlock = y, !.pwTotp = x]
        BY <2>1 DEF PasswordSent, PasswordResent, PasswordConfirmed, Refused, Rested
      <3> QED  BY <1>3, <1>5, <3>1, <3>2 DEF SecurityShown
    <2>2. CASE TotpStarted(c) \/ TotpConfirmed(c) \/ TotpDisabled(c)
      <3>1. UNCHANGED <<page, modals>>
        BY <2>2 DEF TotpStarted, TotpConfirmed, TotpDisabled, Refused, Released
      <3>2. UNCHANGED sec \/ \E panel : /\ panel # "enabled"
                                        /\ sec' = [sec EXCEPT !.panel = panel]
        <4>1. "setup" # "enabled" /\ "recovery" # "enabled" /\ RenderedPanel(FALSE) # "enabled"
          BY DEF RenderedPanel
        <4> QED
          BY <2>2, <4>1 DEF TotpStarted, TotpConfirmed, TotpDisabled, Refused, Released
      <3> QED  BY <1>3, <1>5, <3>1, <3>2 DEF SecurityShown
    <2>3. ASSUME NEW slot \in Slots,
                 \/ EmailConfirmAnswered(c, slot) \/ EmailResent(c, slot)
                 \/ EmailDeleteAnswered(c, slot)
          PROVE  SecurityShown'
      <3>1. \/ ReloadsSecurity(c)
            \/ /\ UNCHANGED <<page, modals>>
               /\ \/ UNCHANGED sec
                  \/ sec' = [sec EXCEPT !.slots = @ \cup {slot}]
                  \/ sec' = [sec EXCEPT !.deleteBusy = FALSE]
        BY <2>3
        DEF EmailConfirmAnswered, EmailResent, EmailDeleteAnswered, Refused, Released, Rested
      <3> QED  BY <1>3, <1>4, <1>5, <3>1 DEF SecurityShown
    <2> QED  BY <1>6, <2>1, <2>2, <2>3 DEF SecurityAnswer
  <1> QED  BY <1>1, <1>2, <1>6 DEF secVars

(***************************************************************************)
(* Every step keeps the invariant of the codes and the authenticator       *)
(***************************************************************************)

\* The answers to the entry pages.
LEMMA AuthAnswerKeeps ==
  ASSUME AuthInv, NEW c \in calls, AuthAnswer(c), UNCHANGED sec
  PROVE  ServerKept' /\ OrphanedOr
  <1> USE DEF accountVars, serverVars
  <1>1. Untouched
    BY DEF AuthAnswer, RegisterSubmitted, RegisterConfirmed, ResendAnswered, LoginSubmitted,
           LoginConfirmed, ForgotSent, ForgotVerified, NewPasswordSet, LanguageSet, Untouched
  <1>2. \A op \in TotpOps : c.btn # Guard[op]
    BY DEF AuthAnswer, RegisterSubmitted, RegisterConfirmed, ResendAnswered, LoginSubmitted,
           LoginConfirmed, ForgotSent, ForgotVerified, NewPasswordSet, LanguageSet, TotpOps,
           Guard
  <1>3. \/ Fails(c)
        \/ HearsOk(c) /\ locked \ {c.btn} \subseteq locked'
        \/ \E to : Redirects(c, to) /\ (to = "security" => page = "security")
    BY DEF AuthAnswer, RegisterSubmitted, RegisterConfirmed, ResendAnswered, LoginSubmitted,
           LoginConfirmed, ForgotSent, ForgotVerified, NewPasswordSet, LanguageSet, Fails,
           UnlockActionButton, StartResendCooldown, Landing
  <1>4. ASSUME NEW to, Redirects(c, to), to = "security" => page = "security"
        PROVE  ServerKept' /\ OrphanedOr
    BY <1>1, <1>2, <1>4, RedirectKeeps
  <1>5. CASE Fails(c)
    BY <1>1, <1>5, FailsKeeps
  <1>6. CASE HearsOk(c) /\ locked \ {c.btn} \subseteq locked'
    BY <1>1, <1>2, <1>6, HeardOkKeeps
  <1> QED  BY <1>3, <1>4, <1>5, <1>6

\* The answers to the security page.
LEMMA SecurityAnswerKeeps ==
  ASSUME AuthInv, NEW c \in calls, SecurityAnswer(c)
  PROVE  ServerKept' /\ OrphanedOr
  <1> USE DEF accountVars, serverVars, Staying
  <1>1. ASSUME Untouched, Fails(c), sec'.panel = sec.panel
        PROVE  ServerKept' /\ OrphanedOr
    BY <1>1, FailsKeeps
  <1>2. ASSUME Untouched, HearsOk(c), locked \ {c.btn} \subseteq locked',
               sec'.panel = sec.panel, \A op \in TotpOps : c.btn # Guard[op]
        PROVE  ServerKept' /\ OrphanedOr
    BY <1>2, HeardOkKeeps
  <1>3. ASSUME Untouched, ReloadsSecurity(c), \A op \in TotpOps : c.btn # Guard[op]
        PROVE  ServerKept' /\ OrphanedOr
    <2>1. PICK to : /\ to = Landing("security") /\ Redirects(c, to)
                    /\ sec' = IF to = "security" THEN SecStart(account) ELSE NoSec
      BY <1>3 DEF ReloadsSecurity
    <2>2. to = "security" => session
      BY <2>1 DEF Landing
    <2> QED  BY <1>3, <2>1, <2>2, RedirectKeeps
  <1>4. CASE PasswordSent(c) \/ PasswordResent(c) \/ PasswordConfirmed(c)
    <2>1. /\ Untouched
          /\ \/ Fails(c) /\ UNCHANGED sec
             \/ HearsOk(c) /\ locked \ {c.btn} \subseteq locked'
      BY <1>4 DEF PasswordSent, PasswordResent, PasswordConfirmed, Refused, Rested,
                  Untouched, StartResendCooldown
    <2>2. sec'.panel = sec.panel
      BY <1>4 DEF PasswordSent, PasswordResent, PasswordConfirmed, Refused, Rested, AuthInv,
                  SecurityShown
    <2>3. \A op \in TotpOps : c.btn # Guard[op]
      BY <1>4 DEF PasswordSent, PasswordResent, PasswordConfirmed, TotpOps, Guard
    <2> QED  BY <1>1, <1>2, <2>1, <2>2, <2>3
  <1>5. CASE TotpStarted(c) \/ TotpConfirmed(c) \/ TotpDisabled(c)
    <2>1. CASE Refused(c) /\ UNCHANGED held
      <3>1. Untouched
        BY <1>5, <2>1 DEF TotpStarted, TotpConfirmed, TotpDisabled, Untouched
      <3> QED  BY <1>1, <2>1, <3>1 DEF Refused
    <2>2. CASE TotpStarted(c) /\ ~(Refused(c) /\ UNCHANGED held)
      <3>1. sec'.panel = "setup"
        BY <2>2 DEF TotpStarted, Released, AuthInv, SecurityShown
      <3>2. /\ HearsOk(c) /\ UnlockActionButton(c.btn) /\ held' = c.ans.n
            /\ UNCHANGED <<account, codes, taken, doubled, session>>
            /\ c.btn = Guard["totp_start"]
        BY <2>2 DEF TotpStarted, Released, Guard
      <3> QED  BY <3>1, <3>2, TotpHeard DEF TotpOps
    <2>3. CASE TotpConfirmed(c) /\ ~(Refused(c) /\ UNCHANGED held)
      <3>1. sec'.panel = "recovery"
        BY <2>3 DEF TotpConfirmed, Released, AuthInv, SecurityShown
      <3>2. /\ HearsOk(c) /\ UnlockActionButton(c.btn) /\ held' = held
            /\ UNCHANGED <<account, codes, taken, doubled, session>>
            /\ c.btn = Guard["totp_confirm"]
        BY <2>3 DEF TotpConfirmed, Released, Guard
      <3> QED  BY <3>1, <3>2, TotpHeard DEF TotpOps
    <2>4. CASE TotpDisabled(c) /\ ~(Refused(c) /\ UNCHANGED held)
      <3>1. sec'.panel = "disabled"
        BY <2>4 DEF TotpDisabled, Released, AuthInv, SecurityShown, RenderedPanel
      <3>2. /\ HearsOk(c) /\ UnlockActionButton(c.btn) /\ held' = held
            /\ UNCHANGED <<account, codes, taken, doubled, session>>
            /\ c.btn = Guard["totp_disable"]
        BY <2>4 DEF TotpDisabled, Released, Guard
      <3> QED  BY <3>1, <3>2, TotpHeard DEF TotpOps
    <2> QED  BY <1>5, <2>1, <2>2, <2>3, <2>4
  <1>6. ASSUME NEW slot \in Slots,
               \/ EmailConfirmAnswered(c, slot) \/ EmailResent(c, slot)
               \/ EmailDeleteAnswered(c, slot)
        PROVE  ServerKept' /\ OrphanedOr
    <2>1. \A op \in TotpOps : c.btn # Guard[op]
      <3>1. TotpOps \subseteq DOMAIN Guard
        BY DEF TotpOps, Guard
      <3> QED
        BY <1>6, <3>1, SlotButtonsFree
        DEF EmailConfirmAnswered, EmailResent, EmailDeleteAnswered
    <2>2. \/ Untouched /\ ReloadsSecurity(c)
          \/ /\ Untouched
             /\ Fails(c) \/ (HearsOk(c) /\ locked \ {c.btn} \subseteq locked')
             /\ \/ UNCHANGED sec
                \/ sec' = [sec EXCEPT !.slots = @ \cup {slot}]
                \/ sec' = [sec EXCEPT !.deleteBusy = FALSE]
      BY <1>6
      DEF EmailConfirmAnswered, EmailResent, EmailDeleteAnswered, Refused, Released, Rested,
          UnlockActionButton, StartResendCooldown, Untouched
    <2>3. CASE \/ UNCHANGED sec
               \/ sec' = [sec EXCEPT !.slots = @ \cup {slot}]
               \/ sec' = [sec EXCEPT !.deleteBusy = FALSE]
      <3>1. sec'.panel = sec.panel
        BY <2>3 DEF AuthInv, SecurityShown
      <3> QED  BY <1>1, <1>2, <1>3, <2>1, <2>2, <3>1
    <2> QED  BY <1>3, <2>1, <2>2, <2>3
  <1> QED  BY <1>4, <1>5, <1>6 DEF SecurityAnswer

\* The tab moves on.
LEMMA LandsKeeps ==
  ASSUME AuthInv, NEW to, Lands(to), session' => session, to = "security" => session
  PROVE  ServerKept' /\ OrphanedOr /\ SecurityShown'
  <1>1. ServerKept' /\ OrphanedOr
    BY LeftKeeps DEF Lands
  <1>2. SecurityShown'
    BY ShownLoads DEF Lands, EntryLoads, NoSec
  <1> QED  BY <1>1, <1>2

\* The clicks of the security page.
LEMMA SecurityUserStays ==
  ASSUME AuthInv, SecurityUser
  PROVE  ServerKept' /\ OrphanedOr
  <1> USE DEF accountVars, serverVars
  <1>1. CASE DeleteTotpClose
    <2>1. PICK btn : /\ btn = SlotButton("delete", sec.pendingDelete)
                     /\ locked' = locked \ {btn}
      BY <1>1 DEF DeleteTotpClose
    <2>2. \A op \in DOMAIN Guard : btn # Guard[op]
      BY <1>1, <2>1, SlotButtonsFree DEF DeleteTotpClose, AuthInv, SecurityShown
    <2>3. sec'.panel = sec.panel
      BY <1>1 DEF DeleteTotpClose, AuthInv, SecurityShown
    <2> QED  BY <1>1, <2>1, <2>2, <2>3, StillKeeps DEF DeleteTotpClose
  <1>2. \A op \in DOMAIN Guard : "language" # Guard[op]
    BY DEF Guard
  <1>3. CASE DeleteTotpEscape
    BY <1>2, <1>3, StillKeeps DEF DeleteTotpEscape, CloseModal, callVars
  <1>4. ASSUME NEW slot \in Slots, EmailDeleteClick(slot), UNCHANGED calls
        PROVE  ServerKept' /\ OrphanedOr
    <2>1. sec'.panel = sec.panel /\ locked \subseteq locked'
      BY <1>4 DEF EmailDeleteClick, LockActionButton, Press, AuthInv, SecurityShown
    <2>2. UNCHANGED <<page, calls, orphaned, accountVars>>
      BY <1>4 DEF EmailDeleteClick, Press
    <2> QED  BY <1>2, <2>1, <2>2, StillKeeps
  <1>5. CASE RecoveryDone
    <2>1. PICK to : /\ Leave(to, calls)
                    /\ sec' = IF to = "security" THEN SecStart(account) ELSE NoSec
      BY <1>5 DEF RecoveryDone
    <2>2. page = "security" /\ UNCHANGED accountVars
      BY <1>5 DEF RecoveryDone, AtSecurity
    <2> QED  BY <2>1, <2>2, LeftKeeps
  <1> QED  BY <1>1, <1>3, <1>4, <1>5, SecurityUserPresses, PressedKeeps

\* The routes.
LEMMA ServerStays ==
  ASSUME AuthInv, Server
  PROVE  AuthInv'
  <1>1. PICK c \in calls : /\ \/ RouteReads(c) \/ NotAuthenticated(c)
                              \/ AuthRoute(c) \/ SettingsRoute(c) \/ SetLanguage(c)
                           /\ UNCHANGED <<authVars, secVars>>
    BY DEF Server
  <1>2. Inv'
    BY ServerKeeps DEF AuthInv
  <1>3. PICK d : Becomes(c, d)
    BY <1>1, Served
  <1>4. CodeStep(c)
    BY <1>1, RoutesOfCodes
  <1>5. UNCHANGED <<page, locked, orphaned, held, modals, sec>>
    BY <1>1, Served DEF authVars, secVars
  <1>6. Inv /\ CodesKept /\ RowsKept /\ RowsHave /\ Unregistered /\ Addressed
    BY DEF AuthInv, ServerKept
  <1>7. CodesKept' /\ RowsKept' /\ RowsHave'
    BY <1>1, <1>3, <1>4, <1>6, CodesStep, RowsServed, RowsHaveServed
  <1>8. Unregistered'
    BY <1>1, <1>3, <1>6, StrangerServed
  <1>9. Addressed'
    BY <1>3, <1>6 DEF Addressed, Becomes
  <1>10. SecurityShown'
    BY <1>5 DEF AuthInv, SecurityShown
  <1>11. ASSUME ~orphaned'
         PROVE  CodesOnce' /\ Panels'
    <2>1. CodesOnce /\ Panels /\ OneEach
      BY <1>5, <1>11 DEF AuthInv, CodesOnce
    <2>2. ResetTokenOnce'
      BY <1>2 DEF Inv, TokensMarked
    <2>3. CodesOnce'
      BY <1>3, <1>4, <1>5, <1>6, <2>1, <2>2, OnceServed
    <2>4. Panels'
      BY <1>1, <1>5, <1>6, <2>1, PanelsServed
    <2> QED  BY <2>3, <2>4
  <1> QED  BY <1>2, <1>7, <1>8, <1>9, <1>10, <1>11 DEF AuthInv, ServerKept

\* Every step.
LEMMA AuthStep ==
  ASSUME AuthInv, [Next]_vars
  PROVE  AuthInv'
  <1> USE DEF accountVars, serverVars
  <1>1. Inv'
    BY StepKeeps DEF AuthInv
  <1>2. ASSUME ServerKept', OrphanedOr, SecurityShown'
        PROVE  AuthInv'
    BY <1>1, <1>2 DEF AuthInv, OrphanedOr
  <1>3. ASSUME UNCHANGED <<page, locked, calls, orphaned, accountVars, sec>>
        PROVE  ServerKept' /\ OrphanedOr
    <2>1. \A op \in DOMAIN Guard : "language" # Guard[op]
      BY DEF Guard
    <2> QED  BY <1>3, <2>1, StillKeeps
  <1>4. CASE AuthUser /\ UNCHANGED secVars
    <2>1. SecurityShown'
      BY <1>4, AuthUserShown DEF AuthInv, secVars
    <2>2. ServerKept' /\ OrphanedOr
      BY <1>3, <1>4, AuthUserPresses, PressedKeeps DEF callVars, secVars
    <2> QED  BY <1>2, <2>1, <2>2
  <1>5. CASE SecurityUser
    BY <1>2, <1>5, SecurityUserStays, SecurityUserShown DEF AuthInv
  <1>6. CASE Navigate
    <2>1. PICK p \in Pages : Lands(Landing(p)) /\ UNCHANGED session
      BY <1>6 DEF Navigate
    <2>2. Landing(p) = "security" => session
      BY DEF Landing
    <2> QED  BY <1>2, <2>1, <2>2, LandsKeeps
  <1>7. CASE Logout
    BY <1>2, <1>7, LandsKeeps DEF Logout
  <1>8. CASE Server
    BY <1>8, ServerStays
  <1>9. CASE Hear
    <2>1. SecurityShown'
      BY <1>9, HearShown DEF AuthInv
    <2>2. ServerKept' /\ OrphanedOr
      BY <1>9, AuthAnswerKeeps, SecurityAnswerKeeps DEF Hear, secVars
    <2> QED  BY <1>2, <2>1, <2>2
  <1>10. CASE Time \/ UNCHANGED vars
    <2>1. UNCHANGED <<page, locked, calls, orphaned, account, codes, taken, doubled, held,
                      session, sec, modals>>
      BY <1>10 DEF Time, CooldownEnds, CooldownPasses, vars, callVars, authVars, secVars
    <2>2. SecurityShown'
      BY <2>1 DEF AuthInv, SecurityShown
    <2>3. \A op \in DOMAIN Guard : "language" # Guard[op]
      BY DEF Guard
    <2>4. ServerKept' /\ OrphanedOr
      BY <2>1, <2>3, StillKeeps
    <2> QED  BY <1>2, <2>2, <2>4
  <1> QED  BY <1>4, <1>5, <1>6, <1>7, <1>8, <1>9, <1>10 DEF Next, User

\* A visit starts with the request of a page that is as it was loaded.
LEMMA AuthStarts ==
  Init => AuthInv
  <1> SUFFICES ASSUME Init PROVE AuthInv
    OBVIOUS
  <1>1. PICK v \in Visits :
          /\ account = v.user /\ page = v.page /\ modals = v.modal
          /\ calls = {Sent(1, v.btn, v.req)} /\ locked = {v.btn}
          /\ session = (page = "security")
          /\ codes = [p \in Purposes |-> [n |-> 0, live |-> FALSE, tries |-> 0]]
          /\ taken = {} /\ doubled = {} /\ held = account.secret
          /\ sec = IF page = "security" THEN SecStart(account) ELSE NoSec
    BY DEF Init
  <1>2. PICK c : c = Sent(1, v.btn, v.req)
    OBVIOUS
  <1>3. /\ calls = {c} /\ c.owned /\ c.btn = v.btn /\ c.req = v.req
        /\ c.stage = "sent"
    BY <1>1, <1>2 DEF Sent
  <1>4. /\ v.user \in Users /\ v.btn \in DOMAIN FirstRequest
        /\ v.req.op = FirstRequest[v.btn]
        /\ v.user.email[1] = None => v.user = NoUser /\ v.page # "security"
        /\ v.btn = "totpEnable" => v.page = "security" /\ ~v.user.on
        /\ v.btn = "totpDisable" => v.page = "security" /\ v.user.on
        /\ v.modal \subseteq {"registerModal", "loginModal"}
    BY VisitsStart
  <1>5. CodesKept /\ RowsKept
    BY <1>1, <1>3 DEF CodesKept, RowsKept, IsRead
  <1>6. RowsHave
    BY <1>1, <1>3, <1>4 DEF RowsHave, Row, Users, IsRead
  <1>7. Unregistered
    <2> SUFFICES ASSUME account.email[1] = None PROVE Unregistered
      BY DEF Unregistered
    <2>1. Stranger(account) /\ page # "security"
      BY <1>1, <1>4 DEF Stranger, NoUser
    <2> QED  BY <1>1, <1>3, <2>1 DEF Unregistered, IsRead
  <1>8. Addressed
    BY <1>3, <1>4 DEF Addressed, FirstRequest
  <1>9. /\ {"panel", "totpEnabled", "pendingDelete"} \subseteq DOMAIN sec
        /\ page = "security" => /\ sec.panel = RenderedPanel(account.on)
                                /\ sec.totpEnabled = account.on
    BY <1>1 DEF SecStart, NoSec
  <1>10. SecurityShown
    BY <1>1, <1>4, <1>9 DEF SecurityShown, RenderedPanel
  <1>11. CodesOnce
    <2>1. Guarded(c)
      BY <1>1, <1>3, <1>4 DEF Guarded, Guard, FirstRequest
    <2> QED  BY <1>1, <1>3, <2>1 DEF CodesOnce, OneEach, RowsFresh, IsRead
  <1>12. Panels
    <2>1. PanelShows
      BY <1>1, <1>4, <1>9 DEF PanelShows, RenderedPanel, Users
    <2>2. c.req.op \in TotpOps => TotpCall(c)
      BY <1>1, <1>3, <1>4, <1>9
      DEF TotpCall, TotpOps, FirstRequest, PanelOf, RenderedPanel, IsRead, IsDone, Told
    <2> QED  BY <1>3, <2>1, <2>2 DEF Panels
  <1> QED
    BY <1>5, <1>6, <1>7, <1>8, <1>10, <1>11, <1>12, Starts DEF AuthInv, ServerKept

\* verify_code reads a code and uses it up in two steps: while no request outlived its
\* page or its answer, no login code, reset code or password code passes twice, since
\* the pending mark of the one button that sends it stays until its answer is heard.
THEOREM CodePassesOnce ==
  Spec => []CodeUsedOnce
  <1>1. AuthInv => CodeUsedOnce
    BY DEF AuthInv, CodesOnce, CodeUsedOnce
  <1> QED  BY <1>1, AuthStarts, AuthStep, PTL DEF Spec

\* totp/setup/start, totp/setup/confirm and totp/disable: with no request left behind,
\* an account that asks for the authenticator asks for the one the user holds.
THEOREM AuthenticatorIsHeld ==
  Spec => []AuthenticatorMatches
  <1>1. AuthInv => AuthenticatorMatches
    <2> SUFFICES ASSUME AuthInv, account.on, ~orphaned PROVE held = account.secret
      BY DEF AuthenticatorMatches
    <2>1. Panels
      BY DEF AuthInv
    <2>2. CASE PanelShows
      BY <2>2 DEF PanelShows
    <2>3. ASSUME NEW c \in calls, c.req.op \in TotpOps, Told(c)
          PROVE  held = account.secret
      BY <2>1, <2>3 DEF Panels, TotpCall, Effect, TotpOps
    <2> QED  BY <2>1, <2>2, <2>3 DEF Panels
  <1> QED  BY <1>1, AuthStarts, AuthStep, PTL DEF Spec

\* initEmailsManager: the page's own idea of the authenticator lags behind the account
\* only while the recovery codes are shown or about to be.
THEOREM TotpIsAskedFor ==
  Spec => []TotpAskedWhenRequired
  <1>1. AuthInv => TotpAskedWhenRequired
    <2> SUFFICES ASSUME AuthInv, page = "security", ~orphaned, account.on, ~sec.totpEnabled
                 PROVE  sec.panel = "recovery" \/ Awaited("totpConfirm") # {}
      BY DEF TotpAskedWhenRequired
    <2>1. Panels /\ OneEach
      BY DEF AuthInv, CodesOnce
    <2>2. CASE PanelShows
      BY <2>2 DEF PanelShows, AuthInv, SecurityShown
    <2>3. ASSUME NEW c \in calls, c.req.op \in TotpOps, Told(c)
          PROVE  Awaited("totpConfirm") # {}
      <3>1. c.req.op = "totp_confirm"
        BY <2>1, <2>3 DEF Panels, TotpCall, Effect, TotpOps
      <3>2. c.owned /\ c.btn = "totpConfirm"
        BY <2>1, <3>1 DEF OneEach, Guarded, Guard
      <3> QED  BY <3>2 DEF Awaited
    <2> QED  BY <2>1, <2>2, <2>3 DEF Panels
  <1> QED  BY <1>1, AuthStarts, AuthStep, PTL DEF Spec

(***************************************************************************)
(* Types                                                                   *)
(***************************************************************************)

\* A call, with the row its route has read and the number its answer carries.
CallTyped(c) ==
  /\ {"id", "btn", "req", "owned", "stage"} \subseteq DOMAIN c
  /\ c.id \in Ids /\ c.btn \in Buttons /\ c.owned \in BOOLEAN
  /\ c.req.op \in Ops /\ c.req.email \in Emails \cup {None}
  /\ c.stage \in {"sent", "read", "done"}
  /\ IsRead(c) => "seen" \in DOMAIN c /\ c.seen.user \in Users
  /\ IsDone(c) => "ans" \in DOMAIN c /\ c.ans.n \in 0..(MaxCalls + 1)

\* Each call in flight has a number of its own.
CallsTyped ==
  /\ \A c \in calls : CallTyped(c)
  /\ \A c, d \in calls : c.id = d.id => c = d

\* The calls the server has yet to answer.
Unanswered == {c.id : c \in {d \in calls : ~IsDone(d)}}

Secrets == 0..(MaxCalls + 1)
CodeRows == [n : Nat, live : BOOLEAN, tries : 0..MaxTries]

\* A secret, a token and a code are made by answering a call.
Budget ==
  /\ minted + Cardinality(Unanswered) <= made + 1
  /\ tokens.n + Cardinality(Unanswered) <= made + 1
  /\ \A p \in Purposes : codes[p].n + Cardinality(Unanswered) <= made

ServerTyped ==
  /\ account \in Users
  /\ codes \in [Purposes -> CodeRows]
  /\ DOMAIN tokens = {"n", "used"} /\ tokens.n \in Nat
  /\ minted \in Nat /\ held \in Secrets

PageTyped ==
  /\ page \in Pages /\ locked \subseteq Buttons /\ cooling \subseteq Buttons
  /\ made \in 0..MaxCalls /\ losses \in 0..MaxLost /\ orphaned \in BOOLEAN
  /\ modals \subseteq {"registerModal", "loginModal", "emailDeleteTotpModal"}

EntryTyped ==
  /\ {"register", "login", "pending"} \subseteq DOMAIN entry
  /\ entry.register \in {1, 2} /\ entry.login \in {1, 2}
  /\ entry.pending \in Emails \cup {None}

SecTyped ==
  /\ {"shown", "panel", "slots", "pendingDelete"} \subseteq DOMAIN sec
  /\ sec.shown \in Users /\ sec.panel \in TotpPanels
  /\ sec.slots \subseteq Slots /\ sec.pendingDelete \in {0} \cup Slots

TypeInv == CallsTyped /\ Budget /\ ServerTyped /\ PageTyped /\ EntryTyped /\ SecTyped

LEMMA UnansweredFinite ==
  ASSUME CallsTyped
  PROVE  IsFiniteSet(Unanswered) /\ Cardinality(Unanswered) \in Nat
  <1>1. Unanswered \subseteq 1..MaxFlight
    BY DEF Unanswered, CallsTyped, CallTyped, Ids
  <1>2. IsFiniteSet(1..MaxFlight)
    BY PageBounds, FS_Interval
  <1> QED  BY <1>1, <1>2, FS_Subset, FS_CardinalityType

\* No more calls are in flight than there are numbers for them.
LEMMA FlightBounded ==
  ASSUME CallsTyped
  PROVE  Cardinality(calls) <= MaxFlight
  <1> DEFINE number == [c \in calls |-> c.id]
  <1>1. number \in Injection(calls, 1..MaxFlight)
    BY DEF Injection, IsInjective, CallsTyped, CallTyped, Ids
  <1>2. IsFiniteSet(1..MaxFlight) /\ Cardinality(1..MaxFlight) <= MaxFlight
    BY PageBounds, FS_Interval
  <1>3. Cardinality(calls) <= Cardinality(1..MaxFlight)
    BY <1>1, <1>2, FS_Injection
  <1>4. IsFiniteSet(calls)
    BY <1>1, <1>2, FS_Injection
  <1> QED
    BY <1>2, <1>3, <1>4, PageBounds, FS_CardinalityType

LEMMA TypesFollow ==
  ASSUME TypeInv
  PROVE  TypeOK
  <1>1. Cardinality(Unanswered) \in Nat /\ Cardinality(calls) <= MaxFlight
    BY UnansweredFinite, FlightBounded DEF TypeInv
  <1>2. minted \in 0..(MaxCalls + 1)
    BY <1>1, PageBounds DEF TypeInv, Budget, ServerTyped, PageTyped
  <1>3. \A p \in Purposes : codes[p].n \in 0..MaxCalls /\ codes[p].tries \in 0..MaxTries
    BY <1>1, PageBounds DEF TypeInv, Budget, ServerTyped, PageTyped, CodeRows
  <1> QED
    BY <1>1, <1>2, <1>3
    DEF TypeInv, TypeOK, ServerTyped, PageTyped, EntryTyped, SecTyped, CallsTyped, CallTyped,
        Secrets

(***************************************************************************)
(* How calls move                                                          *)
(***************************************************************************)

\* Calls that are heard of, disowned, or served.
LEMMA CallsMove ==
  ASSUME CallsTyped,
         \A d \in calls' : CallTyped(d),
         \A d \in calls' : \E c \in calls : c.id = d.id,
         \A d, e \in calls' : d.id = e.id => d = e
  PROVE  CallsTyped'
  BY DEF CallsTyped, CallTyped, IsRead, IsDone

LEMMA DisownedTyped ==
  ASSUME NEW c, CallTyped(c)
  PROVE  /\ CallTyped([c EXCEPT !.owned = FALSE])
         /\ [c EXCEPT !.owned = FALSE].id = c.id
         /\ IsDone([c EXCEPT !.owned = FALSE]) <=> IsDone(c)
  <1> DEFINE d == [c EXCEPT !.owned = FALSE]
  <1>1. /\ DOMAIN d = DOMAIN c
        /\ d.id = c.id /\ d.btn = c.btn /\ d.req = c.req /\ d.stage = c.stage
        /\ d.owned = FALSE
        /\ "ans" \in DOMAIN c => d.ans = c.ans
        /\ "seen" \in DOMAIN c => d.seen = c.seen
    BY DEF CallTyped
  <1> HIDE DEF d
  <1>2. CallTyped(d) /\ d.id = c.id /\ (IsDone(d) <=> IsDone(c))
    BY <1>1 DEF CallTyped, IsRead, IsDone
  <1> QED  BY <1>2 DEF d

\* A request leaves the page.
LEMMA FetchTyped ==
  ASSUME CallsTyped, Budget, ServerTyped, PageTyped, NEW btn \in Buttons, NEW req, Fetch(btn, req),
         req.op \in Ops, req.email \in Emails \cup {None},
         UNCHANGED <<minted, tokens, codes>>
  PROVE  CallsTyped' /\ Budget' /\ made' \in 0..MaxCalls
  <1>1. PICK id \in Ids \ {c.id : c \in calls} : calls' = calls \cup {Sent(id, btn, req)}
    BY DEF Fetch
  <1>2. PICK d : d = Sent(id, btn, req)
    OBVIOUS
  <1>3. d.id = id /\ CallTyped(d) /\ ~IsDone(d)
    BY <1>1, <1>2 DEF CallTyped, Sent, IsRead, IsDone
  <1>4. CallsTyped'
    <2>1. \A e \in calls' : CallTyped(e)
      BY <1>1, <1>2, <1>3 DEF CallsTyped
    <2>2. \A e, f \in calls' : e.id = f.id => e = f
      BY <1>1, <1>2, <1>3 DEF CallsTyped
    <2> QED  BY <2>1, <2>2 DEF CallsTyped, CallTyped, IsRead, IsDone
  <1>5. Unanswered' = Unanswered \cup {id}
    BY <1>1, <1>2, <1>3 DEF Unanswered, IsDone
  <1>6. Cardinality(Unanswered') = Cardinality(Unanswered) + 1
    <2>1. id \notin Unanswered
      BY <1>1 DEF Unanswered
    <2> QED  BY <1>5, <2>1, UnansweredFinite, FS_AddElement
  <1>7. made' = made + 1 /\ made' \in 0..MaxCalls
    BY PageBounds DEF Fetch, PageTyped
  <1>8. Cardinality(Unanswered) \in Nat /\ made \in Nat /\ minted \in Nat /\ tokens.n \in Nat
        /\ \A p \in Purposes : codes[p].n \in Nat
    BY UnansweredFinite DEF ServerTyped, CodeRows, PageTyped
  <1>9. Budget'
    BY <1>6, <1>7, <1>8 DEF Budget
  <1> QED  BY <1>4, <1>7, <1>9

\* Calls are heard of, lost or left behind.
LEMMA PageMovesTyped ==
  ASSUME CallsTyped, Budget, ServerTyped, PageTyped, UNCHANGED <<minted, tokens, codes, made>>,
         \A d \in calls' : d \in calls \/ \E c \in calls : d = [c EXCEPT !.owned = FALSE],
         \A d, e \in calls' : d.id = e.id => d = e
  PROVE  CallsTyped' /\ Budget'
  <1>1. ASSUME NEW d \in calls'
        PROVE  CallTyped(d) /\ \E c \in calls : d.id = c.id /\ (IsDone(d) <=> IsDone(c))
    <2>1. CASE d \in calls
      BY <2>1 DEF CallsTyped
    <2>2. ASSUME NEW c \in calls, d = [c EXCEPT !.owned = FALSE]
          PROVE  CallTyped(d) /\ d.id = c.id /\ (IsDone(d) <=> IsDone(c))
      <3>1. CallTyped(c)
        BY DEF CallsTyped
      <3> QED  BY <2>2, <3>1, DisownedTyped
    <2> QED  BY <1>1, <2>1, <2>2
  <1>2. CallsTyped'
    BY <1>1 DEF CallsTyped, CallTyped, IsRead, IsDone
  <1>3. Unanswered' \subseteq Unanswered
    BY <1>1 DEF Unanswered, IsDone
  <1>4. Cardinality(Unanswered') <= Cardinality(Unanswered)
        /\ Cardinality(Unanswered') \in Nat /\ Cardinality(Unanswered) \in Nat
    BY <1>2, <1>3, UnansweredFinite, FS_Subset, FS_CardinalityType
  <1>5. made \in Nat /\ minted \in Nat /\ tokens.n \in Nat
        /\ \A p \in Purposes : codes[p].n \in Nat
    BY DEF ServerTyped, CodeRows, PageTyped
  <1> QED  BY <1>2, <1>4, <1>5 DEF Budget

LEMMA HeardTyped ==
  ASSUME CallsTyped, Budget, ServerTyped, PageTyped, UNCHANGED <<minted, tokens, codes, made>>,
         calls' \subseteq calls
  PROVE  CallsTyped' /\ Budget'
  BY PageMovesTyped DEF CallsTyped

LEMMA LeftTyped ==
  ASSUME CallsTyped, Budget, ServerTyped, PageTyped, UNCHANGED <<minted, tokens, codes>>,
         NEW to, NEW pending, pending \subseteq calls, Leave(to, pending)
  PROVE  CallsTyped' /\ Budget'
  <1>1. \A d \in calls' : \E c \in calls : d = [c EXCEPT !.owned = FALSE] /\ d.id = c.id
    BY DisownedTyped DEF Leave, CallsTyped
  <1>2. \A d, e \in calls' : d.id = e.id => d = e
    BY <1>1 DEF CallsTyped
  <1> QED  BY <1>1, <1>2, PageMovesTyped DEF Leave

LEMMA LostTyped ==
  ASSUME CallsTyped, Budget, ServerTyped, PageTyped, UNCHANGED <<minted, tokens, codes>>,
         NEW c \in calls, Loses(c)
  PROVE  CallsTyped' /\ Budget'
  <1>1. CASE calls' \subseteq calls
    BY <1>1, HeardTyped DEF Loses
  <1>2. CASE calls' = (calls \ {c}) \cup {[c EXCEPT !.owned = FALSE]}
    <2>1. [c EXCEPT !.owned = FALSE].id = c.id
      BY DisownedTyped DEF CallsTyped
    <2>2. \A d, e \in calls' : d.id = e.id => d = e
      BY <1>2, <2>1 DEF CallsTyped
    <2> QED  BY <1>2, <2>2, PageMovesTyped DEF Loses
  <1> QED  BY <1>1, <1>2 DEF Loses

(***************************************************************************)
(* Routes                                                                  *)
(***************************************************************************)

\* The row a handler leaves.
LEMMA FlushTyped ==
  ASSUME account \in Users, NEW seen \in Users, NEW want \in Users
  PROVE  Flush(seen, want) \in Users
  <1>1. /\ DOMAIN want = {"email", "verified", "password", "secret", "on", "twoFactor"}
        /\ want.email \in [Slots -> Emails \cup {None}] /\ want.verified \in [Slots -> BOOLEAN]
        /\ account.email \in [Slots -> Emails \cup {None}]
        /\ account.verified \in [Slots -> BOOLEAN]
    BY DEF Users
  <1> DEFINE row == Flush(seen, want)
  <1>2. row.email = [s \in Slots |-> IF want.email[s] = seen.email[s]
                                    THEN account.email[s] ELSE want.email[s]]
    BY <1>1 DEF Flush
  <1>3. row.verified = [s \in Slots |-> IF want.verified[s] = seen.verified[s]
                                       THEN account.verified[s] ELSE want.verified[s]]
    BY <1>1 DEF Flush
  <1>4. row.password \in {account.password, want.password}
    BY <1>1 DEF Flush
  <1>5. row.secret \in {account.secret, want.secret}
    BY <1>1 DEF Flush
  <1>6. row.on \in {account.on, want.on} /\ row.twoFactor \in {account.twoFactor, want.twoFactor}
    BY <1>1 DEF Flush
  <1>7. DOMAIN row = {"email", "verified", "password", "secret", "on", "twoFactor"}
    BY <1>1 DEF Flush
  <1>8. row = [email |-> row.email, verified |-> row.verified, password |-> row.password,
               secret |-> row.secret, on |-> row.on, twoFactor |-> row.twoFactor]
    BY <1>1, <1>7 DEF Flush
  <1>9. row.email \in [Slots -> Emails \cup {None}]
    BY <1>1, <1>2
  <1>10. row.verified \in [Slots -> BOOLEAN]
    BY <1>1, <1>3
  <1> QED
    <2> HIDE DEF row
    <2>1. row \in Users
      BY <1>4, <1>5, <1>6, <1>8, <1>9, <1>10 DEF Users
    <2> QED  BY <2>1 DEF row

Counts(n, m) == m = n \/ m = n + 1

\* The server answers a call.
LEMMA AnsweredTyped ==
  ASSUME CallsTyped, Budget, ServerTyped, PageTyped, NEW c \in calls, ~IsDone(c),
         NEW ans, Replies(c, ans), ans.n \in Secrets, UNCHANGED made,
         Counts(minted, minted'), Counts(tokens.n, tokens'.n),
         \A p \in Purposes : Counts(codes[p].n, codes'[p].n)
  PROVE  CallsTyped' /\ Budget'
  <1>1. PICK d : d = Done(c, ans)
    OBVIOUS
  <1>2. d.id = c.id /\ CallTyped(d) /\ IsDone(d)
    BY <1>1 DEF CallsTyped, CallTyped, Done, IsDone, IsRead, Secrets
  <1>3. calls' \subseteq (calls \ {c}) \cup {d} /\ calls \ {c} \subseteq calls'
    BY <1>1 DEF Replies
  <1>4. CallsTyped'
    <2>1. \A e \in calls' : CallTyped(e)
      BY <1>2, <1>3 DEF CallsTyped
    <2>2. \A e, f \in calls' : e.id = f.id => e = f
      BY <1>2, <1>3 DEF CallsTyped
    <2> QED  BY <2>1, <2>2 DEF CallsTyped, CallTyped, IsRead, IsDone
  <1>5. Unanswered' = Unanswered \ {c.id} /\ c.id \in Unanswered
    BY <1>2, <1>3 DEF Unanswered, CallsTyped, IsDone
  <1>6. Cardinality(Unanswered') = Cardinality(Unanswered) - 1
        /\ Cardinality(Unanswered) \in Nat
    BY <1>5, UnansweredFinite, FS_RemoveElement
  <1>7. made \in Nat /\ minted \in Nat /\ tokens.n \in Nat
        /\ \A p \in Purposes : codes[p].n \in Nat
    BY DEF ServerTyped, CodeRows, PageTyped
  <1>8. Budget'
    BY <1>6, <1>7 DEF Budget, Counts
  <1> QED  BY <1>4, <1>8

\* A threaded route has read the rows.
LEMMA ReadTyped ==
  ASSUME CallsTyped, Budget, ServerTyped, PageTyped, NEW c \in calls, RouteReads(c)
  PROVE  CallsTyped' /\ Budget'
  <1> DEFINE seen == [user |-> account, row |-> CodeRow(PurposeOf(c.req.op)),
                      signedIn |-> session]
  <1>1. PICK d : d = Read(c, seen)
    OBVIOUS
  <1>2. calls' = (calls \ {c}) \cup {d}
    BY <1>1 DEF RouteReads
  <1>3. d.id = c.id /\ CallTyped(d) /\ ~IsDone(d) /\ ~IsDone(c)
    BY <1>1 DEF CallsTyped, CallTyped, Read, IsDone, IsRead, IsSent, RouteReads, ServerTyped
  <1>4. CallsTyped'
    <2>1. \A e \in calls' : CallTyped(e)
      BY <1>2, <1>3 DEF CallsTyped
    <2>2. \A e, f \in calls' : e.id = f.id => e = f
      BY <1>2, <1>3 DEF CallsTyped
    <2> QED  BY <2>1, <2>2 DEF CallsTyped, CallTyped, IsRead, IsDone
  <1>5. Unanswered' = Unanswered
    BY <1>2, <1>3 DEF Unanswered, CallsTyped, IsDone
  <1> QED
    BY <1>4, <1>5 DEF RouteReads, accountVars, serverVars, Budget

\* What a route makes: at most one code, one token and one secret.
LEMMA CodesTyped ==
  ASSUME ServerTyped, NEW c, CodeStep(c)
  PROVE  codes' \in [Purposes -> CodeRows] /\ \A p \in Purposes : Counts(codes[p].n, codes'[p].n)
  <1>1. CASE UNCHANGED codes
    BY <1>1 DEF ServerTyped, Counts
  <1>2. ASSUME NEW p \in Purposes, CreateCode(p)
        PROVE  codes' \in [Purposes -> CodeRows] /\ \A q \in Purposes : Counts(codes[q].n, codes'[q].n)
    BY <1>2, AttemptsBound DEF CreateCode, ServerTyped, CodeRows, Counts
  <1>3. ASSUME NEW p \in Purposes, NEW row, VerifyCodeFails(p, c.req.code, row)
        PROVE  codes' \in [Purposes -> CodeRows] /\ \A q \in Purposes : Counts(codes[q].n, codes'[q].n)
    <2>1. CASE UNCHANGED codes
      BY <2>1 DEF ServerTyped, Counts
    <2>2. CASE codes' = [codes EXCEPT ![p].tries = IF @ < MaxTries THEN @ + 1 ELSE @]
      <3>1. codes[p] \in CodeRows
        BY DEF ServerTyped
      <3>2. PICK n : n \in 0..MaxTries /\ codes' = [codes EXCEPT ![p].tries = n]
        <4>1. codes[p].tries \in 0..MaxTries
          BY <3>1 DEF CodeRows
        <4>2. IF codes[p].tries < MaxTries THEN codes[p].tries + 1 \in 0..MaxTries
                                           ELSE codes[p].tries \in 0..MaxTries
          BY <4>1, AttemptsBound
        <4> QED  BY <2>2, <4>2 DEF ServerTyped
      <3> QED  BY <3>1, <3>2 DEF ServerTyped, CodeRows, Counts
    <2>3. CASE codes' = [codes EXCEPT ![p].live = @ /\ c.req.code # row.live]
      BY <2>3 DEF ServerTyped, CodeRows, Counts
    <2> QED  BY <1>3, <2>1, <2>2, <2>3 DEF VerifyCodeFails
  <1>4. ASSUME NEW p \in Purposes, NEW row, VerifyCode(p, c.req.code, row)
        PROVE  codes' \in [Purposes -> CodeRows] /\ \A q \in Purposes : Counts(codes[q].n, codes'[q].n)
    BY <1>4 DEF VerifyCode, ServerTyped, CodeRows, Counts
  <1> QED  BY <1>1, <1>2, <1>3, <1>4 DEF CodeStep

LEMMA MadeTyped ==
  ASSUME ServerTyped, NEW c, AuthRoute(c) \/ SettingsRoute(c) \/ SetLanguage(c) \/ NotAuthenticated(c)
  PROVE  /\ Counts(minted, minted') /\ Counts(tokens.n, tokens'.n)
         /\ DOMAIN tokens' = {"n", "used"}
  <1> USE DEF RefusedUnchanged, serverVars, accountVars, Counts, ServerTyped
  <1>1. CASE AuthRoute(c)
    <2>1. CASE ForgotVerify(c)
      BY <2>1 DEF ForgotVerify
    <2>2. CASE ForgotNewPassword(c)
      BY <2>2 DEF ForgotNewPassword
    <2>3. CASE ~ForgotVerify(c) /\ ~ForgotNewPassword(c)
      BY <1>1, <2>3
      DEF AuthRoute, RegisterSignedIn, RegisterExisting, RegisterNew, RegisterConfirm,
          RegisterResend, Login, Login2FA, LoginResend, ForgotSendCode
    <2> QED  BY <2>1, <2>2, <2>3
  <1>2. CASE SettingsRoute(c)
    BY <1>2 DEF SettingsRoute, EmailSendCode, EmailConfirm, EmailDelete, TotpSetupStart,
                TotpSetupConfirm, TotpDisable, PasswordSendCode, ChangePassword
  <1>3. CASE SetLanguage(c) \/ NotAuthenticated(c)
    BY <1>3 DEF SetLanguage, NotAuthenticated
  <1> QED  BY <1>1, <1>2, <1>3

\* What it answers with.
LEMMA RepliesTyped ==
  ASSUME NEW c, AuthRoute(c) \/ SettingsRoute(c) \/ SetLanguage(c) \/ NotAuthenticated(c)
  PROVE  /\ ~IsDone(c) /\ UNCHANGED <<page, locked, cooling, made, losses, orphaned, held>>
         /\ \E ans : Replies(c, ans) /\ ans.n \in {0, minted + 1, tokens.n + 1}
  <1>1. Plain.n = 0 /\ Error.n = 0 /\ \A next, totp, n : Answer(next, totp, n).n = n
    BY DEF Plain, Error, Answer
  <1>2. ASSUME NEW ans, Replies(c, ans), ans.n \in {0, minted + 1, tokens.n + 1}
        PROVE  \E a : Replies(c, a) /\ a.n \in {0, minted + 1, tokens.n + 1}
    BY <1>2
  <1>3. /\ ~IsDone(c) /\ UNCHANGED <<page, locked, cooling, made, losses, orphaned, held>>
    <2> USE DEF Runs, IsDone, IsSent, IsRead
    <2>1. CASE AuthRoute(c)
      BY <2>1
      DEF AuthRoute, RegisterSignedIn, RegisterExisting, RegisterNew, RegisterConfirm,
          RegisterResend, Login, Login2FA, LoginResend, ForgotSendCode, ForgotVerify,
          ForgotNewPassword
    <2>2. CASE SettingsRoute(c)
      BY <2>2 DEF SettingsRoute, EmailSendCode, EmailConfirm, EmailDelete, TotpSetupStart,
                  TotpSetupConfirm, TotpDisable, PasswordSendCode, ChangePassword
    <2>3. CASE SetLanguage(c) \/ NotAuthenticated(c)
      BY <2>3 DEF SetLanguage, NotAuthenticated, accountVars
    <2> QED  BY <2>1, <2>2, <2>3
  <1>4. \/ Replies(c, Plain) \/ Replies(c, Error)
        \/ \E next, totp, n : /\ Replies(c, Answer(next, totp, n))
                              /\ n \in {0, minted + 1, tokens.n + 1}
    <2> USE DEF RefusedUnchanged, MailsThenReplies
    <2>1. CASE RegisterSignedIn(c) \/ RegisterExisting(c) \/ RegisterNew(c)
               \/ RegisterConfirm(c) \/ RegisterResend(c)
      BY <2>1 DEF RegisterSignedIn, RegisterExisting, RegisterNew, RegisterConfirm,
                  RegisterResend
    <2>2. CASE Login(c) \/ Login2FA(c) \/ LoginResend(c) \/ ForgotSendCode(c)
      BY <2>2 DEF Login, Login2FA, LoginResend, ForgotSendCode
    <2>3. CASE ForgotVerify(c) \/ ForgotNewPassword(c)
      BY <2>3 DEF ForgotVerify, ForgotNewPassword
    <2>4. CASE EmailSendCode(c) \/ EmailConfirm(c) \/ EmailDelete(c)
      BY <2>4 DEF EmailSendCode, EmailConfirm, EmailDelete
    <2>5. CASE TotpSetupStart(c) \/ TotpSetupConfirm(c) \/ TotpDisable(c)
      BY <2>5 DEF TotpSetupStart, TotpSetupConfirm, TotpDisable
    <2>6. CASE PasswordSendCode(c) \/ ChangePassword(c)
      BY <2>6 DEF PasswordSendCode, ChangePassword
    <2>7. CASE SetLanguage(c) \/ NotAuthenticated(c)
      BY <2>7 DEF SetLanguage, NotAuthenticated, HomePage
    <2> QED  BY <2>1, <2>2, <2>3, <2>4, <2>5, <2>6, <2>7 DEF AuthRoute, SettingsRoute
  <1> QED
    BY <1>1, <1>2, <1>3, <1>4

\* A route keeps the row of the user what it is.
LEMMA AccountTyped ==
  ASSUME TypeInv, NEW c \in calls,
         AuthRoute(c) \/ SettingsRoute(c) \/ SetLanguage(c) \/ NotAuthenticated(c)
  PROVE  account' \in Users
  <1> USE DEF RefusedUnchanged, serverVars
  <1>1. account \in Users /\ CallTyped(c)
    BY DEF TypeInv, ServerTyped, CallsTyped
  <1>2. CASE UNCHANGED account
    BY <1>1, <1>2
  <1>3. ASSUME IsRead(c), NEW want \in Users, account' = Flush(c.seen.user, want)
        PROVE  account' \in Users
    BY <1>1, <1>3, FlushTyped DEF CallTyped
  <1>4. IsRead(c) => c.seen.user \in Users
    BY <1>1 DEF CallTyped
  <1>5. CASE RegisterExisting(c)
    <2>1. c.seen.user \in Users /\ IsRead(c)
      BY <1>4, <1>5 DEF RegisterExisting, Runs, AsyncOps
    <2>2. [c.seen.user EXCEPT !.password = "registered"] \in Users
      BY <2>1 DEF Users
    <2> QED  BY <1>2, <1>3, <1>5, <2>1, <2>2 DEF RegisterExisting
  <1>6. CASE RegisterNew(c)
    <2>1. NewAccount \in Users
      <3>1. 0 \in Secrets
        BY PageBounds DEF Secrets
      <3> QED  BY <3>1 DEF NewAccount, Users, Emails, Secrets
    <2> QED  BY <1>2, <1>6, <2>1 DEF RegisterNew
  <1>7. CASE RegisterConfirm(c)
    <2>1. [account EXCEPT !.verified[1] = TRUE] \in Users
      BY <1>1 DEF Users
    <2> QED  BY <1>2, <1>7, <2>1 DEF RegisterConfirm
  <1>8. CASE ForgotNewPassword(c)
    <2>1. [account EXCEPT !.password = "reset"] \in Users
      BY <1>1 DEF Users
    <2> QED  BY <1>2, <1>8, <2>1 DEF ForgotNewPassword
  <1>9. CASE \/ RegisterSignedIn(c) \/ RegisterResend(c) \/ Login(c) \/ Login2FA(c)
             \/ LoginResend(c) \/ ForgotSendCode(c) \/ ForgotVerify(c)
             \/ SetLanguage(c) \/ NotAuthenticated(c) \/ PasswordSendCode(c)
    BY <1>2, <1>9
    DEF RegisterSignedIn, RegisterResend, Login, Login2FA, LoginResend, ForgotSendCode,
        ForgotVerify, SetLanguage, NotAuthenticated, PasswordSendCode, accountVars
  <1>10. CASE EmailSendCode(c)
    <2>1. c.seen.user \in Users /\ IsRead(c) /\ c.req.email \in Emails \cup {None}
      BY <1>1, <1>4, <1>10 DEF EmailSendCode, Runs, AsyncOps, CallTyped
    <2>2. [c.seen.user EXCEPT !.email[c.req.slot] = c.req.email,
                              !.verified[c.req.slot] = FALSE] \in Users
      BY <2>1 DEF Users
    <2> QED  BY <1>2, <1>3, <1>10, <2>1, <2>2 DEF EmailSendCode
  <1>11. CASE EmailConfirm(c)
    <2>1. \A passed \in BOOLEAN :
            [account EXCEPT !.verified[c.req.slot] = @ \/ passed] \in Users
      BY <1>1 DEF Users
    <2>2. \A user, totp : TotpOutcomes(user, totp) \subseteq BOOLEAN
      BY DEF TotpOutcomes
    <2> QED  BY <1>2, <1>11, <2>1, <2>2 DEF EmailConfirm
  <1>12. CASE EmailDelete(c)
    <2>1. c.seen.user \in Users /\ IsRead(c)
      BY <1>4, <1>12 DEF EmailDelete, Runs, AsyncOps
    <2>2. WithoutSlot(c.seen.user, c.req.slot) \in Users
      BY <2>1 DEF Users, WithoutSlot, Slots
    <2> QED  BY <1>2, <1>3, <1>12, <2>1, <2>2 DEF EmailDelete
  <1>13. CASE TotpSetupStart(c)
    <2>1. c.seen.user \in Users /\ IsRead(c)
      BY <1>4, <1>13 DEF TotpSetupStart, Runs, AsyncOps
    <2>2. minted + 1 \in Secrets
      <3>1. ~IsDone(c)
        BY <2>1 DEF IsRead, IsDone
      <3>2. c.id \in Unanswered
        BY <3>1 DEF Unanswered
      <3>3. Cardinality(Unanswered) \in Nat /\ Cardinality(Unanswered) # 0
        BY <3>2, UnansweredFinite, FS_EmptySet DEF TypeInv
      <3> QED
        BY <3>3, PageBounds DEF TypeInv, Budget, ServerTyped, PageTyped, Secrets
    <2>3. [c.seen.user EXCEPT !.secret = minted + 1, !.on = FALSE] \in Users
      BY <2>1, <2>2 DEF Users, Secrets
    <2> QED  BY <1>2, <1>3, <1>13, <2>1, <2>3 DEF TotpSetupStart
  <1>14. CASE TotpSetupConfirm(c)
    <2>1. c.seen.user \in Users /\ IsRead(c)
      BY <1>4, <1>14 DEF TotpSetupConfirm, Runs, AsyncOps
    <2>2. [c.seen.user EXCEPT !.on = TRUE] \in Users
      BY <2>1 DEF Users
    <2> QED  BY <1>2, <1>3, <1>14, <2>1, <2>2 DEF TotpSetupConfirm
  <1>15. CASE TotpDisable(c)
    <2>1. c.seen.user \in Users /\ IsRead(c)
      BY <1>4, <1>15 DEF TotpDisable, Runs, AsyncOps
    <2>2. [c.seen.user EXCEPT !.on = FALSE, !.secret = 0] \in Users
      <3>1. 0 \in Secrets
        BY PageBounds DEF Secrets
      <3> QED  BY <2>1, <3>1 DEF Users, Secrets
    <2> QED  BY <1>2, <1>3, <1>15, <2>1, <2>2 DEF TotpDisable
  <1>16. CASE ChangePassword(c)
    <2>1. [account EXCEPT !.password = "changed"] \in Users
      BY <1>1 DEF Users
    <2> QED  BY <1>2, <1>16, <2>1 DEF ChangePassword
  <1> QED
    BY <1>5, <1>6, <1>7, <1>8, <1>9, <1>10, <1>11, <1>12, <1>13, <1>14, <1>15, <1>16
    DEF AuthRoute, SettingsRoute

LEMMA ServerTypes ==
  ASSUME TypeInv, Server
  PROVE  TypeInv'
  <1>1. PICK c \in calls : /\ \/ RouteReads(c) \/ NotAuthenticated(c)
                              \/ AuthRoute(c) \/ SettingsRoute(c) \/ SetLanguage(c)
                           /\ UNCHANGED <<authVars, secVars>>
    BY DEF Server
  <1>2. CallsTyped /\ Budget /\ ServerTyped /\ PageTyped
    BY DEF TypeInv
  <1>3. EntryTyped' /\ SecTyped'
    BY <1>1 DEF TypeInv, EntryTyped, SecTyped, authVars, secVars
  <1>4. CASE RouteReads(c)
    <2>1. UNCHANGED <<page, locked, cooling, made, losses, orphaned, accountVars, modals>>
      BY <1>1, <1>4 DEF RouteReads, authVars
    <2>2. ServerTyped' /\ PageTyped'
      BY <1>2, <2>1 DEF ServerTyped, PageTyped, accountVars, serverVars
    <2> QED  BY <1>2, <1>3, <1>4, <2>2, ReadTyped DEF TypeInv
  <1>5. CASE AuthRoute(c) \/ SettingsRoute(c) \/ SetLanguage(c) \/ NotAuthenticated(c)
    <2>1. /\ ~IsDone(c) /\ UNCHANGED <<page, locked, cooling, made, losses, orphaned, held>>
          /\ \E ans : Replies(c, ans) /\ ans.n \in {0, minted + 1, tokens.n + 1}
      BY <1>5, RepliesTyped
    <2>2. PICK ans : Replies(c, ans) /\ ans.n \in {0, minted + 1, tokens.n + 1}
      BY <2>1
    <2>3. ans.n \in Secrets
      <3>1. c.id \in Unanswered
        BY <2>1 DEF Unanswered
      <3>2. Cardinality(Unanswered) \in Nat /\ Cardinality(Unanswered) # 0
        BY <1>2, <3>1, UnansweredFinite, FS_EmptySet
      <3> QED
        BY <1>2, <2>2, <3>2, PageBounds DEF Budget, ServerTyped, PageTyped, Secrets
    <2>4. codes' \in [Purposes -> CodeRows]
          /\ \A p \in Purposes : Counts(codes[p].n, codes'[p].n)
      BY <1>1, <1>2, RoutesOfCodes, CodesTyped
    <2>5. /\ Counts(minted, minted') /\ Counts(tokens.n, tokens'.n)
          /\ DOMAIN tokens' = {"n", "used"}
      BY <1>2, <1>5, MadeTyped
    <2>6. account' \in Users
      BY <1>5, AccountTyped
    <2>7. CallsTyped' /\ Budget'
      BY <1>2, <2>1, <2>2, <2>3, <2>4, <2>5, AnsweredTyped
    <2>8. ServerTyped'
      BY <1>2, <2>1, <2>4, <2>5, <2>6 DEF ServerTyped, Counts
    <2>9. PageTyped'
      BY <1>1, <1>2, <2>1 DEF PageTyped, authVars
    <2> QED  BY <1>3, <2>7, <2>8, <2>9 DEF TypeInv
  <1> QED  BY <1>1, <1>4, <1>5

(***************************************************************************)
(* Pages                                                                   *)
(***************************************************************************)

\* What a step of a page leaves alone.
Apart == UNCHANGED <<account, codes, tokens, minted>>

LEMMA ServerApart ==
  ASSUME TypeInv, Apart, held' \in Secrets
  PROVE  ServerTyped'
  BY DEF TypeInv, Apart, ServerTyped

\* A document that is loaded.
LEMMA LoadTyped ==
  ASSUME TypeInv, NEW to \in Pages, NEW pending, pending \subseteq calls, Leave(to, pending),
         Apart, UNCHANGED held, NEW token, EntryLoads(token),
         sec' = sec \/ sec' = SecStart(account) \/ sec' = NoSec
  PROVE  TypeInv'
  <1>1. CallsTyped' /\ Budget'
    BY LeftTyped DEF TypeInv, Apart
  <1>2. ServerTyped'
    BY ServerApart DEF TypeInv, ServerTyped
  <1>3. PageTyped'
    BY DEF TypeInv, PageTyped, Leave, EntryLoads
  <1>4. EntryTyped'
    BY DEF EntryTyped, EntryLoads, EntryStart
  <1>5. SecTyped'
    <2>1. CASE sec' = sec
      BY <2>1 DEF TypeInv, SecTyped
    <2>2. ASSUME NEW user \in Users, sec' = SecStart(user)
          PROVE  SecTyped'
      BY <2>2 DEF SecTyped, SecStart, TotpPanels, RenderedPanel
    <2>3. NoUser \in Users
      <3>1. 0 \in Secrets
        BY PageBounds DEF Secrets
      <3> QED  BY <3>1 DEF NoUser, Users, Secrets
    <2> QED  BY <2>1, <2>2, <2>3 DEF NoSec, TypeInv, ServerTyped
  <1> QED  BY <1>1, <1>2, <1>3, <1>4, <1>5 DEF TypeInv

\* A request of the page.
LEMMA PressTyped ==
  ASSUME TypeInv, NEW btn \in Buttons, NEW req, Fetch(btn, req),
         req.op \in Ops, req.email \in Emails \cup {None},
         Apart, UNCHANGED <<page, cooling, losses, orphaned, held, modals>>,
         locked' = locked \/ LockActionButton(btn), EntryTyped', SecTyped'
  PROVE  TypeInv'
  <1>1. CallsTyped' /\ Budget' /\ made' \in 0..MaxCalls
    BY FetchTyped DEF TypeInv, Apart
  <1>2. ServerTyped'
    BY ServerApart DEF TypeInv, ServerTyped
  <1>3. PageTyped'
    BY <1>1 DEF TypeInv, PageTyped, LockActionButton
  <1> QED  BY <1>1, <1>2, <1>3 DEF TypeInv

\* A click that sends nothing, a timer.
LEMMA StillTyped ==
  ASSUME TypeInv, UNCHANGED <<calls, made, losses, orphaned, page, held>>, Apart,
         locked' \subseteq Buttons, cooling' \subseteq Buttons,
         modals' \subseteq {"registerModal", "loginModal", "emailDeleteTotpModal"},
         EntryTyped', SecTyped'
  PROVE  TypeInv'
  <1>1. ServerTyped' /\ PageTyped'
    BY ServerApart DEF TypeInv, ServerTyped, PageTyped
  <1>2. CallsTyped' /\ Budget'
    BY DEF TypeInv, Apart, CallsTyped, Budget, Unanswered, CallTyped, IsRead, IsDone
  <1> QED  BY <1>1, <1>2 DEF TypeInv

\* An answer that keeps the document.
LEMMA TakenTyped ==
  ASSUME TypeInv, NEW c \in calls, HearsOk(c), Apart, held' \in Secrets, UNCHANGED modals,
         \/ UNCHANGED <<locked, cooling>> \/ StartResendCooldown(c.btn)
         \/ UnlockActionButton(c.btn) /\ UNCHANGED cooling,
         EntryTyped', SecTyped'
  PROVE  TypeInv'
  <1>1. c.btn \in Buttons
    BY DEF TypeInv, CallsTyped, CallTyped
  <1>2. CallsTyped' /\ Budget'
    BY HeardTyped DEF TypeInv, Apart, HearsOk, Hears
  <1>3. PageTyped'
    BY <1>1 DEF TypeInv, PageTyped, HearsOk, Hears, StartResendCooldown, UnlockActionButton
  <1> QED  BY <1>2, <1>3, ServerApart DEF TypeInv

\* An error of the server or the network.
LEMMA FailsTyped ==
  ASSUME TypeInv, NEW c \in calls, Fails(c), Apart, UNCHANGED <<held, modals>>,
         EntryTyped', SecTyped'
  PROVE  TypeInv'
  <1>1. CallsTyped' /\ Budget'
    <2>1. CASE HearsError(c)
      BY <2>1, HeardTyped DEF TypeInv, Apart, HearsError, Hears
    <2>2. CASE NetworkFails(c)
      BY <2>2, LostTyped DEF TypeInv, Apart, NetworkFails
    <2> QED  BY <2>1, <2>2 DEF Fails
  <1>2. PageTyped'
    <2>1. locked' \subseteq locked /\ UNCHANGED <<page, cooling, made>>
      BY DEF Fails, HearsError, Hears, NetworkFails, Loses, UnlockActionButton
    <2>2. CASE HearsError(c)
      BY <2>1, <2>2 DEF TypeInv, PageTyped, HearsError, Hears
    <2>3. CASE NetworkFails(c)
      <3>1. orphaned' = orphaned \/ orphaned' = TRUE
        BY <2>3 DEF NetworkFails, Loses
      <3>2. losses' \in 0..MaxLost
        BY <2>3, PageBounds DEF TypeInv, PageTyped, NetworkFails, Loses
      <3> QED  BY <2>1, <3>1, <3>2 DEF TypeInv, PageTyped
    <2> QED  BY <2>2, <2>3 DEF Fails
  <1>3. ServerTyped'
    BY ServerApart DEF TypeInv, ServerTyped
  <1> QED  BY <1>1, <1>2, <1>3 DEF TypeInv

\* The operation and the address of a request.
Asked(req) == req.op \in Ops /\ req.email \in Emails \cup {None}

\* The request forms of the two families of pages.
LEMMA RequestsAsked ==
  ASSUME NEW op \in Ops, NEW email \in Emails \cup {None}, NEW code, NEW totp, NEW slot
  PROVE  /\ Asked(Request(op))
         /\ Asked([Request(op) EXCEPT !.email = email])
         /\ Asked([Request(op) EXCEPT !.email = email, !.code = code])
         /\ Asked([Request(op) EXCEPT !.email = email, !.code = code, !.totp = totp])
         /\ Asked([Request(op) EXCEPT !.code = code])
         /\ Asked([Request(op) EXCEPT !.code = code, !.totp = totp])
         /\ Asked([Request(op) EXCEPT !.totp = totp])
         /\ Asked([Request(op) EXCEPT !.slot = slot])
         /\ Asked([Request(op) EXCEPT !.slot = slot, !.totp = totp])
         /\ Asked([Request(op) EXCEPT !.slot = slot, !.email = email])
         /\ Asked([Request(op) EXCEPT !.slot = slot, !.code = code, !.totp = totp])
  BY DEF Asked, Request

\* What is typed into the entry pages.
LEMMA AuthUserTypes ==
  ASSUME TypeInv, AuthUser, UNCHANGED secVars
  PROVE  TypeInv'
  <1> USE DEF accountVars, serverVars, authVars, secVars, Apart
  <1>1. SecTyped' /\ (UNCHANGED entry => EntryTyped')
    BY DEF TypeInv, SecTyped, EntryTyped
  <1>2. ASSUME NEW btn \in Buttons, NEW req, Press(btn, req), Apart,
               UNCHANGED <<held, authVars>>, Asked(req)
        PROVE  TypeInv'
    BY <1>1, <1>2, PressTyped DEF Press, Asked
  <1>3. \A op : Request(op).op = op /\ Request(op).email = None
    BY DEF Request
  <1>4. CASE \E modal \in {"registerModal", "loginModal"} : OpenModal(modal)
    <2>1. PICK modal \in {"registerModal", "loginModal"} : OpenModal(modal)
      BY <1>4
    <2>2. EntryTyped'
      BY <2>1 DEF OpenModal, Opened, RegisterShowStep1, LoginShowStep1, TypeInv, EntryTyped
    <2>3. UNCHANGED <<calls, made, losses, orphaned, page, held, locked, cooling>> /\ Apart
      BY <2>1 DEF OpenModal, callVars
    <2>4. /\ locked' \subseteq Buttons /\ cooling' \subseteq Buttons
          /\ modals' \subseteq {"registerModal", "loginModal", "emailDeleteTotpModal"}
      BY <2>1, <2>3 DEF OpenModal, TypeInv, PageTyped
    <2> QED  BY <1>1, <2>2, <2>3, <2>4, StillTyped
  <1>5. CASE CloseModal
    <2>1. UNCHANGED <<calls, made, losses, orphaned, page, held, locked, cooling, entry>> /\ Apart
          /\ modals' \subseteq modals
      BY <1>5 DEF CloseModal, callVars
    <2>2. /\ locked' \subseteq Buttons /\ cooling' \subseteq Buttons
          /\ modals' \subseteq {"registerModal", "loginModal", "emailDeleteTotpModal"}
      BY <2>1 DEF TypeInv, PageTyped
    <2> QED  BY <1>1, <2>1, <2>2, StillTyped
  <1>6. CASE \/ RegisterSubmit \/ RegisterConfirmClick \/ RegisterResendClick
             \/ LoginSubmit \/ LoginConfirmClick \/ LoginResendClick
             \/ ForgotSendClick \/ ForgotResendClick \/ ForgotVerifyClick \/ NewPasswordClick
    <2>1. \E btn \in Buttons : \E req : Press(btn, req) /\ Asked(req)
      <3>1. /\ entry.pending \in Emails \cup {None} /\ "a" \in Emails
            /\ {"register", "register_confirm", "register_resend", "login", "login_2fa",
                "login_resend", "forgot_send", "forgot_resend", "forgot_verify",
                "new_password"} \subseteq Ops
            /\ {"registerSubmit", "registerConfirm", "registerResend", "loginSubmit",
                "loginConfirm", "loginResend", "forgotSend", "forgotResend", "forgotVerify",
                "newPassword"} \subseteq Buttons
        BY DEF TypeInv, EntryTyped, Emails, Ops, Buttons
      <3>2. CASE RegisterSubmit
        <4>1. Press("registerSubmit", [Request("register") EXCEPT !.email = "a"])
          BY <3>2 DEF RegisterSubmit
        <4> QED  BY <3>1, <4>1, RequestsAsked
      <3>3. CASE RegisterConfirmClick
        <4>1. PICK code : Press("registerConfirm", [Request("register_confirm") EXCEPT !.email = "a", !.code = code])
          BY <3>3 DEF RegisterConfirmClick
        <4> QED  BY <3>1, <4>1, RequestsAsked
      <3>4. CASE RegisterResendClick
        <4>1. Press("registerResend", [Request("register_resend") EXCEPT !.email = "a"])
          BY <3>4 DEF RegisterResendClick, PostResend
        <4> QED  BY <3>1, <4>1, RequestsAsked
      <3>5. CASE LoginSubmit
        <4>1. PICK email \in Emails : Press("loginSubmit", [Request("login") EXCEPT !.email = email])
          BY <3>5 DEF LoginSubmit
        <4> QED  BY <3>1, <4>1, RequestsAsked
      <3>6. CASE LoginConfirmClick
        <4>1. PICK code : Press("loginConfirm", [Request("login_2fa") EXCEPT !.email = entry.pending, !.code = code,
                                                    !.totp = LoginTotp])
          BY <3>6 DEF LoginConfirmClick
        <4>2. Asked([Request("login_2fa") EXCEPT !.email = entry.pending, !.code = code,
                      !.totp = LoginTotp])
          BY <3>1 DEF Asked, Request
        <4> QED  BY <3>1, <4>1, <4>2
      <3>7. CASE LoginResendClick
        <4>1. Press("loginResend", [Request("login_resend") EXCEPT !.email = entry.pending])
          BY <3>7 DEF LoginResendClick, PostResend
        <4> QED  BY <3>1, <4>1, RequestsAsked
      <3>8. CASE ForgotSendClick
        <4>1. PICK email \in Emails : Press("forgotSend", [Request("forgot_send") EXCEPT !.email = email])
          BY <3>8 DEF ForgotSendClick
        <4> QED  BY <3>1, <4>1, RequestsAsked
      <3>9. CASE ForgotResendClick
        <4>1. PICK email \in Emails : Press("forgotResend", [Request("forgot_resend") EXCEPT !.email = email])
          BY <3>9 DEF ForgotResendClick, PostResend
        <4> QED  BY <3>1, <4>1, RequestsAsked
      <3>10. CASE ForgotVerifyClick
        <4>1. PICK email \in Emails, code \in TypedCodes("reset") : Press("forgotVerify", [Request("forgot_verify") EXCEPT !.email = email, !.code = code,
                                                     !.totp = ForgotTotp])
          BY <3>10 DEF ForgotVerifyClick
        <4>2. Asked([Request("forgot_verify") EXCEPT !.email = email, !.code = code,
                      !.totp = ForgotTotp])
          BY <3>1 DEF Asked, Request
        <4> QED  BY <3>1, <4>1, <4>2
      <3>11. CASE NewPasswordClick
        <4>1. Press("newPassword", [Request("new_password") EXCEPT !.code = entry.token])
          BY <3>11 DEF NewPasswordClick
        <4> QED  BY <3>1, <4>1, RequestsAsked
      <3> QED
        BY <1>6, <3>2, <3>3, <3>4, <3>5, <3>6, <3>7, <3>8, <3>9, <3>10, <3>11
    <2>2. Apart /\ UNCHANGED <<held, authVars>>
      BY <1>6
      DEF RegisterSubmit, RegisterConfirmClick, RegisterResendClick, LoginSubmit,
          LoginConfirmClick, LoginResendClick, ForgotSendClick, ForgotResendClick,
          ForgotVerifyClick, NewPasswordClick, PostResend
    <2> QED  BY <1>2, <2>1, <2>2
  <1>7. CASE LanguageClick
    <2>1. "language" \in Buttons /\ "set_language" \in Ops
      BY DEF Buttons, Ops
    <2> QED  BY <1>1, <1>3, <1>7, <2>1, PressTyped DEF LanguageClick
  <1> QED  BY <1>4, <1>5, <1>6, <1>7 DEF AuthUser

LEMMA AuthAnswerTypes ==
  ASSUME TypeInv, NEW c \in calls, AuthAnswer(c), UNCHANGED secVars
  PROVE  TypeInv'
  <1> USE DEF accountVars, serverVars, authVars, secVars, Apart
  <1>1. SecTyped' /\ (UNCHANGED entry => EntryTyped')
    BY DEF TypeInv, SecTyped, EntryTyped
  <1>2. Apart /\ UNCHANGED held /\ held' \in Secrets
    BY DEF AuthAnswer, RegisterSubmitted, RegisterConfirmed, ResendAnswered, LoginSubmitted,
           LoginConfirmed, ForgotSent, ForgotVerified, NewPasswordSet, LanguageSet, TypeInv,
           ServerTyped
  <1> DEFINE Stays ==
        /\ HearsOk(c) /\ UNCHANGED modals
        /\ \/ StartResendCooldown(c.btn)
           \/ UnlockActionButton(c.btn) /\ UNCHANGED cooling
        /\ \/ UNCHANGED entry
           \/ entry' = RegisterShowStep2(entry)
           \/ entry' = LoginShowStep2(entry, c.req.email, c.ans.totp)
           \/ entry' = [entry EXCEPT !.totpAsked = c.ans.totp]
  <1>3. \/ Fails(c) /\ UNCHANGED authVars
        \/ Stays
        \/ \E to \in Pages : \E token : Redirects(c, to) /\ EntryLoads(token)
    <2>1. Landing("dashboard") \in Pages /\ Landing("index") \in Pages
          /\ Landing(page) \in Pages /\ "new_password" \in Pages
      BY DEF Landing, Pages, TypeInv, PageTyped
    <2>2. CASE RegisterSubmitted(c) \/ RegisterConfirmed(c) \/ ResendAnswered(c)
      BY <2>1, <2>2 DEF RegisterSubmitted, RegisterConfirmed, ResendAnswered
    <2>3. CASE LoginSubmitted(c) \/ LoginConfirmed(c)
      BY <2>1, <2>3 DEF LoginSubmitted, LoginConfirmed
    <2>4. CASE ForgotSent(c) \/ ForgotVerified(c)
      BY <2>1, <2>4 DEF ForgotSent, ForgotVerified
    <2>5. CASE NewPasswordSet(c) \/ LanguageSet(c)
      BY <2>1, <2>5 DEF NewPasswordSet, LanguageSet, Fails
    <2> QED  BY <2>2, <2>3, <2>4, <2>5 DEF AuthAnswer
  <1>4. CASE Fails(c) /\ UNCHANGED authVars
    BY <1>1, <1>2, <1>4, FailsTyped
  <1>5. ASSUME HearsOk(c), UNCHANGED modals,
               \/ StartResendCooldown(c.btn)
               \/ UnlockActionButton(c.btn) /\ UNCHANGED cooling,
               EntryTyped'
        PROVE  TypeInv'
    BY <1>1, <1>2, <1>5, TakenTyped
  <1>6. /\ entry' = RegisterShowStep2(entry) => EntryTyped'
        /\ entry' = LoginShowStep2(entry, c.req.email, c.ans.totp) => EntryTyped'
        /\ entry' = [entry EXCEPT !.totpAsked = c.ans.totp] => EntryTyped'
    <2>1. c.req.email \in Emails \cup {None} /\ EntryTyped
      BY DEF TypeInv, CallsTyped, CallTyped
    <2> QED  BY <2>1 DEF EntryTyped, RegisterShowStep2, LoginShowStep2
  <1>7. ASSUME NEW to \in Pages, NEW token, Redirects(c, to), EntryLoads(token)
        PROVE  TypeInv'
    BY <1>2, <1>7, LoadTyped DEF Redirects
  <1>8. CASE Stays
    <2>1. EntryTyped'
      BY <1>1, <1>6, <1>8
    <2> QED  BY <1>5, <1>8, <2>1
  <1>9. CASE \E to \in Pages : \E token : Redirects(c, to) /\ EntryLoads(token)
    BY <1>7, <1>9
  <1> HIDE DEF Stays
  <1> QED  BY <1>3, <1>4, <1>8, <1>9

LEMMA SlotButtonTyped ==
  ASSUME NEW slot \in Slots, NEW action \in {"confirm", "resend", "delete"}
  PROVE  SlotButton(action, slot) \in Buttons
  BY DEF Buttons

LEMMA GetEmailTyped ==
  ASSUME TypeInv, NEW slot \in Slots
  PROVE  GetEmail(slot) \in Emails \cup {None}
  BY DEF TypeInv, SecTyped, Users, GetEmail, Emails

LEMMA SecurityUserTypes ==
  ASSUME TypeInv, SecurityUser
  PROVE  TypeInv'
  <1> USE DEF accountVars, serverVars, authVars, secVars, Apart, Staying
  <1>1. /\ UNCHANGED entry => EntryTyped'
        /\ UNCHANGED sec => SecTyped'
    BY DEF TypeInv, SecTyped, EntryTyped
  <1>2. ASSUME NEW btn \in Buttons, NEW req, PressHere(btn, req), Asked(req)
        PROVE  TypeInv'
    BY <1>1, <1>2, PressTyped DEF PressHere, Press, Asked
  <1>3. /\ {"password_send", "password_change", "totp_start", "totp_confirm", "totp_disable",
            "email_send", "email_confirm", "email_delete"} \subseteq Ops
        /\ {"passwordSend", "passwordResend", "passwordConfirm", "totpEnable", "totpConfirm",
            "totpDisable"} \subseteq Buttons
        /\ None \in Emails \cup {None}
    BY DEF Ops, Buttons
  <1>4. CASE PasswordSendClick
    <2>1. PICK slot : PressHere("passwordSend", [Request("password_send") EXCEPT !.slot = slot])
      BY <1>4 DEF PasswordSendClick
    <2> QED  BY <1>2, <1>3, <2>1, RequestsAsked
  <1>5. CASE PasswordResendClick
    <2>1. PICK slot : PressHere("passwordResend", [Request("password_send") EXCEPT !.slot = slot])
      BY <1>5 DEF PasswordResendClick
    <2> QED  BY <1>2, <1>3, <2>1, RequestsAsked
  <1>6. CASE PasswordConfirmClick
    <2>1. PICK code : PressHere("passwordConfirm", [Request("password_change") EXCEPT
                                                      !.code = code, !.totp = PasswordTotp])
      BY <1>6 DEF PasswordConfirmClick
    <2>2. Asked([Request("password_change") EXCEPT !.code = code, !.totp = PasswordTotp])
      BY <1>3 DEF Asked, Request
    <2> QED  BY <1>2, <1>3, <2>1, <2>2
  <1>7. CASE TotpEnableClick
    BY <1>2, <1>3, <1>7, RequestsAsked DEF TotpEnableClick, PostTotp
  <1>8. CASE TotpConfirmClick
    <2>1. PressHere("totpConfirm", [Request("totp_confirm") EXCEPT !.totp = held])
      BY <1>8 DEF TotpConfirmClick, PostTotp
    <2> QED  BY <1>2, <1>3, <2>1, RequestsAsked
  <1>9. CASE TotpDisableClick
    <2>1. PressHere("totpDisable", [Request("totp_disable") EXCEPT !.totp = held])
      BY <1>9 DEF TotpDisableClick, PostTotp
    <2> QED  BY <1>2, <1>3, <2>1, RequestsAsked
  <1>10. CASE RecoveryDone
    <2>1. PICK to : /\ to = Landing("security") /\ Leave(to, calls)
                    /\ sec' = IF to = "security" THEN SecStart(account) ELSE NoSec
      BY <1>10 DEF RecoveryDone
    <2>2. to \in Pages
      BY <2>1 DEF Landing, Pages
    <2> QED  BY <1>10, <2>1, <2>2, LoadTyped DEF RecoveryDone
  <1>11. ASSUME NEW slot \in Slots, EmailConfirmClick(slot)
         PROVE  TypeInv'
    <2> DEFINE btn == SlotButton("confirm", slot)
    <2>1. btn \in Buttons
      BY SlotButtonTyped
    <2> HIDE DEF btn
    <2>2. CASE PressHere(btn, [Request("email_send") EXCEPT !.slot = slot, !.email = GetEmail(slot)])
      BY <1>2, <1>3, <2>1, <2>2, RequestsAsked, GetEmailTyped
    <2>3. ASSUME NEW code,
                 PressHere(btn, [Request("email_confirm") EXCEPT !.slot = slot, !.code = code,
                                                                 !.totp = EmailTotp])
          PROVE  TypeInv'
      <3>1. Asked([Request("email_confirm") EXCEPT !.slot = slot, !.code = code,
                                                   !.totp = EmailTotp])
        BY <1>3 DEF Asked, Request
      <3> QED  BY <1>2, <2>1, <2>3, <3>1
    <2> QED  BY <1>11, <2>2, <2>3 DEF EmailConfirmClick, btn
  <1>12. ASSUME NEW slot \in Slots, EmailResendClick(slot)
         PROVE  TypeInv'
    <2>1. SlotButton("resend", slot) \in Buttons
      BY SlotButtonTyped
    <2> QED
      BY <1>2, <1>3, <1>12, <2>1, RequestsAsked, GetEmailTyped DEF EmailResendClick
  <1>13. ASSUME NEW slot \in Slots, EmailDeleteClick(slot)
         PROVE  TypeInv'
    <2> DEFINE btn == SlotButton("delete", slot)
    <2>1. btn \in Buttons
      BY SlotButtonTyped
    <2> HIDE DEF btn
    <2>2. Apart /\ UNCHANGED <<held, entry>>
      BY <1>13 DEF EmailDeleteClick
    <2>3. CASE /\ LockActionButton(btn)
               /\ sec' = [sec EXCEPT !.pendingDelete = slot, !.deleteBusy = FALSE]
               /\ modals' = {"emailDeleteTotpModal"}
               /\ UNCHANGED <<page, cooling, calls, made, losses, orphaned>>
      <3>1. SecTyped'
        BY <2>3 DEF TypeInv, SecTyped
      <3>2. locked' \subseteq Buttons /\ cooling' \subseteq Buttons
        BY <2>1, <2>3 DEF TypeInv, PageTyped, LockActionButton
      <3> QED  BY <1>1, <2>2, <2>3, <3>1, <3>2, StillTyped
    <2>4. CASE /\ Press(btn, [Request("email_delete") EXCEPT !.slot = slot])
               /\ UNCHANGED <<sec, modals>>
      <3>1. Asked([Request("email_delete") EXCEPT !.slot = slot])
        BY <1>3, RequestsAsked
      <3> QED  BY <1>1, <2>1, <2>2, <2>4, <3>1, PressTyped DEF Press, Asked
    <2> QED  BY <1>13, <2>3, <2>4 DEF EmailDeleteClick, btn
  <1>14. CASE DeleteTotpTyped
    <2>1. PICK btn, req : /\ btn = SlotButton("delete", sec.pendingDelete)
                          /\ req = [Request("email_delete") EXCEPT
                                      !.slot = sec.pendingDelete, !.totp = held]
                          /\ Fetch(btn, req)
      BY <1>14 DEF DeleteTotpTyped
    <2>2. btn \in Buttons
      <3>1. sec.pendingDelete \in Slots
        BY <1>14 DEF DeleteTotpTyped, TypeInv, SecTyped
      <3> QED  BY <2>1, <3>1, SlotButtonTyped
    <2>3. Asked(req)
      BY <1>3, <2>1 DEF Asked, Request
    <2>4. SecTyped'
      BY <1>14 DEF DeleteTotpTyped, TypeInv, SecTyped
    <2> QED  BY <1>1, <1>14, <2>1, <2>2, <2>3, <2>4, PressTyped DEF DeleteTotpTyped, Asked
  <1>15. CASE DeleteTotpClose
    <2>1. SecTyped'
      BY <1>15 DEF DeleteTotpClose, TypeInv, SecTyped
    <2>2. /\ locked' \subseteq Buttons /\ cooling' \subseteq Buttons
          /\ modals' \subseteq {"registerModal", "loginModal", "emailDeleteTotpModal"}
      BY <1>15 DEF DeleteTotpClose, TypeInv, PageTyped
    <2> QED  BY <1>1, <1>15, <2>1, <2>2, StillTyped DEF DeleteTotpClose
  <1>16. CASE DeleteTotpEscape
    <2>1. /\ locked' \subseteq Buttons /\ cooling' \subseteq Buttons
          /\ modals' \subseteq {"registerModal", "loginModal", "emailDeleteTotpModal"}
      BY <1>16 DEF DeleteTotpEscape, CloseModal, callVars, TypeInv, PageTyped
    <2> QED
      BY <1>1, <1>16, <2>1, StillTyped DEF DeleteTotpEscape, CloseModal, callVars
  <1> QED
    BY <1>4, <1>5, <1>6, <1>7, <1>8, <1>9, <1>10, <1>11, <1>12, <1>13, <1>14, <1>15, <1>16
    DEF SecurityUser

LEMMA SecurityAnswerTypes ==
  ASSUME TypeInv, NEW c \in calls, SecurityAnswer(c)
  PROVE  TypeInv'
  <1> USE DEF accountVars, serverVars, authVars, secVars, Apart, Staying
  <1>1. /\ UNCHANGED entry => EntryTyped'
        /\ UNCHANGED sec => SecTyped'
    BY DEF TypeInv, SecTyped, EntryTyped
  <1>2. ASSUME Refused(c), Apart, UNCHANGED <<held, authVars>>
        PROVE  TypeInv'
    BY <1>1, <1>2, FailsTyped DEF Refused
  <1>3. ASSUME NEW s, Released(c, s) \/ Rested(c, s), Apart, UNCHANGED authVars,
               held' \in Secrets, SecTyped'
        PROVE  TypeInv'
    BY <1>1, <1>3, TakenTyped DEF Released, Rested
  <1>4. ASSUME ReloadsSecurity(c), UNCHANGED accountVars
        PROVE  TypeInv'
    <2>1. PICK to : /\ to = Landing("security") /\ Redirects(c, to)
                    /\ sec' = IF to = "security" THEN SecStart(account) ELSE NoSec
      BY <1>4 DEF ReloadsSecurity
    <2>2. to \in Pages
      BY <2>1 DEF Landing, Pages
    <2> QED  BY <1>4, <2>1, <2>2, LoadTyped DEF ReloadsSecurity, Redirects
  <1>5. held \in Secrets
    BY DEF TypeInv, ServerTyped
  <1>6. \A s : (Released(c, s) \/ Rested(c, s)) => sec' = s
    BY DEF Released, Rested
  <1>7. CASE PasswordSent(c) \/ PasswordResent(c)
    <2>1. CASE Refused(c)
      BY <1>2, <1>7, <2>1 DEF PasswordSent, PasswordResent
    <2>2. CASE Rested(c, [sec EXCEPT !.pwTotp = c.ans.totp, !.codeBlock = TRUE])
      <3>1. SecTyped'
        BY <1>6, <2>2 DEF TypeInv, SecTyped
      <3> QED  BY <1>3, <1>5, <1>7, <2>2, <3>1 DEF PasswordSent, PasswordResent
    <2>3. CASE Rested(c, [sec EXCEPT !.pwTotp = c.ans.totp])
      <3>1. SecTyped'
        BY <1>6, <2>3 DEF TypeInv, SecTyped
      <3> QED  BY <1>3, <1>5, <1>7, <2>3, <3>1 DEF PasswordSent, PasswordResent
    <2> QED  BY <1>7, <2>1, <2>2, <2>3 DEF PasswordSent, PasswordResent
  <1>8. CASE PasswordConfirmed(c)
    <2>1. CASE Refused(c)
      BY <1>2, <1>8, <2>1 DEF PasswordConfirmed
    <2>2. CASE HearsOk(c) /\ UNCHANGED <<locked, cooling>>
               /\ sec' = [sec EXCEPT !.codeBlock = FALSE, !.pwTotp = FALSE]
      <3>1. SecTyped'
        BY <2>2 DEF TypeInv, SecTyped
      <3> QED  BY <1>1, <1>5, <1>8, <2>2, <3>1, TakenTyped DEF PasswordConfirmed
    <2> QED  BY <1>8, <2>1, <2>2 DEF PasswordConfirmed
  <1>9. CASE TotpStarted(c)
    <2>1. CASE Refused(c) /\ UNCHANGED held
      BY <1>2, <1>9, <2>1 DEF TotpStarted
    <2>2. CASE Released(c, [sec EXCEPT !.panel = "setup"]) /\ held' = c.ans.n
      <3>1. SecTyped'
        BY <1>6, <2>2 DEF TypeInv, SecTyped, TotpPanels
      <3>2. held' \in Secrets
        BY <2>2 DEF Released, HearsOk, Hears, TypeInv, CallsTyped, CallTyped, Secrets
      <3> QED  BY <1>3, <1>9, <2>2, <3>1, <3>2 DEF TotpStarted
    <2> QED  BY <1>9, <2>1, <2>2 DEF TotpStarted
  <1>10. CASE TotpConfirmed(c) \/ TotpDisabled(c)
    <2>1. CASE Refused(c)
      BY <1>2, <1>10, <2>1 DEF TotpConfirmed, TotpDisabled
    <2>2. ASSUME NEW panel \in TotpPanels, Released(c, [sec EXCEPT !.panel = panel])
          PROVE  TypeInv'
      <3>1. SecTyped'
        BY <1>6, <2>2 DEF TypeInv, SecTyped
      <3> QED  BY <1>3, <1>5, <1>10, <2>2, <3>1 DEF TotpConfirmed, TotpDisabled
    <2>3. "recovery" \in TotpPanels /\ RenderedPanel(FALSE) \in TotpPanels
      BY DEF TotpPanels, RenderedPanel
    <2> QED  BY <1>10, <2>1, <2>2, <2>3 DEF TotpConfirmed, TotpDisabled
  <1>11. ASSUME NEW slot \in Slots, EmailConfirmAnswered(c, slot)
         PROVE  TypeInv'
    <2>1. CASE Refused(c) /\ Staying
      BY <1>2, <2>1
    <2>2. CASE Released(c, [sec EXCEPT !.slots = @ \cup {slot}]) /\ Staying
      <3>1. SecTyped'
        BY <1>6, <2>2 DEF TypeInv, SecTyped
      <3> QED  BY <1>3, <1>5, <2>2, <3>1
    <2> QED  BY <1>4, <1>11, <2>1, <2>2 DEF EmailConfirmAnswered
  <1>12. ASSUME NEW slot \in Slots, EmailResent(c, slot)
         PROVE  TypeInv'
    BY <1>1, <1>2, <1>3, <1>5, <1>6, <1>12 DEF EmailResent
  <1>13. ASSUME NEW slot \in Slots, EmailDeleteAnswered(c, slot)
         PROVE  TypeInv'
    <2>1. CASE Fails(c) /\ sec' = [sec EXCEPT !.deleteBusy = FALSE] /\ Staying
      <3>1. SecTyped'
        BY <2>1 DEF TypeInv, SecTyped
      <3> QED  BY <1>1, <2>1, <3>1, FailsTyped
    <2> QED  BY <1>4, <1>13, <2>1 DEF EmailDeleteAnswered
  <1> QED
    BY <1>7, <1>8, <1>9, <1>10, <1>11, <1>12, <1>13 DEF SecurityAnswer

LEMMA TypesStep ==
  ASSUME TypeInv, [Next]_vars
  PROVE  TypeInv'
  <1> USE DEF accountVars, serverVars, Apart
  <1>1. CASE User
    <2>1. ASSUME NEW to \in Pages, Lands(to)
          PROVE  TypeInv'
      BY <2>1, LoadTyped DEF Lands
    <2>2. \A p \in Pages : Landing(p) \in Pages
      BY DEF Landing, Pages
    <2>3. CASE Navigate
      BY <2>1, <2>2, <2>3 DEF Navigate
    <2>4. CASE Logout
      <3>1. "index" \in Pages
        BY DEF Pages
      <3> QED  BY <2>1, <2>4, <3>1 DEF Logout
    <2> QED  BY <1>1, <2>3, <2>4, AuthUserTypes, SecurityUserTypes DEF User
  <1>2. CASE Server
    BY <1>2, ServerTypes
  <1>3. CASE Hear
    BY <1>3, AuthAnswerTypes, SecurityAnswerTypes DEF Hear
  <1>4. CASE Time \/ UNCHANGED vars
    <2>1. /\ UNCHANGED <<calls, made, losses, orphaned, page, held, locked, modals, entry, sec>>
          /\ Apart /\ cooling' \subseteq cooling
      BY <1>4 DEF Time, CooldownEnds, CooldownPasses, vars, callVars, authVars, secVars
    <2>2. /\ locked' \subseteq Buttons /\ cooling' \subseteq Buttons
          /\ modals' \subseteq {"registerModal", "loginModal", "emailDeleteTotpModal"}
      BY <2>1 DEF TypeInv, PageTyped
    <2>3. EntryTyped' /\ SecTyped'
      BY <2>1 DEF TypeInv, EntryTyped, SecTyped
    <2> QED  BY <2>1, <2>2, <2>3, StillTyped
  <1> QED  BY <1>1, <1>2, <1>3, <1>4 DEF Next

LEMMA TypesStart ==
  Init => TypeInv
  <1> SUFFICES ASSUME Init PROVE TypeInv
    OBVIOUS
  <1>1. PICK v \in Visits :
          /\ account = v.user /\ page = v.page /\ modals = v.modal
          /\ tokens = [n |-> IF page = "new_password" THEN 1 ELSE 0, used |-> {}]
          /\ entry = [EntryStart EXCEPT !.token = tokens.n]
          /\ calls = {Sent(1, v.btn, v.req)} /\ locked = {v.btn}
          /\ cooling = {} /\ made = 1 /\ losses = 0 /\ orphaned = FALSE
          /\ codes = [p \in Purposes |-> [n |-> 0, live |-> FALSE, tries |-> 0]]
          /\ minted = account.secret /\ held = account.secret
          /\ sec = IF page = "security" THEN SecStart(account) ELSE NoSec
    BY DEF Init
  <1>2. PICK c : c = Sent(1, v.btn, v.req)
    OBVIOUS
  <1>3. /\ v.user \in Users /\ v.user.secret \in {0, 1} /\ v.page \in Pages
        /\ v.btn \in DOMAIN FirstRequest /\ v.req.op = FirstRequest[v.btn]
        /\ v.req.email \in Emails \cup {None}
        /\ v.modal \subseteq {"registerModal", "loginModal"}
    BY VisitsStart
  <1>4. v.btn \in Buttons
    <2>1. "confirm1" = SlotButton("confirm", 1) /\ "confirm2" = SlotButton("confirm", 2)
          /\ "delete1" = SlotButton("delete", 1) /\ "delete2" = SlotButton("delete", 2)
      BY DEF SlotButton, SlotButtons
    <2>2. {"confirm1", "confirm2", "delete1", "delete2"} \subseteq Buttons
      BY <2>1, SlotButtonTyped DEF Slots
    <2> QED  BY <1>3, <2>2 DEF FirstRequest, Buttons
  <1>5. v.req.op \in Ops
    BY <1>3 DEF FirstRequest, Ops
  <1>6. /\ {"id", "btn", "req", "owned", "stage"} \subseteq DOMAIN c
        /\ c.id = 1 /\ c.btn = v.btn /\ c.req = v.req /\ c.owned = TRUE /\ c.stage = "sent"
    BY <1>2 DEF Sent
  <1>7. CallsTyped
    <2>1. 1 \in Ids
      BY PageBounds, VisitBounds DEF Ids
    <2>2. CallTyped(c)
      BY <1>3, <1>4, <1>5, <1>6, <2>1 DEF CallTyped, IsRead, IsDone
    <2> QED  BY <1>1, <1>2, <2>2 DEF CallsTyped
  <1>8. Budget
    <2>1. Unanswered = {1}
      BY <1>1, <1>2, <1>6 DEF Unanswered, IsDone
    <2>2. Cardinality(Unanswered) = 1
      BY <2>1, FS_Singleton
    <2>3. minted \in {0, 1} /\ tokens.n \in {0, 1} /\ \A p \in Purposes : codes[p].n = 0
      BY <1>1, <1>3
    <2> QED  BY <1>1, <2>2, <2>3 DEF Budget
  <1>9. ServerTyped
    <2>1. codes \in [Purposes -> CodeRows]
      BY <1>1, AttemptsBound DEF CodeRows
    <2>2. held \in Secrets
      BY <1>1, <1>3, PageBounds DEF Secrets
    <2> QED  BY <1>1, <1>3, <2>1, <2>2 DEF ServerTyped
  <1>10. PageTyped
    <2>1. made \in 0..MaxCalls /\ losses \in 0..MaxLost
      BY <1>1, PageBounds, VisitBounds
    <2>2. page \in Pages
      BY <1>1, <1>3
    <2>3. locked \subseteq Buttons /\ cooling \subseteq Buttons /\ orphaned \in BOOLEAN
      BY <1>1, <1>4
    <2>4. modals \subseteq {"registerModal", "loginModal", "emailDeleteTotpModal"}
      BY <1>1, <1>3
    <2> QED  BY <2>1, <2>2, <2>3, <2>4 DEF PageTyped
  <1>11. EntryTyped
    BY <1>1 DEF EntryTyped, EntryStart
  <1>12. SecTyped
    <2>1. ASSUME NEW user \in Users, sec = SecStart(user)
          PROVE  SecTyped
      BY <2>1 DEF SecTyped, SecStart, TotpPanels, RenderedPanel
    <2>2. NoUser \in Users
      <3>1. 0 \in Secrets
        BY PageBounds DEF Secrets
      <3> QED  BY <3>1 DEF NoUser, Users, Secrets
    <2> QED  BY <1>1, <1>3, <2>1, <2>2 DEF NoSec
  <1> QED  BY <1>7, <1>8, <1>9, <1>10, <1>11, <1>12 DEF TypeInv

\* Calls, rows, buttons and forms stay what they are; in particular a secret, a token or
\* a code is only made by a request, so their numbers stay within the bound on calls, and
\* no more requests are in flight than have numbers.
THEOREM SiteTypes ==
  Spec => []TypeOK
  BY TypesStart, TypesStep, TypesFollow, PTL DEF Spec
=============================================================================
