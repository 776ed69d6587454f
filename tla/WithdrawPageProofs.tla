------------------------- MODULE WithdrawPageProofs --------------------------
(***************************************************************************)
(* Proofs about the withdrawal dialog within InvestorPages, for every      *)
(* balance, fee, set of amounts, bound, visit and price.                   *)
(*                                                                         *)
(* The invariant says more of the calls than TokenIsShown says of the      *)
(* dialog: an awaited code request names the address and the amount in the *)
(* dialog's fields (else an answer could bring a token for another         *)
(* withdrawal), and a good answer to it carries the token of a session     *)
(* begun for the address and the amount the request names.  Sessions are   *)
(* only added to, used and ended, so a token that stands for a withdrawal  *)
(* stands for it ever after.  Steps are sorted by what they do to calls,   *)
(* sessions and dialog (CallsGoOn, SessionsStand, DialogStands); three need*)
(* an argument of their own: the dialog is opened anew, the server hands   *)
(* out a token, the dialog takes it.                                       *)
(*                                                                         *)
(* The second half is about the money, as long as no call has outlived its *)
(* page.  ReserveIsAccounted rests on what withdraw_confirm does not check:*)
(* that nobody changes the reserve between its reading and its writing     *)
(* (Confirmation: one confirmation at a time, and no order entry where the *)
(* dialog is), and that an amount that was available when its session was  *)
(* begun still is (HeldFits: until the one transfer of the document, after *)
(* which the button stays pending).  Sums over sessions are counted with   *)
(* SumLemmas.                                                              *)
(***************************************************************************)
EXTENDS InvestorPages, SequenceTheorems, SumLemmas

(***************************************************************************)
(* Shapes                                                                  *)
(***************************************************************************)
CallShaped(c) ==
  /\ {"btn", "req", "owned", "stage"} \subseteq DOMAIN c
  /\ IsDone(c) => "ans" \in DOMAIN c

SessionsShaped ==
  /\ \E T : sessions \in Seq(T)
  /\ \A t \in DOMAIN sessions :
       {"addr", "gross", "transfers"} \subseteq DOMAIN sessions[t]

DialogShaped == {"token", "addr", "gross", "abandoned"} \subseteq DOMAIN w

(***************************************************************************)
(* The invariant                                                           *)
(***************************************************************************)

\* A token stands for a withdrawal of an amount to an address.
Stands(token, addr, gross) ==
  /\ token \in DOMAIN sessions
  /\ sessions[token].addr = addr /\ sessions[token].gross = gross

\* A code is asked for what the dialog shows, as long as it is not opened anew, and
\* an answer carries the token of what was asked for.
AskedForShown ==
  \A c \in calls :
    /\ CallShaped(c)
    /\ c.btn = "getCode" =>
         /\ c.req.op = "withdraw_request"
         /\ c.owned /\ ~w.abandoned => c.req.addr = w.addr /\ c.req.gross = w.gross
         /\ IsDone(c) /\ c.ans.ok => Stands(c.ans.token, c.req.addr, c.req.gross)

TokenStands == w.token # 0 /\ ~w.abandoned => Stands(w.token, w.addr, w.gross)

Inv == SessionsShaped /\ DialogShaped /\ AskedForShown /\ TokenStands

(***************************************************************************)
(* What a step may do                                                      *)
(***************************************************************************)

\* A call goes on, or is disowned, with no new token.
CarriesOn(d, c) ==
  /\ CallShaped(d) /\ d.btn = c.btn /\ d.req = c.req /\ (d.owned => c.owned)
  /\ d.btn = "getCode" /\ IsDone(d) /\ d.ans.ok => IsDone(c) /\ d.ans = c.ans

\* A call that is made, for what the dialog shows if it asks for a code.
Fresh(d) ==
  /\ CallShaped(d) /\ IsSent(d)
  /\ d.btn = "getCode" => /\ d.req.op = "withdraw_request"
                          /\ d.req.addr = w.addr /\ d.req.gross = w.gross

CallsGoOn == \A d \in calls' : Fresh(d) \/ \E c \in calls : CarriesOn(d, c)

\* Sessions stay for what they were begun, and may end or be added to.
SessionsStand ==
  /\ SessionsShaped'
  /\ \A t \in DOMAIN sessions :
       /\ t \in DOMAIN sessions'
       /\ sessions'[t].addr = sessions[t].addr /\ sessions'[t].gross = sessions[t].gross

\* The dialog may drop its token but not change what it is for.
DialogStands ==
  /\ DialogShaped' /\ w'.token \in {0, w.token}
  /\ w'.addr = w.addr /\ w'.gross = w.gross /\ w'.abandoned = w.abandoned

\* Calls that go on, sessions that stay and a dialog that stays keep the invariant.
LEMMA StandingKeeps ==
  ASSUME Inv, CallsGoOn, SessionsStand, DialogStands
  PROVE  Inv'
  <1>1. \A token, addr, gross : Stands(token, addr, gross) => Stands(token, addr, gross)'
    BY DEF SessionsStand, Stands
  <1>2. AskedForShown'
    <2> SUFFICES ASSUME NEW d \in calls'
                 PROVE  /\ CallShaped(d)
                        /\ d.btn = "getCode" =>
                             /\ d.req.op = "withdraw_request"
                             /\ d.owned /\ ~w'.abandoned =>
                                  d.req.addr = w'.addr /\ d.req.gross = w'.gross
                             /\ IsDone(d) /\ d.ans.ok =>
                                  Stands(d.ans.token, d.req.addr, d.req.gross)'
      BY DEF AskedForShown, IsDone
    <2>1. CASE Fresh(d)
      BY <2>1 DEF Fresh, DialogStands, IsSent, IsDone
    <2>2. ASSUME NEW c \in calls, CarriesOn(d, c)
          PROVE  /\ CallShaped(d)
                 /\ d.btn = "getCode" =>
                      /\ d.req.op = "withdraw_request"
                      /\ d.owned /\ ~w'.abandoned =>
                           d.req.addr = w'.addr /\ d.req.gross = w'.gross
                      /\ IsDone(d) /\ d.ans.ok =>
                           Stands(d.ans.token, d.req.addr, d.req.gross)'
      BY <1>1, <2>2 DEF CarriesOn, Inv, AskedForShown, DialogStands
    <2> QED  BY <2>1, <2>2 DEF CallsGoOn
  <1>3. TokenStands'
    BY <1>1 DEF Inv, TokenStands, DialogStands
  <1> QED  BY <1>2, <1>3 DEF Inv, SessionsStand, DialogStands

(***************************************************************************)
(* Calls                                                                   *)
(***************************************************************************)

\* A call that is no longer awaited is still the same request.
LEMMA Disowned ==
  ASSUME NEW c, CallShaped(c)
  PROVE  CarriesOn([c EXCEPT !.owned = FALSE], c) /\ CarriesOn(c, c)
  <1> DEFINE d == [c EXCEPT !.owned = FALSE]
  <1>1. CarriesOn(c, c)
    BY DEF CarriesOn
  <1>2. /\ DOMAIN d = DOMAIN c /\ ~d.owned
        /\ d.btn = c.btn /\ d.req = c.req /\ d.stage = c.stage
        /\ "ans" \in DOMAIN c => d.ans = c.ans
    BY DEF CallShaped
  <1> HIDE DEF d
  <1>3. CarriesOn(d, c)
    BY <1>2 DEF CarriesOn, CallShaped, IsDone
  <1> QED  BY <1>1, <1>3 DEF d

\* An answer without a token, or to another kind of request.
LEMMA Answered ==
  ASSUME NEW c, NEW ans, c.btn # "getCode" \/ ~ans.ok
  PROVE  CarriesOn(Done(c, ans), c)
  BY DEF CarriesOn, CallShaped, Done, IsDone

\* The server's answer, without a token or to another kind of request.
LEMMA RepliesGoOn ==
  ASSUME Inv, NEW c \in calls, NEW ans, c.btn # "getCode" \/ ~ans.ok, Replies(c, ans)
  PROVE  CallsGoOn
  <1>1. \A d \in calls' : d \in calls \/ d = Done(c, ans)
    BY DEF Replies
  <1>2. \A d \in calls : CarriesOn(d, d)
    BY Disowned DEF Inv, AskedForShown
  <1>3. CarriesOn(Done(c, ans), c)
    BY Answered
  <1> QED  BY <1>1, <1>2, <1>3 DEF CallsGoOn

\* Calls that are heard, lost or left behind.
LEMMA FewerGoOn ==
  ASSUME Inv, \A d \in calls' : d \in calls \/ \E c \in calls : d = [c EXCEPT !.owned = FALSE]
  PROVE  CallsGoOn
  <1> SUFFICES ASSUME NEW d \in calls' PROVE \E c \in calls : CarriesOn(d, c)
    BY DEF CallsGoOn
  <1>1. PICK c \in calls : d = c \/ d = [c EXCEPT !.owned = FALSE]
    OBVIOUS
  <1>2. CallShaped(c)
    BY DEF Inv, AskedForShown
  <1>3. CarriesOn(d, c)
    BY <1>1, <1>2, Disowned
  <1> QED  BY <1>3

\* An answer that is heard or lost leaves no new call.
LEMMA HearsFewer ==
  ASSUME NEW c \in calls, Hears(c) \/ Loses(c)
  PROVE  \A d \in calls' : d \in calls \/ \E b \in calls : d = [b EXCEPT !.owned = FALSE]
  BY DEF Hears, Loses

\* A request of the user.
LEMMA FetchGoesOn ==
  ASSUME Inv, NEW btn, NEW req, Fetch(btn, req),
         btn = "getCode" => /\ req.op = "withdraw_request"
                            /\ req.addr = w.addr /\ req.gross = w.gross
  PROVE  CallsGoOn
  <1>1. PICK id \in Ids : calls' = calls \cup {Sent(id, btn, req)}
    BY DEF Fetch
  <1>2. Fresh(Sent(id, btn, req))
    BY DEF Fresh, Sent, CallShaped, IsSent, IsDone
  <1>3. \A d \in calls : CarriesOn(d, d)
    BY Disowned DEF Inv, AskedForShown
  <1> QED  BY <1>1, <1>2, <1>3 DEF CallsGoOn

\* Where nothing is said of sessions or dialog they stay as they are.
LEMMA Unchanged ==
  ASSUME Inv
  PROVE  /\ UNCHANGED sessions => SessionsStand
         /\ UNCHANGED w => DialogStands
         /\ UNCHANGED calls => CallsGoOn
  <1>1. UNCHANGED sessions => SessionsStand
    BY DEF Inv, SessionsStand, SessionsShaped
  <1>2. UNCHANGED w => DialogStands
    BY DEF Inv, DialogStands, DialogShaped
  <1>3. UNCHANGED calls => CallsGoOn
    BY Disowned DEF Inv, AskedForShown, CallsGoOn
  <1> QED  BY <1>1, <1>2, <1>3

(***************************************************************************)
(* The user                                                                *)
(***************************************************************************)
\* The clicks of dashboard_wallet.js.
LEMMA DialogUserKeeps ==
  ASSUME Inv, WithdrawUser \/ TypeAddress
  PROVE  Inv'
  <1>1. CASE WithdrawConfirmBtn
    <2>1. PICK gross \in Amounts :
            w' = [DialogStart EXCEPT !.token = 0, !.addr = form.addr, !.gross = gross,
                                     !.seq = w.seq + 1, !.options = w.options,
                                     !.abandoned = w.abandoned \/ Awaited("getCode") # {}]
      BY <1>1 DEF WithdrawConfirmBtn, OpenDialog
    <2>2. UNCHANGED <<calls, sessions>>
      BY <1>1 DEF WithdrawConfirmBtn, OpenDialog, bookVars
    <2>3. DialogShaped' /\ w'.token = 0
          /\ (w'.abandoned <=> w.abandoned \/ Awaited("getCode") # {})
      BY <2>1 DEF DialogShaped, DialogStart
    <2>4. AskedForShown'
      BY <2>2, <2>3 DEF Inv, AskedForShown, Awaited, Stands
    <2> QED  BY <2>2, <2>3, <2>4 DEF Inv, SessionsShaped, TokenStands
  <1>2. CASE OpenWithdrawForm \/ CloseModal \/ TypeAddress
    BY <1>2, Unchanged, StandingKeeps
    DEF OpenWithdrawForm, CloseModal, TypeAddress, callVars, portfolioVars, bookVars
  <1>3. CASE GetCodeClick
    <2>1. PICK slot : Fetch("getCode", [Request("withdraw_request") EXCEPT
                         !.addr = w.addr, !.gross = w.gross, !.slot = slot])
      BY <1>3 DEF GetCodeClick, Press
    <2>2. CallsGoOn
      BY <2>1, FetchGoesOn DEF Request
    <2> QED  BY <1>3, <2>2, Unchanged, StandingKeeps
             DEF GetCodeClick, portfolioVars, bookVars, withdrawVars
  <1>4. CASE ResendClick \/ ConfirmClick
    <2>1. CallsGoOn
      BY <1>4, FetchGoesOn DEF ResendClick, ConfirmClick, Press
    <2> QED  BY <1>4, <2>1, Unchanged, StandingKeeps
             DEF ResendClick, ConfirmClick, portfolioVars, bookVars, withdrawVars
  <1>5. CASE EmailChange
    <2>1. DialogStands /\ UNCHANGED <<calls, sessions>>
      BY <1>5 DEF EmailChange, Inv, DialogStands, DialogShaped, portfolioVars, bookVars
    <2> QED  BY <2>1, Unchanged, StandingKeeps
  <1>6. CASE HandleConfirmModalClose
    <2>1. UNCHANGED sessions
      BY <1>6 DEF HandleConfirmModalClose, portfolioVars, bookVars
    <2>2. DialogStands
      BY <1>6 DEF HandleConfirmModalClose, ClosesDialog, Inv, DialogStands, DialogShaped
    <2>3. CallsGoOn
      BY <1>6, FetchGoesOn, Unchanged DEF HandleConfirmModalClose
    <2> QED  BY <2>1, <2>2, <2>3, Unchanged, StandingKeeps
  <1> QED  BY <1>1, <1>2, <1>3, <1>4, <1>5, <1>6 DEF WithdrawUser

(***************************************************************************)
(* Answers and polls                                                       *)
(***************************************************************************)

\* A call that is heard or lost and changes at most the token of the dialog to none.
LEMMA HeardKeeps ==
  ASSUME Inv, NEW c \in calls, Hears(c) \/ Loses(c), UNCHANGED sessions, DialogStands
  PROVE  Inv'
  BY HearsFewer, FewerGoOn, Unchanged, StandingKeeps

\* The answers of the withdrawal dialog.
LEMMA WithdrawAnswerKeeps ==
  ASSUME Inv, NEW c \in calls, WithdrawAnswer(c)
  PROVE  Inv'
  <1>1. UNCHANGED sessions
    BY DEF WithdrawAnswer, GetCodeAnswered, ResendAnswered, Confirmed, Cancelled,
           portfolioVars, bookVars
  <1>2. CASE UNCHANGED w /\ (Hears(c) \/ Loses(c))
    BY <1>1, <1>2, HeardKeeps, Unchanged
  <1>3. CASE HearsOk(c) /\ w' = [w EXCEPT !.done = TRUE]
    <2>1. DialogStands
      BY <1>3 DEF Inv, DialogStands, DialogShaped
    <2> QED  BY <1>1, <1>3, <2>1, HeardKeeps DEF HearsOk
  <1>4. CASE Cancelled(c)
    <2>1. DialogStands
      BY <1>4 DEF Cancelled, ClosesDialog, Inv, DialogStands, DialogShaped
    <2> QED  BY <1>1, <1>4, <2>1, HeardKeeps DEF Cancelled
  <1>5. CASE /\ c.btn = "getCode" /\ HearsOk(c)
             /\ w' = [w EXCEPT !.token = c.ans.token, !.slot = c.ans.slot,
                               !.totp = c.ans.totp]
    <2>1. /\ DialogShaped' /\ w'.token = c.ans.token
          /\ w'.addr = w.addr /\ w'.gross = w.gross /\ w'.abandoned = w.abandoned
      BY <1>5 DEF Inv, DialogShaped
    <2>2. calls' = calls \ {c} /\ c.owned /\ IsDone(c) /\ c.ans.ok
      BY <1>5 DEF HearsOk, Hears
    <2>3. AskedForShown'
      BY <1>1, <2>1, <2>2 DEF Inv, AskedForShown, Stands
    <2>4. TokenStands'
      BY <1>1, <1>5, <2>1, <2>2 DEF Inv, AskedForShown, TokenStands, Stands
    <2> QED  BY <1>1, <2>1, <2>3, <2>4 DEF Inv, SessionsShaped
  <1> QED
    BY <1>2, <1>3, <1>4, <1>5
    DEF WithdrawAnswer, GetCodeAnswered, ResendAnswered, Confirmed, Fails, HearsError,
        NetworkFails, HearsOk, withdrawVars

\* Every other handler, poll or event: the dialog and the sessions stay.
LEMMA QuietKeeps ==
  ASSUME Inv, UNCHANGED <<sessions, calls>>,
         \/ UNCHANGED w
         \/ \E slot : w' = [w EXCEPT !.options = TRUE, !.slot = slot]
  PROVE  Inv'
  <1>1. DialogStands
    BY DEF Inv, DialogStands, DialogShaped
  <1> QED  BY <1>1, Unchanged, StandingKeeps

(***************************************************************************)
(* The server                                                              *)
(***************************************************************************)

\* A row of withdraw_sessions that stays for what it was begun.
LEMMA RowChanges ==
  ASSUME Inv, NEW t, NEW row, sessions' = [sessions EXCEPT ![t] = row],
         t \in DOMAIN sessions => /\ row.addr = sessions[t].addr
                                  /\ row.gross = sessions[t].gross
                                  /\ DOMAIN row = DOMAIN sessions[t]
  PROVE  SessionsStand
  <1>1. PICK T : sessions \in Seq(T)
    BY DEF Inv, SessionsShaped
  <1>2. DOMAIN sessions' = DOMAIN sessions
        /\ \A i \in DOMAIN sessions : sessions'[i] = IF i = t THEN row ELSE sessions[i]
    BY <1>1, LenProperties
  <1>3. sessions' \in Seq(T \cup {row})
    <2>1. sessions \in Seq(T \cup {row})
      BY <1>1, SeqMonotonic
    <2>2. CASE t \in 1..Len(sessions)
      BY <2>1, <2>2, ExceptSeq
    <2>3. CASE t \notin 1..Len(sessions)
      BY <2>1, <2>3, LenProperties
    <2> QED  BY <2>2, <2>3
  <1> QED  BY <1>2, <1>3 DEF Inv, SessionsStand, SessionsShaped

\* A new row of withdraw_sessions: tokens that stood still stand, and the new one
\* stands for what it was asked for.
LEMMA RowAdded ==
  ASSUME Inv, NEW row, {"addr", "gross", "transfers"} \subseteq DOMAIN row,
         NEW token, token = Len(sessions) + 1, sessions' = Append(sessions, row)
  PROVE  SessionsStand /\ Stands(token, row.addr, row.gross)'
  <1>1. PICK T : sessions \in Seq(T)
    BY DEF Inv, SessionsShaped
  <1>2. sessions \in Seq(T \cup {row})
    BY <1>1, SeqMonotonic
  <1>3. /\ sessions' \in Seq(T \cup {row}) /\ Len(sessions) \in Nat
        /\ DOMAIN sessions = 1..Len(sessions) /\ DOMAIN sessions' = 1..(Len(sessions) + 1)
        /\ sessions'[Len(sessions) + 1] = row
        /\ \A i \in 1..Len(sessions) : sessions'[i] = sessions[i]
    BY <1>2, LenProperties
  <1>4. SessionsStand
    BY <1>3 DEF Inv, SessionsStand, SessionsShaped
  <1>5. sessions'[Len(sessions) + 1] = row /\ Len(sessions) + 1 \in DOMAIN sessions'
    BY <1>3
  <1> QED  BY <1>4, <1>5 DEF Stands

\* A call that goes from one stage of its handler to the next.
LEMMA StageGoesOn ==
  ASSUME Inv, NEW c \in calls, NEW d, CarriesOn(d, c), calls' = (calls \ {c}) \cup {d}
  PROVE  CallsGoOn
  BY Disowned DEF Inv, AskedForShown, CallsGoOn

\* A call that begins a withdrawal is answered with the token of its session.
LEMMA RequestKeeps ==
  ASSUME Inv, NEW c \in calls, WithdrawRequestCode(c) \/ WithdrawRequestCommits(c)
  PROVE  UNCHANGED w => Inv'
  <1> SUFFICES ASSUME UNCHANGED w PROVE Inv'
    OBVIOUS
  <1>1. CASE UNCHANGED sessions /\ Replies(c, Error)
    BY <1>1, RepliesGoOn, Unchanged, StandingKeeps DEF Error
  <1>2. CASE WithdrawRequestCommits(c)
    <2>1. PICK row : /\ row = [addr |-> c.req.addr, gross |-> c.req.gross,
                               slot |-> c.req.slot, live |-> TRUE, used |-> FALSE,
                               transfers |-> 0]
                     /\ sessions' = Append(sessions, row)
                     /\ Replies(c, Answer(Len(sessions) + 1, c.req.gross, c.req.slot))
      BY <1>2 DEF WithdrawRequestCommits
    <2>2. PICK token, d : /\ token = Len(sessions) + 1
                          /\ d = Done(c, Answer(token, c.req.gross, c.req.slot))
      OBVIOUS
    <2>3. /\ {"addr", "gross", "transfers"} \subseteq DOMAIN row
          /\ row.addr = c.req.addr /\ row.gross = c.req.gross
      BY <2>1
    <2>4. SessionsStand /\ Stands(token, c.req.addr, c.req.gross)'
      BY <2>1, <2>2, <2>3, RowAdded
    <2>5. \A b \in calls' : b \in calls \/ b = d
      BY <2>1, <2>2 DEF Replies
    <2>6. /\ CallShaped(d) /\ d.btn = c.btn /\ d.req = c.req /\ d.owned = c.owned
          /\ d.ans.token = token
      BY <2>2 DEF CallShaped, Done, Answer, IsDone
    <2>7. \A t, addr, gross : Stands(t, addr, gross) => Stands(t, addr, gross)'
      BY <2>4 DEF SessionsStand, Stands
    <2>8. AskedForShown'
      BY <2>4, <2>5, <2>6, <2>7 DEF Inv, AskedForShown
    <2>9. TokenStands'
      BY <2>7 DEF Inv, TokenStands
    <2> QED  BY <2>4, <2>8, <2>9 DEF Inv, SessionsStand, DialogShaped
  <1>3. ASSUME NEW seen, UNCHANGED sessions, calls' = (calls \ {c}) \cup {Read(c, seen)}
        PROVE  Inv'
    <2>1. CarriesOn(Read(c, seen), c)
      BY DEF CarriesOn, CallShaped, Read, IsDone
    <2> QED  BY <1>3, <2>1, StageGoesOn, Unchanged, StandingKeeps
  <1> QED  BY <1>1, <1>2, <1>3 DEF WithdrawRequestCode, Refuses

\* The other routes: a session may end or be used, no token is given out.
LEMMA RouteKeeps ==
  ASSUME Inv, NEW c \in calls, PortfolioRoute(c)
  PROVE  UNCHANGED w => Inv'
  <1> SUFFICES ASSUME UNCHANGED w PROVE Inv'
    OBVIOUS
  <1> USE Unchanged, StandingKeeps
  <1>1. CASE WithdrawRequestCode(c) \/ WithdrawRequestCommits(c)
    BY <1>1, RequestKeeps
  <1>2. c.btn = "getCode" => c.req.op = "withdraw_request"
    BY DEF Inv, AskedForShown
  <1>3. ASSUME c.req.op # "withdraw_request", NEW ans, Replies(c, ans), UNCHANGED sessions
        PROVE  Inv'
    BY <1>2, <1>3, RepliesGoOn
  <1>4. CASE WithdrawResendCode(c) \/ CreateBuyOrder(c) \/ CreateRedeemOrder(c)
    BY <1>3, <1>4
    DEF WithdrawResendCode, CreateBuyOrder, CreateRedeemOrder, Serves, Refuses
  <1>5. CASE WithdrawConfirmReads(c)
    <2>1. PICK seen : calls' = (calls \ {c}) \cup {Read(c, seen)}
      BY <1>5 DEF WithdrawConfirmReads
    <2>2. CarriesOn(Read(c, seen), c)
      BY <1>2, <1>5
      DEF WithdrawConfirmReads, Serves, CarriesOn, CallShaped, Read, IsDone
    <2>3. CallsGoOn
      BY <2>1, <2>2, StageGoesOn
    <2> QED  BY <1>5, <2>3 DEF WithdrawConfirmReads
  <1>6. CASE WithdrawConfirmVerifies(c)
    <2>1. CASE \E ans : Replies(c, ans)
      BY <1>3, <1>6, <2>1 DEF WithdrawConfirmVerifies, InConfirm
    <2>2. CASE calls' = (calls \ {c}) \cup
                 {[c EXCEPT !.seen.step = "wallet", !.seen.reserved = wallet.reserved]}
      <3>1. PICK seen : calls' = (calls \ {c}) \cup {[c EXCEPT !.seen = seen]}
        BY <2>2
      <3>2. c.stage = "read" /\ c.btn # "getCode"
        BY <1>2, <1>6 DEF WithdrawConfirmVerifies, InConfirm, IsRead
      <3>3. CarriesOn([c EXCEPT !.seen = seen], c)
        BY <3>2 DEF Inv, AskedForShown, CarriesOn, CallShaped, IsDone
      <3>4. CallsGoOn
        BY <3>1, <3>3, StageGoesOn
      <3> QED  BY <1>6, <3>4 DEF WithdrawConfirmVerifies
    <2> QED  BY <1>6, <2>1, <2>2 DEF WithdrawConfirmVerifies
  <1>7. CASE WithdrawConfirmCommits(c) \/ WithdrawCancel(c)
    <2>1. CallsGoOn
      BY <1>2, <1>7, RepliesGoOn
      DEF WithdrawConfirmCommits, WithdrawCancel, InConfirm, Serves
    <2>2. UNCHANGED sessions \/ \E t, row :
            /\ sessions' = [sessions EXCEPT ![t] = row]
            /\ t \in DOMAIN sessions => /\ row.addr = sessions[t].addr
                                        /\ row.gross = sessions[t].gross
                                        /\ DOMAIN row = DOMAIN sessions[t]
      <3>1. CASE sessions' = [sessions EXCEPT ![c.req.token].used = TRUE,
                                              ![c.req.token].transfers = @ + 1]
        <4>1. PICK t, row : /\ t = c.req.token
                            /\ row = [sessions[t] EXCEPT !.used = TRUE, !.transfers = @ + 1]
          OBVIOUS
        <4>2. sessions' = [sessions EXCEPT ![t] = row]
          BY <3>1, <4>1
        <4>3. t \in DOMAIN sessions => /\ row.addr = sessions[t].addr
                                       /\ row.gross = sessions[t].gross
                                       /\ DOMAIN row = DOMAIN sessions[t]
          BY <4>1 DEF Inv, SessionsShaped
        <4> QED  BY <4>2, <4>3
      <3>2. CASE sessions' = [sessions EXCEPT ![c.req.token].live = FALSE]
        <4>1. PICK t, row : t = c.req.token /\ row = [sessions[t] EXCEPT !.live = FALSE]
          OBVIOUS
        <4>2. sessions' = [sessions EXCEPT ![t] = row]
          BY <3>2, <4>1
        <4>3. t \in DOMAIN sessions => /\ row.addr = sessions[t].addr
                                       /\ row.gross = sessions[t].gross
                                       /\ DOMAIN row = DOMAIN sessions[t]
          BY <4>1 DEF Inv, SessionsShaped
        <4> QED  BY <4>2, <4>3
      <3> QED  BY <1>7, <3>1, <3>2 DEF WithdrawConfirmCommits, WithdrawCancel
    <2>3. SessionsStand
      BY <2>2, RowChanges
    <2> QED  BY <2>1, <2>3
  <1> QED  BY <1>1, <1>4, <1>5, <1>6, <1>7 DEF PortfolioRoute

(***************************************************************************)
(* The tab                                                                 *)
(***************************************************************************)

\* A poll that is asked, answered or heard.
LEMMA PollKeeps ==
  ASSUME Inv, NEW kind, NEW id, PollMoves(kind, id)
  PROVE  Inv'
  <1>1. CASE Report(kind, id)
    <2>1. PICK p \in polls[kind] : LiveEndpoint(kind, p)
      BY <1>1 DEF Report
    <2>2. UNCHANGED <<calls, sessions>>
      BY <2>1 DEF LiveEndpoint, Reports, callVars, bookVars
    <2> QED  BY <1>1, <2>2, QuietKeeps DEF Report, withdrawVars
  <1>2. CASE Apply(kind, id)
    <2>1. UNCHANGED <<calls, sessions>>
      BY <1>2
      DEF Apply, AddressValidated, LoadEmailOptions, ApplyDashboardLive,
          ApplyTerminalLivePayload, GetBars, LatestBarArrives, ApplyHistory, Breaks,
          callVars, bookVars
    <2>2. UNCHANGED w \/ \E slot : w' = [w EXCEPT !.options = TRUE, !.slot = slot]
      BY <1>2
      DEF Apply, AddressValidated, LoadEmailOptions, ApplyDashboardLive, withdrawVars
    <2> QED  BY <2>1, <2>2, QuietKeeps
  <1> QED  BY <1>1, <1>2 DEF PollMoves

\* Timers, events and the rest of the platform.
LEMMA ElsewhereKeeps ==
  ASSUME Inv, Scripts \/ PollsSummary \/ Elsewhere
  PROVE  Inv'
  <1>1. CASE Scripts \/ PollsSummary
    <2>1. UNCHANGED <<calls, sessions, w>>
      BY <1>1
      DEF Scripts, PollsSummary, ValidateAddressDebounced, PollDashboardLive,
          PollLatestBar,
          ChartStep, ThemeToggle, ThemeRebuild, RemoveWidget, NewWidget, ScrollBack,
          SubscribeBars, HistoryStep, SetTab, PollActiveHistory, PollSummary,
          callVars, portfolioVars, bookVars, withdrawVars
    <2> QED  BY <2>1, QuietKeeps
  <1>2. CASE Elsewhere
    <2>1. UNCHANGED <<calls, sessions, w>>
      BY <1>2
      DEF Elsewhere, PriceTicks, ComplianceChanges, CooldownEnds, CooldownPasses,
          callVars, portfolioVars, bookVars, withdrawVars
    <2> QED  BY <2>1, QuietKeeps
  <1> QED  BY <1>1, <1>2

\* The answers of the order panel and its clicks.
LEMMA OrderKeeps ==
  ASSUME Inv
  PROVE  /\ \A c \in calls : TerminalAnswer(c) /\ UNCHANGED withdrawVars => Inv'
         /\ (BuyClick \/ RedeemClick) /\ UNCHANGED withdrawVars => Inv'
  <1>1. ASSUME NEW c \in calls, TerminalAnswer(c), UNCHANGED withdrawVars
        PROVE  Inv'
    <2>1. UNCHANGED <<sessions, w>>
      BY <1>1
      DEF TerminalAnswer, Bought, Redeemed, portfolioVars, bookVars, withdrawVars
    <2>2. Hears(c) \/ Loses(c)
      BY <1>1
      DEF TerminalAnswer, Bought, Redeemed, Fails, HearsError, NetworkFails, HearsOk
    <2> QED  BY <2>1, <2>2, HeardKeeps, Unchanged
  <1>2. ASSUME BuyClick \/ RedeemClick, UNCHANGED withdrawVars
        PROVE  Inv'
    <2>1. /\ \E side \in {"buy", "redeem"} :
               \E gross : Press(side, Order(side, gross))
          /\ UNCHANGED portfolioVars
      BY <1>2 DEF BuyClick, RedeemClick, OrderClick
    <2>2. CallsGoOn
      BY <2>1, FetchGoesOn DEF Press
    <2> QED  BY <1>2, <2>1, <2>2, Unchanged, StandingKeeps
             DEF portfolioVars, bookVars, withdrawVars
  <1> QED  BY <1>1, <1>2

\* The document is replaced: its calls are disowned, and no dialog is open.
LEMMA NavigateKeeps ==
  ASSUME Inv, Navigate
  PROVE  Inv'
  <1>1. PICK to : Leave(to, calls) /\ Loads(to)
    BY DEF Navigate
  <1>2. w' = DialogStart
    BY <1>1 DEF Loads, DashboardLoads
  <1>3. DialogShaped' /\ TokenStands'
    BY <1>2 DEF DialogShaped, DialogStart, TokenStands
  <1>4. UNCHANGED sessions
    BY DEF Navigate, bookVars
  <1>5. AskedForShown'
    <2> SUFFICES ASSUME NEW d \in calls'
                 PROVE  /\ CallShaped(d) /\ ~d.owned
                        /\ d.btn = "getCode" =>
                             /\ d.req.op = "withdraw_request"
                             /\ IsDone(d) /\ d.ans.ok =>
                                  Stands(d.ans.token, d.req.addr, d.req.gross)
      BY <1>4 DEF AskedForShown, Stands
    <2>1. PICK c \in calls : ~IsDone(c) /\ d = [c EXCEPT !.owned = FALSE]
      BY <1>1 DEF Leave
    <2>2. CarriesOn(d, c) /\ ~d.owned
      BY <2>1, Disowned DEF Inv, AskedForShown, CallShaped
    <2> QED  BY <2>1, <2>2 DEF Inv, AskedForShown, CarriesOn
  <1> QED  BY <1>3, <1>4, <1>5 DEF Inv, SessionsShaped

(***************************************************************************)
(* Theorems                                                                *)
(***************************************************************************)
\* Every step keeps the invariant.
LEMMA StepKeeps ==
  ASSUME Inv, [Next]_vars
  PROVE  Inv'
  <1>1. CASE UNCHANGED vars
    BY <1>1, QuietKeeps DEF vars, callVars, portfolioVars, bookVars, withdrawVars
  <1>2. CASE User
    BY <1>2, DialogUserKeeps, OrderKeeps, NavigateKeeps DEF User
  <1>3. CASE Scripts \/ PollsSummary \/ Elsewhere
    BY <1>3, ElsewhereKeeps
  <1>4. ASSUME NEW id \in Ids, CallMoves(id)
        PROVE  Inv'
    BY <1>4, RouteKeeps, WithdrawAnswerKeeps, OrderKeeps DEF CallMoves, withdrawVars
  <1>5. ASSUME NEW kind \in Kinds, NEW id \in Ids, PollMoves(kind, id)
        PROVE  Inv'
    BY <1>5, PollKeeps
  <1> QED  BY <1>1, <1>2, <1>3, <1>4, <1>5 DEF Next

\* A visit starts with no session, no call and no token.
LEMMA Starts ==
  Init => Inv
  <1> SUFFICES ASSUME Init PROVE Inv
    OBVIOUS
  <1>1. calls = {} /\ sessions = <<>> /\ \E n : w = [DialogStart EXCEPT !.seq = n]
    BY DEF Init, PortfolioInit
  <1>2. DialogShaped /\ w.token = 0
    BY <1>1 DEF DialogShaped, DialogStart
  <1>3. SessionsShaped
    BY <1>1, EmptySeq DEF SessionsShaped
  <1> QED  BY <1>1, <1>2, <1>3 DEF Inv, AskedForShown, TokenStands

\* What withdraw_confirm is asked to do is what the dialog of dashboard_wallet.js
\* shows: its token is that of a session for its address and amount, whatever the
\* amounts and the visits, and however many calls are on their way.
THEOREM DialogShowsToken ==
  Spec => []TokenIsShown
  <1>1. Inv => TokenIsShown
    BY DEF Inv, TokenStands, TokenIsShown, Stands
  <1> QED  BY <1>1, Starts, StepKeeps, PTL DEF Spec

\* A session that ended makes no more transfers: a new one is added after it, a
\* confirmation that comes late fails its commit, a cancellation makes none.
LEMMA RoutesSpareEnded ==
  ASSUME Inv, NEW c \in calls, PortfolioRoute(c), NEW t \in DOMAIN sessions,
         ~sessions[t].live
  PROVE  sessions'[t].transfers = sessions[t].transfers
  <1>1. CASE WithdrawRequestCommits(c)
    <2>1. PICK T : sessions \in Seq(T)
      BY DEF Inv, SessionsShaped
    <2>2. \E row : sessions' = Append(sessions, row)
      BY <1>1 DEF WithdrawRequestCommits
    <2>3. ASSUME NEW row, sessions' = Append(sessions, row)
          PROVE  sessions'[t] = sessions[t]
      <3>1. sessions \in Seq(T \cup {row})
        BY <2>1, SeqMonotonic
      <3>2. t \in 1..Len(sessions)
        BY <2>1, LenProperties
      <3> QED  BY <2>3, <3>1, <3>2
    <2> QED  BY <2>2, <2>3
  <1>2. CASE WithdrawConfirmCommits(c)
    <2>1. CASE c.req.token = t
      BY <1>2, <2>1 DEF WithdrawConfirmCommits
    <2>2. CASE c.req.token # t
      BY <1>2, <2>2 DEF WithdrawConfirmCommits
    <2> QED  BY <2>1, <2>2
  <1>3. CASE WithdrawCancel(c)
    <2>1. "transfers" \in DOMAIN sessions[t]
      BY DEF Inv, SessionsShaped
    <2>2. CASE sessions' = [sessions EXCEPT ![c.req.token].live = FALSE]
      <3>1. CASE c.req.token = t
        <4>1. sessions'[t] = [sessions[t] EXCEPT !.live = FALSE]
          BY <2>2, <3>1
        <4> QED  BY <2>1, <4>1
      <3>2. CASE c.req.token # t
        BY <2>2, <3>2
      <3> QED  BY <3>1, <3>2
    <2> QED  BY <1>3, <2>2 DEF WithdrawCancel
  <1>4. CASE UNCHANGED sessions
    BY <1>4
  <1>5. \/ WithdrawRequestCommits(c) \/ WithdrawConfirmCommits(c) \/ WithdrawCancel(c)
        \/ UNCHANGED sessions
    BY DEF PortfolioRoute, WithdrawRequestCode, WithdrawResendCode, WithdrawConfirmReads,
           WithdrawConfirmVerifies, CreateBuyOrder, CreateRedeemOrder, Refuses
  <1> QED  BY <1>1, <1>2, <1>3, <1>4, <1>5

\* Only routes touch the sessions.
LEMMA PagesSpareSessions ==
  ASSUME [Next]_vars
  PROVE  UNCHANGED sessions \/ \E c \in calls : PortfolioRoute(c)
  <1>1. CASE UNCHANGED vars
    BY <1>1 DEF vars, portfolioVars, bookVars
  <1>2. CASE User
    <2>1. CASE WithdrawUser \/ TypeAddress
      BY <2>1
      DEF WithdrawUser, OpenWithdrawForm, CloseModal, WithdrawConfirmBtn, OpenDialog,
          GetCodeClick, ResendClick, ConfirmClick, EmailChange, HandleConfirmModalClose,
          TypeAddress, portfolioVars, bookVars
    <2>2. CASE BuyClick \/ RedeemClick \/ Navigate
      BY <2>2 DEF BuyClick, RedeemClick, OrderClick, Navigate, portfolioVars, bookVars
    <2> QED  BY <1>2, <2>1, <2>2 DEF User
  <1>3. CASE Scripts \/ PollsSummary \/ Elsewhere
    BY <1>3
    DEF Scripts, PollsSummary, ValidateAddressDebounced, PollDashboardLive,
        PollLatestBar,
        ChartStep, ThemeToggle, ThemeRebuild, RemoveWidget, NewWidget, ScrollBack,
        SubscribeBars, HistoryStep, SetTab, PollActiveHistory, PollSummary, Elsewhere,
        PriceTicks, ComplianceChanges, CooldownEnds, CooldownPasses, portfolioVars, bookVars
  <1>4. ASSUME NEW id \in Ids, CallMoves(id)
        PROVE  UNCHANGED sessions \/ \E c \in calls : PortfolioRoute(c)
    BY <1>4
    DEF CallMoves, WithdrawAnswer, GetCodeAnswered, ResendAnswered, Confirmed,
        Cancelled,
        TerminalAnswer, Bought, Redeemed, portfolioVars, bookVars
  <1>5. ASSUME NEW kind \in Kinds, NEW id \in Ids, PollMoves(kind, id)
        PROVE  UNCHANGED sessions
    BY <1>5
    DEF PollMoves, Report, LiveEndpoint, Reports, Apply, AddressValidated,
        LoadEmailOptions,
        ApplyDashboardLive, ApplyTerminalLivePayload, GetBars, LatestBarArrives,
        ApplyHistory, Breaks, bookVars
  <1> QED  BY <1>1, <1>2, <1>3, <1>4, <1>5 DEF Next

\* A session that withdraw_cancel ended makes no transfer afterwards, however far any
\* number of confirmations had come when it ended.
THEOREM CancelledStaysUnmade ==
  Spec => CancelledNeverWithdrawn
  <1>1. Inv /\ [Next]_vars =>
          [\A t \in DOMAIN sessions :
             ~sessions[t].live => sessions'[t].transfers = sessions[t].transfers
          ]_portfolioVars
    BY RoutesSpareEnded, PagesSpareSessions
  <1> QED  BY <1>1, Starts, StepKeeps, PTL DEF Spec, CancelledNeverWithdrawn

(***************************************************************************)
(* What withdrawals add up to                                              *)
(***************************************************************************)
Outlay(rows) == [t \in DOMAIN rows |-> rows[t].gross * rows[t].transfers]

\* What withdrawals made, as a sum.
MadeIn(rows) == Sum(Outlay(rows), DOMAIN rows)

\* The rows of a sequence, each with an amount that was transferred once or not at all.
RowsCounted(rows) ==
  /\ IsFiniteSet(DOMAIN rows)
  /\ \A t \in DOMAIN rows : rows[t].gross \in Nat /\ rows[t].transfers \in {0, 1}

\* Amounts of rows are numbers.
LEMMA OutlayCounted ==
  ASSUME NEW rows, RowsCounted(rows)
  PROVE  /\ IsFiniteSet(DOMAIN rows) /\ \A t \in DOMAIN rows : Outlay(rows)[t] \in Nat
         /\ \A t \in DOMAIN rows : rows[t].transfers = 0 => Outlay(rows)[t] = 0
         /\ \A t \in DOMAIN rows : rows[t].transfers = 1 => Outlay(rows)[t] = rows[t].gross
  <1>1. ASSUME NEW t \in DOMAIN rows
        PROVE  /\ Outlay(rows)[t] \in Nat
               /\ rows[t].transfers = 0 => Outlay(rows)[t] = 0
               /\ rows[t].transfers = 1 => Outlay(rows)[t] = rows[t].gross
    <2> DEFINE n == rows[t].gross
               k == rows[t].transfers
    <2>1. n \in Nat /\ k \in {0, 1} /\ Outlay(rows)[t] = n * k
      BY DEF RowsCounted, Outlay
    <2> HIDE DEF n, k
    <2>2. n * k \in Nat /\ (k = 0 => n * k = 0) /\ (k = 1 => n * k = n)
      <3>1. n * 0 = 0 /\ n * 1 = n
        BY <2>1
      <3> QED  BY <2>1, <3>1
    <2> QED  BY <2>1, <2>2 DEF n, k
  <1> QED  BY <1>1 DEF RowsCounted

\* Withdrawn is that sum.
LEMMA WithdrawnIsSum ==
  ASSUME RowsCounted(sessions)
  PROVE  Withdrawn = MadeIn(sessions)
  <1> DEFINE f == Outlay(sessions)
             S == DOMAIN sessions
             G(g) == g = [s \in SUBSET S |->
                             IF s = {} THEN 0
                             ELSE sessions[CHOOSE x \in s : TRUE].gross
                                    * sessions[CHOOSE x \in s : TRUE].transfers
                                    + g[s \ {CHOOSE x \in s : TRUE}]]
  <1>1. Withdrawn = (CHOOSE g : G(g))[S]
    BY DEF Withdrawn, MapThenSumSet, MapThenFoldSet
  <1>2. \A g : G(g) <=> Folded(f, S, g)
    BY DEF Folded, Outlay
  <1>3. IsFiniteSet(S) /\ \A x \in S : f[x] \in Nat
    BY OutlayCounted
  <1>4. PICK g : Folded(f, S, g)
    BY <1>3, FoldedExists
  <1> HIDE DEF G, f, S
  <1>5. Folded(f, S, CHOOSE h : G(h))
    BY <1>2, <1>4
  <1>6. Withdrawn = Sum(f, S)
    BY <1>1, <1>3, <1>5, FoldedIsSum
  <1> QED  BY <1>6 DEF f, S, MadeIn

\* A session that is begun adds nothing to it.
LEMMA BegunAddsNothing ==
  ASSUME NEW rows, NEW T, rows \in Seq(T), RowsCounted(rows),
         NEW row, row.gross \in Nat, row.transfers = 0, NEW next, next = Append(rows, row)
  PROVE  RowsCounted(next) /\ MadeIn(next) = MadeIn(rows)
  <1>1. rows \in Seq(T \cup {row})
    BY SeqMonotonic
  <1> DEFINE t == Len(rows) + 1
  <1>2. /\ DOMAIN next = DOMAIN rows \cup {t} /\ t \notin DOMAIN rows /\ next[t] = row
        /\ \A i \in DOMAIN rows : next[i] = rows[i]
    BY <1>1, LenProperties
  <1> HIDE DEF t
  <1>3. IsFiniteSet(DOMAIN next)
    BY <1>2, FS_AddElement DEF RowsCounted
  <1>4. RowsCounted(next)
    BY <1>2, <1>3 DEF RowsCounted
  <1>5. Outlay(next)[t] = 0 /\ \A i \in DOMAIN rows : Outlay(next)[i] = Outlay(rows)[i]
    <2>1. Outlay(next)[t] = 0
      BY <1>2, <1>4, OutlayCounted
    <2> QED  BY <1>2, <2>1 DEF Outlay
  <1>6. \A i \in DOMAIN rows : Outlay(next)[i] \in Nat
    BY <1>2, <1>4, OutlayCounted
  <1>7. Sum(Outlay(next), DOMAIN rows \cup {t}) = Sum(Outlay(next), DOMAIN rows) + 0
    BY <1>2, <1>5, <1>6, SumOfOneMore DEF RowsCounted
  <1>8. Sum(Outlay(next), DOMAIN rows) = Sum(Outlay(rows), DOMAIN rows)
    BY <1>5, SumOfSame
  <1>9. Sum(Outlay(rows), DOMAIN rows) \in Nat
    BY OutlayCounted, SumTyped
  <1> QED  BY <1>2, <1>4, <1>7, <1>8, <1>9 DEF MadeIn

\* A transfer that is made adds its amount.
LEMMA MadeAddsAmount ==
  ASSUME NEW rows, RowsCounted(rows), NEW t \in DOMAIN rows, rows[t].transfers = 0,
         NEW next, RowsCounted(next), DOMAIN next = DOMAIN rows,
         next[t].gross = rows[t].gross, next[t].transfers = 1,
         \A i \in DOMAIN rows \ {t} : next[i] = rows[i]
  PROVE  MadeIn(next) = MadeIn(rows) + rows[t].gross /\ MadeIn(rows) \in Nat
  <1> DEFINE R == DOMAIN rows \ {t}
  <1>1. Outlay(rows)[t] = 0 /\ Outlay(next)[t] = rows[t].gross
    BY OutlayCounted
  <1>2. /\ Sum(Outlay(rows), DOMAIN rows) = Sum(Outlay(rows), R) + 0
        /\ Sum(Outlay(next), DOMAIN rows) = Sum(Outlay(next), R) + rows[t].gross
    BY <1>1, OutlayCounted, SumOfOneLess
  <1>3. Sum(Outlay(next), R) = Sum(Outlay(rows), R)
    BY SumOfSame DEF Outlay
  <1>4. Sum(Outlay(rows), R) \in Nat /\ Sum(Outlay(rows), DOMAIN rows) \in Nat
    <2>1. IsFiniteSet(R) /\ \A i \in R : Outlay(rows)[i] \in Nat
      BY OutlayCounted, FS_Subset
    <2> QED  BY <2>1, OutlayCounted, SumTyped
  <1> QED  BY <1>2, <1>3, <1>4 DEF MadeIn

\* What does not touch amounts and transfers leaves it as it is.
LEMMA OthersAddNothing ==
  ASSUME NEW rows, RowsCounted(rows), NEW next, DOMAIN next = DOMAIN rows,
         \A i \in DOMAIN rows : /\ next[i].gross = rows[i].gross
                                /\ next[i].transfers = rows[i].transfers
  PROVE  RowsCounted(next) /\ MadeIn(next) = MadeIn(rows)
  <1>1. Sum(Outlay(next), DOMAIN rows) = Sum(Outlay(rows), DOMAIN rows)
    BY SumOfSame DEF Outlay
  <1> QED  BY <1>1 DEF RowsCounted, MadeIn

(***************************************************************************)
(* The reserve                                                             *)
(***************************************************************************)

\* A confirmation may still be carried out, or asked for, in this document.
ConfirmOpen ==
  "confirm" \in locked =>
    \E c \in calls : c.btn = "confirm" /\ ~(IsDone(c) /\ c.ans.ok)

\* The tokens the page has, is being told of, or has asked to confirm.
Held(t) ==
  \/ t = w.token /\ w.token # 0
  \/ \E c \in calls : \/ c.btn = "confirm" /\ t = c.req.token
                      \/ c.btn = "getCode" /\ IsDone(c) /\ c.ans.ok /\ t = c.ans.token

MoneyAccounted ==
  /\ wallet = [balance |-> Balance, reserved |-> wallet.reserved]
  /\ orders = [buys |-> orders.buys, redeems |-> orders.redeems, spent |-> orders.spent]
  /\ wallet.reserved \in 0..Balance /\ orders.spent \in Nat
  /\ RowsCounted(sessions)
  /\ wallet.reserved = orders.spent + MadeIn(sessions)

\* Every call is awaited by the document that made it.
CallOfTab(c) ==
  /\ c.owned /\ c.req.gross \in Nat
  /\ c.btn \in {"buy", "redeem"} => page = "terminal"
  /\ c.btn \notin {"buy", "redeem"} => page = "dashboard"
  /\ c.req.op = "withdraw_confirm" <=> c.btn = "confirm"
  /\ c.req.op = "withdraw_request" <=> c.btn = "getCode"
  /\ c.req.op = "buy" => c.btn = "buy"

\* One confirmation is on its way at a time, and the reserve is as it has read it.
Confirmation(c) ==
  c.btn = "confirm" =>
    /\ "confirm" \in locked
    /\ \A d \in calls : d.btn = "confirm" => d = c
    /\ IsRead(c) =>
         /\ "seen" \in DOMAIN c /\ {"step", "reserved"} \subseteq DOMAIN c.seen
         /\ c.seen.step = "wallet" => c.seen.reserved = wallet.reserved

CallsAccounted == \A c \in calls : CallOfTab(c) /\ Confirmation(c)

\* A request that was found to be covered, and has yet to begin its session.
Begins(c) == c.btn = "getCode" /\ IsRead(c)

\* What is held for a token fits the balance until the document has had its transfer,
\* and so does what a session is about to begin with.
HeldFits ==
  /\ \A t : Held(t) =>
       /\ t \in DOMAIN sessions
       /\ ConfirmOpen => sessions[t].transfers = 0 /\ sessions[t].gross <= Available
  /\ ConfirmOpen => \A c \in calls : Begins(c) => c.req.gross <= Available

DialogOfTab == w.gross \in Nat /\ (w.token # 0 => page = "dashboard")

Accounts == MoneyAccounted /\ CallsAccounted /\ HeldFits /\ DialogOfTab

ReserveInv == orphaned \in BOOLEAN /\ (~orphaned => Accounts)

\* Where the books are not touched.
BooksStay == UNCHANGED <<wallet, sessions, orders>>

\* A step that may only drop or keep the token of the dialog.
LEMMA DialogGoesOn ==
  ASSUME Accounts, BooksStay, UNCHANGED <<page, locked, calls>>,
         w'.token \in {0, w.token}, w'.gross \in Nat
  PROVE  Accounts'
  <1>1. MoneyAccounted'
    BY DEF Accounts, BooksStay, MoneyAccounted
  <1>2. CallsAccounted'
    BY DEF Accounts, BooksStay, CallsAccounted, CallOfTab, Confirmation
  <1>3. HeldFits'
    <2>1. (\A t : Held(t)' => Held(t)) /\ (ConfirmOpen' <=> ConfirmOpen)
      BY DEF Held, ConfirmOpen
    <2> QED  BY <2>1 DEF Accounts, BooksStay, HeldFits, Available
  <1>4. DialogOfTab'
    BY DEF Accounts, DialogOfTab
  <1> QED  BY <1>1, <1>2, <1>3, <1>4 DEF Accounts

\* A request of the page.
LEMMA FetchAccounted ==
  ASSUME Accounts, BooksStay, UNCHANGED page, NEW btn, NEW req, Fetch(btn, req),
         btn # "confirm" => locked' \ {btn} = locked \ {btn},
         btn = "confirm" => /\ "confirm" \notin locked /\ "confirm" \in locked'
                            /\ req.token = w.token /\ w.token # 0,
         w'.token = w.token, w'.gross = w.gross,
         CallOfTab(Sent(1, btn, req))
  PROVE  Accounts'
  <1>1. PICK id \in Ids : calls' = calls \cup {Sent(id, btn, req)}
    BY DEF Fetch
  <1> DEFINE new == Sent(id, btn, req)
  <1>2. /\ new.btn = btn /\ new.req = req /\ new.owned /\ ~IsRead(new) /\ ~IsDone(new)
    BY DEF Sent, IsRead, IsDone
  <1>3. CallOfTab(new)
    BY DEF CallOfTab, Sent
  <1> HIDE DEF new
  <1>4. MoneyAccounted' /\ DialogOfTab'
    BY DEF Accounts, BooksStay, MoneyAccounted, DialogOfTab
  <1>5. btn = "confirm" => \A c \in calls : c.btn # "confirm"
    BY DEF Accounts, CallsAccounted, Confirmation
  <1>6. CallsAccounted'
    BY <1>1, <1>2, <1>3, <1>5 DEF new, Accounts, BooksStay, CallsAccounted, CallOfTab, Confirmation
  <1>7. HeldFits'
    <2>1. \A t : Held(t)' => Held(t)
      BY <1>1, <1>2 DEF new, Held
    <2>2. ConfirmOpen' => ConfirmOpen
      BY <1>1, <1>2 DEF new, ConfirmOpen
    <2>3. \A c \in calls' : Begins(c) => c \in calls
      BY <1>1, <1>2 DEF new, Begins
    <2> QED  BY <2>1, <2>2, <2>3 DEF Accounts, BooksStay, HeldFits, Available
  <1> QED  BY <1>4, <1>6, <1>7 DEF Accounts

\* An answer that is taken, or a call that is lost before it arrived.
LEMMA GoneAccounted ==
  ASSUME Accounts, BooksStay, UNCHANGED page, NEW c \in calls, calls' = calls \ {c},
         \/ locked' = locked
         \/ locked' = locked \ {c.btn} /\ (IsDone(c) /\ c.btn = "confirm" => ~c.ans.ok),
         \/ w'.token \in {0, w.token}
         \/ c.btn = "getCode" /\ IsDone(c) /\ c.ans.ok /\ w'.token = c.ans.token,
         w'.gross = w.gross
  PROVE  Accounts'
  <1>1. MoneyAccounted' /\ DialogOfTab'
    BY DEF Accounts, BooksStay, MoneyAccounted, DialogOfTab, CallsAccounted, CallOfTab
  <1>2. CallsAccounted'
    BY DEF Accounts, BooksStay, CallsAccounted, CallOfTab, Confirmation
  <1>3. \A t : Held(t)' => Held(t)
    BY DEF Held
  <1>4. ConfirmOpen' => ConfirmOpen
    BY DEF ConfirmOpen
  <1>5. HeldFits'
    BY <1>3, <1>4 DEF Accounts, BooksStay, HeldFits, Available
  <1> QED  BY <1>1, <1>2, <1>5 DEF Accounts

\* A call that the server carries on with, without a token and without a transfer.
LEMMA ServedAccounted ==
  ASSUME Accounts, UNCHANGED <<page, locked, w, wallet>>,
         NEW c \in calls, NEW d, calls' = (calls \ {c}) \cup {d},
         d.btn = c.btn, d.req = c.req, d.owned = c.owned,
         IsDone(d) => c.btn \notin {"getCode", "confirm"} \/ ~d.ans.ok,
         IsDone(c) => FALSE,
         c.btn = "confirm" /\ IsRead(d) =>
           /\ "seen" \in DOMAIN d /\ {"step", "reserved"} \subseteq DOMAIN d.seen
           /\ d.seen.step = "wallet" => d.seen.reserved = wallet.reserved,
         Begins(d) => c.req.gross <= Available,
         MoneyAccounted',
         \A t \in DOMAIN sessions :
           /\ t \in DOMAIN sessions'
           /\ sessions'[t].gross = sessions[t].gross
           /\ sessions'[t].transfers = sessions[t].transfers
  PROVE  Accounts'
  <1>1. DialogOfTab'
    BY DEF Accounts, DialogOfTab
  <1>2. CallsAccounted'
    <2>1. CallOfTab(c) /\ Confirmation(c)
      BY DEF Accounts, CallsAccounted
    <2>2. ASSUME NEW b \in calls' PROVE CallOfTab(b)'
      BY <2>1, <2>2 DEF Accounts, CallsAccounted, CallOfTab
    <2>3. ASSUME NEW b \in calls' PROVE Confirmation(b)'
      BY <2>1, <2>3 DEF Accounts, CallsAccounted, Confirmation
    <2> QED  BY <2>2, <2>3 DEF CallsAccounted
  <1>3. \A t : Held(t)' => Held(t)
    BY DEF Held
  <1>4. ConfirmOpen' => ConfirmOpen
    BY DEF ConfirmOpen
  <1>5. HeldFits'
    BY <1>3, <1>4 DEF Accounts, HeldFits, Available
  <1> QED  BY <1>1, <1>2, <1>5 DEF Accounts

\* The server's answer to a call of the tab.
LEMMA RepliesOwned ==
  ASSUME Accounts, NEW c \in calls, NEW ans, Replies(c, ans)
  PROVE  /\ calls' = (calls \ {c}) \cup {Done(c, ans)}
         /\ Done(c, ans).btn = c.btn /\ Done(c, ans).req = c.req
         /\ Done(c, ans).owned = c.owned /\ IsDone(Done(c, ans)) /\ ~IsRead(Done(c, ans))
         /\ Done(c, ans).ans = ans
  BY DEF Accounts, CallsAccounted, CallOfTab, Replies, Done, IsDone, IsRead

\* An answer that neither brings a token nor confirms, where the books are not touched.
LEMMA PlainReply ==
  ASSUME Accounts, UNCHANGED <<page, locked, w, wallet, sessions>>,
         NEW c \in calls, ~IsDone(c), NEW ans, Replies(c, ans),
         ~ans.ok \/ c.btn \notin {"getCode", "confirm"},
         MoneyAccounted'
  PROVE  Accounts'
  <1>1. PICK d : d = Done(c, ans)
    OBVIOUS
  <1>2. /\ calls' = (calls \ {c}) \cup {d} /\ d.btn = c.btn /\ d.req = c.req
        /\ d.owned = c.owned /\ IsDone(d) /\ ~IsRead(d) /\ d.ans = ans
    BY <1>1, RepliesOwned
  <1> QED  BY <1>2, ServedAccounted DEF Begins

\* The books as they are.
LEMMA SameMoney ==
  ASSUME Accounts, UNCHANGED <<wallet, sessions>>,
         UNCHANGED orders \/ orders' = [orders EXCEPT !.redeems = @ + 1]
  PROVE  MoneyAccounted'
  <1>1. /\ orders' = [buys |-> orders'.buys, redeems |-> orders'.redeems, spent |-> orders'.spent]
        /\ orders'.spent = orders.spent
    <2> DEFINE n == orders.redeems + 1
    <2>1. UNCHANGED orders \/ orders' = [orders EXCEPT !.redeems = n]
      OBVIOUS
    <2> HIDE DEF n
    <2> QED  BY <2>1 DEF Accounts, MoneyAccounted
  <1> QED  BY <1>1 DEF Accounts, MoneyAccounted

\* request-code: the amount of the new session is available, when it is asked for and
\* when it is begun.
LEMMA BegunAccounted ==
  ASSUME Accounts, SessionsShaped, UNCHANGED <<page, locked, w>>, NEW c \in calls,
         WithdrawRequestCode(c) \/ WithdrawRequestCommits(c)
  PROVE  Accounts'
  <1>1. UNCHANGED <<wallet, orders>> /\ ~IsDone(c) /\ c.btn = "getCode" /\ c.req.gross \in Nat
    BY DEF WithdrawRequestCode, WithdrawRequestCommits, Refuses, Serves, IsSent, IsRead,
           IsDone, Accounts, CallsAccounted, CallOfTab
  <1>2. CASE UNCHANGED sessions /\ Replies(c, Error)
    BY <1>1, <1>2, SameMoney, PlainReply DEF Error
  <1>3. CASE WithdrawRequestCode(c) /\ ~Replies(c, Error)
    <2>1. PICK seen : calls' = (calls \ {c}) \cup {Read(c, seen)}
      BY <1>3 DEF WithdrawRequestCode, Refuses
    <2>2. Available >= c.req.gross /\ UNCHANGED sessions
      BY <1>3 DEF WithdrawRequestCode, Refuses
    <2>3. PICK d : d = Read(c, seen)
      OBVIOUS
    <2>4. d.btn = c.btn /\ d.req = c.req /\ d.owned = c.owned /\ ~IsDone(d)
      BY <2>3 DEF Read, IsDone
    <2>5. MoneyAccounted' /\ c.req.gross <= Available
      <3>1. Available \in Int
        BY PortfolioConstants DEF Accounts, MoneyAccounted, Available
      <3> QED  BY <1>1, <2>2, <3>1, SameMoney
    <2> QED  BY <1>1, <2>1, <2>2, <2>3, <2>4, <2>5, ServedAccounted
  <1>4. CASE WithdrawRequestCommits(c)
    <2>1. PICK row : /\ row = [addr |-> c.req.addr, gross |-> c.req.gross,
                               slot |-> c.req.slot, live |-> TRUE, used |-> FALSE,
                               transfers |-> 0]
                     /\ sessions' = Append(sessions, row)
                     /\ Begins(c)
                     /\ Replies(c, Answer(Len(sessions) + 1, c.req.gross, c.req.slot))
      BY <1>1, <1>4 DEF WithdrawRequestCommits, Begins
    <2>2. row.gross = c.req.gross /\ row.transfers = 0
      BY <2>1
    <2>3. PICK T : sessions \in Seq(T)
      BY DEF SessionsShaped
    <2>4. RowsCounted(sessions') /\ MadeIn(sessions') = MadeIn(sessions)
      BY <1>1, <2>1, <2>2, <2>3, BegunAddsNothing DEF Accounts, MoneyAccounted
    <2>5. MoneyAccounted'
      BY <1>1, <2>4 DEF Accounts, MoneyAccounted
    <2>6. PICK token, ans : /\ token = Len(sessions) + 1
                            /\ ans = Answer(token, c.req.gross, c.req.slot)
      OBVIOUS
    <2>7. ans.ok /\ ans.token = token
      BY <2>6 DEF Answer
    <2>8. /\ token \in DOMAIN sessions' /\ sessions'[token] = row
          /\ \A t \in DOMAIN sessions : t \in DOMAIN sessions' /\ sessions'[t] = sessions[t]
      <3>1. sessions \in Seq(T \cup {row})
        BY <2>3, SeqMonotonic
      <3> QED  BY <2>1, <2>6, <3>1, LenProperties
    <2>9. PICK d : d = Done(c, ans)
      OBVIOUS
    <2>10. /\ calls' = (calls \ {c}) \cup {d} /\ d.btn = c.btn /\ d.req = c.req
           /\ d.owned = c.owned /\ IsDone(d) /\ ~IsRead(d) /\ d.ans = ans
      BY <2>1, <2>6, <2>9, RepliesOwned
    <2>11. CallsAccounted'
      BY <1>1, <2>10 DEF Accounts, CallsAccounted, CallOfTab, Confirmation
    <2>12. (\A t : Held(t)' => Held(t) \/ t = token) /\ (ConfirmOpen' => ConfirmOpen)
      BY <1>1, <2>7, <2>10 DEF Held, ConfirmOpen
    <2>13. HeldFits'
      BY <1>1, <2>1, <2>2, <2>8, <2>10, <2>12 DEF Accounts, HeldFits, Begins, Available
    <2>14. DialogOfTab'
      BY DEF Accounts, DialogOfTab
    <2> QED  BY <2>5, <2>11, <2>13, <2>14 DEF Accounts
  <1> QED  BY <1>2, <1>4, <1>3 DEF WithdrawRequestCode, Refuses

\* withdraw_confirm: the reserve is as it was read, and the amount fits the balance.
LEMMA MadeAccounted ==
  ASSUME Accounts, SessionsShaped, UNCHANGED <<page, locked, w>>, NEW c \in calls,
         WithdrawConfirmCommits(c)
  PROVE  Accounts'
  <1>1. /\ UNCHANGED orders /\ ~IsDone(c) /\ c.btn = "confirm" /\ IsRead(c)
        /\ c.seen.step = "wallet" /\ Confirmation(c)
    BY DEF WithdrawConfirmCommits, InConfirm, IsRead, IsDone, Accounts, CallsAccounted,
           CallOfTab
  <1> DEFINE t == c.req.token
             s == sessions[t]
  <1>2. CASE UNCHANGED <<wallet, sessions>> /\ Replies(c, Error)
    BY <1>1, <1>2, SameMoney, PlainReply DEF Error
  <1>3. CASE ~(UNCHANGED <<wallet, sessions>> /\ Replies(c, Error))
    <2>1. /\ wallet' = [wallet EXCEPT !.reserved = c.seen.reserved + s.gross]
          /\ sessions' = [sessions EXCEPT ![t].used = TRUE, ![t].transfers = @ + 1]
          /\ Replies(c, Plain)
      BY <1>3 DEF WithdrawConfirmCommits
    <2>2. ConfirmOpen /\ Held(t)
      BY <1>1 DEF ConfirmOpen, Held
    <2>3. /\ t \in DOMAIN sessions /\ s.transfers = 0 /\ s.gross <= Available
          /\ s.gross \in Nat /\ c.seen.reserved = wallet.reserved
          /\ {"gross", "transfers"} \subseteq DOMAIN s
      BY <1>1, <2>2
      DEF Accounts, HeldFits, MoneyAccounted, RowsCounted, Confirmation, SessionsShaped
    <2>4. PICK row : /\ sessions' = [sessions EXCEPT ![t] = row]
                     /\ row.gross = s.gross /\ row.transfers = 1
      <3>1. PICK row : row = [s EXCEPT !.used = TRUE, !.transfers = @ + 1]
        OBVIOUS
      <3>2. sessions' = [sessions EXCEPT ![t] = row]
        BY <2>1, <3>1
      <3>3. row.gross = s.gross /\ row.transfers = 1
        BY <2>3, <3>1
      <3> QED  BY <3>2, <3>3
    <2>5. /\ DOMAIN sessions' = DOMAIN sessions /\ sessions'[t] = row
          /\ \A i \in DOMAIN sessions \ {t} : sessions'[i] = sessions[i]
      BY <2>3, <2>4 DEF SessionsShaped
    <2>6. RowsCounted(sessions) /\ RowsCounted(sessions')
      BY <2>3, <2>4, <2>5 DEF Accounts, MoneyAccounted, RowsCounted
    <2>7. MadeIn(sessions') = MadeIn(sessions) + s.gross /\ MadeIn(sessions) \in Nat
      <3>1. PICK next : next = sessions'
        OBVIOUS
      <3>2. /\ DOMAIN next = DOMAIN sessions /\ next[t].gross = sessions[t].gross
            /\ next[t].transfers = 1 /\ RowsCounted(next)
            /\ \A i \in DOMAIN sessions \ {t} : next[i] = sessions[i]
        BY <2>4, <2>5, <2>6, <3>1
      <3>3. MadeIn(next) = MadeIn(sessions) + sessions[t].gross /\ MadeIn(sessions) \in Nat
        BY <2>3, <2>6, <3>2, MadeAddsAmount
      <3> QED  BY <3>1, <3>3
    <2>8. /\ wallet' = [balance |-> Balance, reserved |-> wallet'.reserved]
          /\ wallet'.reserved = wallet.reserved + s.gross
          /\ wallet'.reserved \in 0..Balance
      <3> DEFINE r == wallet.reserved + s.gross
      <3>1. wallet' = [wallet EXCEPT !.reserved = r]
        BY <2>1, <2>3
      <3>2. /\ wallet = [balance |-> Balance, reserved |-> wallet.reserved]
            /\ wallet.reserved \in 0..Balance /\ wallet.balance = Balance
        BY DEF Accounts, MoneyAccounted
      <3>3. r \in 0..Balance
        BY <2>3, <3>2, PortfolioConstants DEF Available
      <3> HIDE DEF r
      <3>4. wallet' = [balance |-> Balance, reserved |-> r]
        BY <3>1, <3>2
      <3> QED  BY <3>3, <3>4 DEF r
    <2>9. MoneyAccounted'
      BY <1>1, <2>3, <2>6, <2>7, <2>8 DEF Accounts, MoneyAccounted
    <2>10. PICK d : d = Done(c, Plain)
      OBVIOUS
    <2>11. /\ calls' = (calls \ {c}) \cup {d} /\ d.btn = c.btn /\ d.req = c.req
           /\ d.owned = c.owned /\ IsDone(d) /\ ~IsRead(d) /\ d.ans.ok
      BY <2>1, <2>10, RepliesOwned DEF Plain, Answer
    <2>12. ~ConfirmOpen' /\ \A i : Held(i)' => Held(i)
      BY <1>1, <2>11 DEF ConfirmOpen, Held, Confirmation
    <2>13. CallsAccounted'
      <3>1. CallOfTab(c)
        BY DEF Accounts, CallsAccounted
      <3>2. ASSUME NEW b \in calls' PROVE CallOfTab(b)'
        BY <2>11, <3>1, <3>2 DEF Accounts, CallsAccounted, CallOfTab
      <3>3. ASSUME NEW b \in calls' PROVE Confirmation(b)'
        BY <1>1, <2>11, <3>3 DEF Confirmation
      <3> QED  BY <3>2, <3>3 DEF CallsAccounted
    <2>14. HeldFits'
      BY <2>5, <2>12 DEF Accounts, HeldFits
    <2>15. DialogOfTab'
      BY DEF Accounts, DialogOfTab
    <2> QED  BY <2>9, <2>13, <2>14, <2>15 DEF Accounts
  <1> QED  BY <1>2, <1>3

\* create_buy_order: it locks the wallet, and no dialog is open where it is asked for.
LEMMA BuyAccounted ==
  ASSUME Accounts, UNCHANGED <<page, locked, w>>, NEW c \in calls, CreateBuyOrder(c)
  PROVE  Accounts'
  <1>1. /\ ~IsDone(c) /\ c.btn = "buy" /\ page = "terminal" /\ UNCHANGED sessions
        /\ c.req.gross \in Nat
    BY DEF CreateBuyOrder, Refuses, Serves, IsSent, IsDone, Accounts, CallsAccounted, CallOfTab
  <1>2. CASE UNCHANGED <<wallet, orders>> /\ Replies(c, Error)
    BY <1>1, <1>2, SameMoney, PlainReply DEF Error
  <1>3. CASE ~(UNCHANGED <<wallet, orders>> /\ Replies(c, Error))
    <2>1. /\ wallet' = [wallet EXCEPT !.reserved = @ + c.req.gross]
          /\ orders' = [orders EXCEPT !.buys = @ + 1, !.spent = @ + c.req.gross]
          /\ Replies(c, Plain) /\ c.req.gross <= Available
      <3>1. ~(blocked \/ c.req.gross > Available)
        BY <1>3 DEF CreateBuyOrder, Refuses
      <3>2. Available \in Nat
        BY PortfolioConstants DEF Accounts, MoneyAccounted, Available
      <3> QED  BY <1>1, <3>1, <3>2 DEF CreateBuyOrder
    <2>2. /\ wallet = [balance |-> Balance, reserved |-> wallet.reserved]
          /\ wallet.reserved \in 0..Balance /\ wallet.balance = Balance
          /\ orders = [buys |-> orders.buys, redeems |-> orders.redeems, spent |-> orders.spent]
          /\ orders.spent \in Nat
      BY DEF Accounts, MoneyAccounted
    <2> DEFINE r == wallet.reserved + c.req.gross
               p == orders.spent + c.req.gross
               n == orders.buys + 1
    <2>3. r \in 0..Balance /\ p \in Nat
      BY <1>1, <2>1, <2>2, PortfolioConstants DEF Available
    <2>4. /\ wallet' = [wallet EXCEPT !.reserved = r]
          /\ orders' = [orders EXCEPT !.buys = n, !.spent = p]
      BY <2>1
    <2> HIDE DEF r, p, n
    <2>5. /\ wallet' = [balance |-> Balance, reserved |-> r]
          /\ orders' = [buys |-> n, redeems |-> orders.redeems, spent |-> p]
      BY <2>2, <2>4
    <2>6. /\ wallet' = [balance |-> Balance, reserved |-> wallet'.reserved]
          /\ orders' = [buys |-> orders'.buys, redeems |-> orders'.redeems,
                        spent |-> orders'.spent]
          /\ wallet'.reserved = r /\ orders'.spent = p
      BY <2>5
    <2>7. MadeIn(sessions) \in Nat
      BY OutlayCounted, SumTyped DEF MadeIn, Accounts, MoneyAccounted
    <2>8. r = p + MadeIn(sessions)
      BY <1>1, <2>2, <2>7 DEF r, p, Accounts, MoneyAccounted
    <2>9. MoneyAccounted'
      BY <1>1, <2>3, <2>6, <2>8 DEF Accounts, MoneyAccounted
    <2>10. PICK d : d = Done(c, Plain)
      OBVIOUS
    <2>11. /\ calls' = (calls \ {c}) \cup {d} /\ d.btn = c.btn /\ d.req = c.req
           /\ d.owned = c.owned /\ IsDone(d) /\ ~IsRead(d)
      BY <2>1, <2>10, RepliesOwned
    <2>12. \A b \in calls : b.btn \in {"buy", "redeem"}
      BY <1>1 DEF Accounts, CallsAccounted, CallOfTab
    <2>13. CallsAccounted' /\ \A b \in calls' : b.btn \in {"buy", "redeem"}
      BY <1>1, <2>11, <2>12 DEF Accounts, CallsAccounted, CallOfTab, Confirmation
    <2>14. \A t : ~Held(t)'
      BY <1>1, <2>13 DEF Held, Accounts, DialogOfTab
    <2>15. HeldFits' /\ DialogOfTab'
      BY <2>13, <2>14 DEF HeldFits, Begins, Accounts, DialogOfTab
    <2> QED  BY <2>9, <2>13, <2>15 DEF Accounts
  <1> QED  BY <1>2, <1>3

\* The other routes.
LEMMA RouteAccounted ==
  ASSUME Accounts, Inv, UNCHANGED w, NEW c \in calls, PortfolioRoute(c)
  PROVE  Accounts'
  <1>1. UNCHANGED <<page, locked>> /\ ~IsDone(c)
    BY DEF PortfolioRoute, WithdrawRequestCode, WithdrawRequestCommits, WithdrawResendCode,
           WithdrawConfirmReads,
           WithdrawConfirmVerifies, WithdrawConfirmCommits, WithdrawCancel, CreateBuyOrder,
           CreateRedeemOrder, Serves, InConfirm, IsSent, IsRead, IsDone
  <1>2. SessionsShaped /\ CallShaped(c) /\ CallOfTab(c)
    BY DEF Inv, AskedForShown, Accounts, CallsAccounted
  <1>3. CASE \/ WithdrawRequestCode(c) \/ WithdrawRequestCommits(c)
             \/ WithdrawConfirmCommits(c) \/ CreateBuyOrder(c)
    BY <1>1, <1>2, <1>3, BegunAccounted, MadeAccounted, BuyAccounted
  <1>4. CASE WithdrawResendCode(c) \/ CreateRedeemOrder(c)
    <2>1. c.btn \notin {"getCode", "confirm"}
      BY <1>2, <1>4 DEF CallOfTab, WithdrawResendCode, CreateRedeemOrder, Serves
    <2>2. UNCHANGED <<wallet, sessions>> /\ (\E ans : Replies(c, ans))
          /\ (UNCHANGED orders \/ orders' = [orders EXCEPT !.redeems = @ + 1])
      BY <1>4 DEF WithdrawResendCode, CreateRedeemOrder, Refuses
    <2> QED  BY <1>1, <2>1, <2>2, SameMoney, PlainReply
  <1>5. CASE WithdrawConfirmReads(c)
    <2>1. PICK seen : /\ calls' = (calls \ {c}) \cup {Read(c, seen)}
                      /\ {"step", "reserved"} \subseteq DOMAIN seen /\ seen.step = "code"
      BY <1>5 DEF WithdrawConfirmReads, Seen
    <2>2. PICK d : d = Read(c, seen)
      OBVIOUS
    <2>3. d.btn = c.btn /\ d.req = c.req /\ d.owned = c.owned /\ ~IsDone(d) /\ d.seen = seen
          /\ "seen" \in DOMAIN d
      BY <2>2 DEF Read, IsDone
    <2>4. BooksStay /\ MoneyAccounted' /\ ~Begins(d)
      BY <1>2, <1>5, <2>3, SameMoney
      DEF WithdrawConfirmReads, Serves, BooksStay, Begins, CallOfTab
    <2> QED  BY <1>1, <2>1, <2>2, <2>3, <2>4, ServedAccounted DEF BooksStay
  <1>6. CASE WithdrawConfirmVerifies(c)
    <2>1. BooksStay /\ MoneyAccounted'
      BY <1>6, SameMoney DEF WithdrawConfirmVerifies, InConfirm, BooksStay
    <2>2. CASE Replies(c, Error)
      BY <1>1, <2>1, <2>2, PlainReply DEF BooksStay, Error
    <2>3. CASE calls' = (calls \ {c}) \cup
                 {[c EXCEPT !.seen.step = "wallet", !.seen.reserved = wallet.reserved]}
      <3>1. /\ c.btn = "confirm" /\ IsRead(c) /\ "seen" \in DOMAIN c
            /\ {"step", "reserved"} \subseteq DOMAIN c.seen
        BY <1>2, <1>6
        DEF WithdrawConfirmVerifies, InConfirm, CallOfTab, Accounts, CallsAccounted,
            Confirmation
      <3>2. PICK seen : seen = [c.seen EXCEPT !.step = "wallet", !.reserved = wallet.reserved]
        OBVIOUS
      <3>3. {"step", "reserved"} \subseteq DOMAIN seen /\ seen.reserved = wallet.reserved
        BY <3>1, <3>2
      <3>4. PICK d : d = [c EXCEPT !.seen = seen]
        OBVIOUS
      <3>5. calls' = (calls \ {c}) \cup {d}
        BY <2>3, <3>2, <3>4
      <3>6. d.btn = c.btn /\ d.req = c.req /\ d.owned = c.owned /\ d.stage = c.stage
            /\ d.seen = seen /\ "seen" \in DOMAIN d
        BY <1>2, <3>1, <3>4 DEF CallShaped
      <3> QED  BY <1>1, <2>1, <3>1, <3>3, <3>5, <3>6, ServedAccounted
               DEF BooksStay, IsDone, Begins
    <2> QED  BY <1>6, <2>2, <2>3 DEF WithdrawConfirmVerifies
  <1>7. CASE WithdrawCancel(c)
    <2>1. c.btn \notin {"getCode", "confirm"} /\ Replies(c, Plain) /\ UNCHANGED <<wallet, orders>>
      BY <1>2, <1>7 DEF CallOfTab, WithdrawCancel, Serves
    <2>2. /\ DOMAIN sessions' = DOMAIN sessions
          /\ \A t \in DOMAIN sessions : /\ sessions'[t].gross = sessions[t].gross
                                        /\ sessions'[t].transfers = sessions[t].transfers
      <3>1. CASE sessions' = [sessions EXCEPT ![c.req.token].live = FALSE]
        <4>1. PICK row : row = [sessions[c.req.token] EXCEPT !.live = FALSE]
          OBVIOUS
        <4>2. sessions' = [sessions EXCEPT ![c.req.token] = row]
          BY <3>1, <4>1
        <4>3. c.req.token \in DOMAIN sessions =>
                /\ row.gross = sessions[c.req.token].gross
                /\ row.transfers = sessions[c.req.token].transfers
          BY <1>2, <4>1 DEF SessionsShaped
        <4> QED  BY <4>2, <4>3
      <3> QED  BY <1>7, <3>1 DEF WithdrawCancel
    <2>3. RowsCounted(sessions') /\ MadeIn(sessions') = MadeIn(sessions)
      BY <2>2, OthersAddNothing DEF Accounts, MoneyAccounted
    <2>4. MoneyAccounted'
      BY <2>1, <2>3 DEF Accounts, MoneyAccounted
    <2>5. PICK d : d = Done(c, Plain)
      OBVIOUS
    <2>6. /\ calls' = (calls \ {c}) \cup {d} /\ d.btn = c.btn /\ d.req = c.req
          /\ d.owned = c.owned /\ IsDone(d) /\ ~IsRead(d)
      BY <2>1, <2>5, RepliesOwned
    <2> QED  BY <1>1, <2>1, <2>2, <2>4, <2>6, ServedAccounted DEF Begins
  <1> QED  BY <1>3, <1>4, <1>5, <1>6, <1>7 DEF PortfolioRoute

\* What the user does in a document.
LEMMA UserAccounted ==
  ASSUME Accounts, Inv,
         WithdrawUser \/ TypeAddress \/ ((BuyClick \/ RedeemClick) /\ UNCHANGED withdrawVars)
  PROVE  Accounts'
  <1>0. BooksStay /\ UNCHANGED page /\ w.gross \in Nat
    BY DEF WithdrawUser, OpenWithdrawForm, CloseModal, WithdrawConfirmBtn, OpenDialog,
           GetCodeClick, ResendClick, ConfirmClick, EmailChange, HandleConfirmModalClose,
           TypeAddress, BuyClick, RedeemClick, OrderClick, Press, callVars, portfolioVars,
           bookVars, BooksStay, Accounts, DialogOfTab
  <1>1. CASE OpenWithdrawForm \/ CloseModal \/ TypeAddress
    BY <1>0, <1>1, DialogGoesOn DEF OpenWithdrawForm, CloseModal, TypeAddress, callVars
  <1>2. CASE WithdrawConfirmBtn
    <2>1. PICK gross \in Amounts :
            w' = [DialogStart EXCEPT !.token = 0, !.addr = form.addr, !.gross = gross,
                                     !.seq = w.seq + 1, !.options = w.options,
                                     !.abandoned = w.abandoned \/ Awaited("getCode") # {}]
      BY <1>2 DEF WithdrawConfirmBtn, OpenDialog
    <2>2. w'.token = 0 /\ w'.gross \in Nat
      BY <2>1, WithdrawConstants DEF DialogStart
    <2>3. UNCHANGED <<locked, calls>>
      BY <1>2 DEF WithdrawConfirmBtn, OpenDialog
    <2> QED  BY <1>0, <2>2, <2>3, DialogGoesOn
  <1>3. CASE GetCodeClick
    <2>1. PICK slot : Press("getCode", [Request("withdraw_request") EXCEPT
                         !.addr = w.addr, !.gross = w.gross, !.slot = slot])
      BY <1>3 DEF GetCodeClick
    <2>2. PICK req : req = [Request("withdraw_request") EXCEPT
                         !.addr = w.addr, !.gross = w.gross, !.slot = slot]
      OBVIOUS
    <2>3. req.op = "withdraw_request" /\ req.gross \in Nat
      BY <1>0, <2>2 DEF Request
    <2>4. CallOfTab(Sent(1, "getCode", req))
      BY <1>3, <2>3 DEF CallOfTab, Sent, GetCodeClick, OnDialog
    <2>5. Fetch("getCode", req) /\ locked' = locked \cup {"getCode"}
      BY <2>1, <2>2 DEF Press, LockActionButton
    <2> QED  BY <1>0, <1>3, <2>4, <2>5, FetchAccounted DEF GetCodeClick, withdrawVars
  <1>4. CASE ResendClick
    <2>1. PICK req : req = [Request("withdraw_resend") EXCEPT !.token = w.token]
      OBVIOUS
    <2>2. req.op = "withdraw_resend" /\ req.gross = 0
      BY <2>1 DEF Request
    <2>3. CallOfTab(Sent(1, "resend", req))
      BY <1>4, <2>2 DEF CallOfTab, Sent, ResendClick, OnDialog
    <2>4. Fetch("resend", req) /\ locked' = locked \cup {"resend"}
      BY <1>4, <2>1 DEF ResendClick, Press, LockActionButton
    <2> QED  BY <1>0, <1>4, <2>3, <2>4, FetchAccounted DEF ResendClick, withdrawVars
  <1>5. CASE ConfirmClick
    <2>1. PICK code \in {0, wcode.n} : Press("confirm", ConfirmRequest(code))
      BY <1>5 DEF ConfirmClick
    <2>2. PICK req : req = ConfirmRequest(code)
      OBVIOUS
    <2>3. req.op = "withdraw_confirm" /\ req.gross = 0 /\ req.token = w.token
      BY <2>2 DEF ConfirmRequest, Request
    <2>4. CallOfTab(Sent(1, "confirm", req))
      BY <1>5, <2>3 DEF CallOfTab, Sent, ConfirmClick, OnDialog
    <2>5. Fetch("confirm", req) /\ "confirm" \notin locked /\ locked' = locked \cup {"confirm"}
      BY <2>1, <2>2 DEF Press, LockActionButton
    <2>6. w.token # 0 /\ UNCHANGED w
      BY <1>5 DEF ConfirmClick, withdrawVars
    <2> QED  BY <1>0, <2>3, <2>4, <2>5, <2>6, FetchAccounted
  <1>6. CASE EmailChange
    <2>1. /\ UNCHANGED <<locked, calls>>
          /\ \E slot : w' = [w EXCEPT !.slot = slot, !.token = 0, !.totp = FALSE]
      BY <1>6 DEF EmailChange
    <2>2. w'.token = 0 /\ w'.gross = w.gross
      BY <2>1 DEF Inv, DialogShaped
    <2> QED  BY <1>0, <2>1, <2>2, DialogGoesOn
  <1>7. CASE HandleConfirmModalClose
    <2>1. CASE w.token # 0
      <3>1. PICK req : req = [Request("withdraw_cancel") EXCEPT !.token = w.token]
        OBVIOUS
      <3>2. req.op = "withdraw_cancel" /\ req.gross = 0
        BY <3>1 DEF Request
      <3>3. CallOfTab(Sent(1, "cancel", req))
        BY <1>7, <3>2 DEF CallOfTab, Sent, HandleConfirmModalClose
      <3>4. /\ Fetch("cancel", req) /\ UNCHANGED locked
            /\ w' = [w EXCEPT !.cancelling = TRUE]
        BY <1>7, <2>1, <3>1 DEF HandleConfirmModalClose
      <3>5. w'.token = w.token /\ w'.gross = w.gross
        BY <3>4 DEF Inv, DialogShaped
      <3> QED  BY <1>0, <3>3, <3>4, <3>5, FetchAccounted
    <2>2. CASE w.token = 0
      <3>1. UNCHANGED <<locked, calls>>
            /\ w' = [w EXCEPT !.token = 0, !.slot = 0, !.totp = FALSE, !.cancelling = FALSE]
        BY <1>7, <2>2 DEF HandleConfirmModalClose, ClosesDialog
      <3>2. w'.token = 0 /\ w'.gross = w.gross
        BY <3>1 DEF Inv, DialogShaped
      <3> QED  BY <1>0, <3>1, <3>2, DialogGoesOn
    <2> QED  BY <2>1, <2>2
  <1>8. ASSUME NEW side \in {"buy", "redeem"}, OrderClick(side), UNCHANGED withdrawVars
        PROVE  Accounts'
    <2>1. PICK typed \in OrderAmounts : /\ MayOrder(side, LimitOrderAmount(typed))
                                        /\ Press(side, Order(side, LimitOrderAmount(typed)))
      BY <1>8 DEF OrderClick
    <2>2. PICK req, gross : gross = LimitOrderAmount(typed) /\ req = Order(side, gross)
      OBVIOUS
    <2>3. gross \in Nat
      BY <2>2, OrderConstants DEF LimitOrderAmount
    <2>4. req.op = side /\ req.gross = gross
      BY <2>2 DEF Order, Request
    <2>5. CallOfTab(Sent(1, side, req))
      BY <2>1, <2>3, <2>4 DEF CallOfTab, Sent, MayOrder, OrderEntryOpen
    <2>6. Fetch(side, req) /\ locked' = locked \cup {side}
      BY <2>1, <2>2 DEF Press, LockActionButton
    <2> QED  BY <1>0, <1>8, <2>5, <2>6, FetchAccounted DEF withdrawVars
  <1> QED
    BY <1>1, <1>2, <1>3, <1>4, <1>5, <1>6, <1>7, <1>8 DEF WithdrawUser, BuyClick, RedeemClick

\* An answer that is taken, an error, or a call that is lost.
LEMMA AnswerAccounted ==
  ASSUME Accounts, Inv, ~orphaned, ~orphaned', NEW c \in calls,
         WithdrawAnswer(c) \/ (TerminalAnswer(c) /\ UNCHANGED withdrawVars)
  PROVE  Accounts'
  <1>1. BooksStay /\ UNCHANGED page
    BY DEF WithdrawAnswer, GetCodeAnswered, ResendAnswered, Confirmed, Cancelled,
           TerminalAnswer, Bought, Redeemed, Fails, HearsError, NetworkFails, HearsOk, Loses,
           portfolioVars, bookVars, BooksStay
  <1>2. (Hears(c) => IsDone(c)) /\ (Hears(c) \/ Loses(c) => calls' = calls \ {c})
        /\ (Loses(c) => IsSent(c))
    BY DEF Hears, Loses
  <1>3. CASE Fails(c) /\ UNCHANGED w
    <2>1. locked' = locked \ {c.btn} /\ calls' = calls \ {c}
          /\ (IsDone(c) => ~c.ans.ok)
      BY <1>2, <1>3 DEF Fails, HearsError, NetworkFails, UnlockActionButton, IsSent, IsDone
    <2> QED  BY <1>1, <1>3, <2>1, GoneAccounted
  <1>4. CASE c.btn # "confirm" /\ HearsOk(c) /\ UNCHANGED w /\ locked' = locked \ {c.btn}
    BY <1>1, <1>2, <1>4, GoneAccounted DEF HearsOk
  <1>5. CASE /\ c.btn = "getCode" /\ HearsOk(c) /\ UnlockActionButton(c.btn)
             /\ w' = [w EXCEPT !.token = c.ans.token, !.slot = c.ans.slot,
                               !.totp = c.ans.totp]
    <2>1. w'.token = c.ans.token /\ w'.gross = w.gross
      BY <1>5 DEF Inv, DialogShaped
    <2>2. locked' = locked \ {c.btn} /\ c.ans.ok /\ IsDone(c) /\ calls' = calls \ {c}
      BY <1>2, <1>5 DEF HearsOk, UnlockActionButton
    <2> QED  BY <1>1, <1>5, <2>1, <2>2, GoneAccounted
  <1>6. CASE HearsOk(c) /\ UNCHANGED locked /\ w' = [w EXCEPT !.done = TRUE]
    <2>1. w'.token = w.token /\ w'.gross = w.gross
      BY <1>6 DEF Inv, DialogShaped
    <2> QED  BY <1>1, <1>2, <1>6, <2>1, GoneAccounted DEF HearsOk
  <1>7. CASE Cancelled(c)
    <2>1. /\ UNCHANGED locked /\ calls' = calls \ {c}
          /\ w' = [w EXCEPT !.token = 0, !.slot = 0, !.totp = FALSE, !.cancelling = FALSE]
      BY <1>2, <1>7 DEF Cancelled, ClosesDialog
    <2>2. w'.token = 0 /\ w'.gross = w.gross
      BY <2>1 DEF Inv, DialogShaped
    <2> QED  BY <1>1, <2>1, <2>2, GoneAccounted
  <1> QED
    BY <1>3, <1>4, <1>5, <1>6, <1>7
    DEF WithdrawAnswer, GetCodeAnswered, ResendAnswered, Confirmed, TerminalAnswer, Bought,
        Redeemed, StartResendCooldown, UnlockActionButton, withdrawVars

\* Polls, timers and the rest of the platform.
LEMMA QuietAccounted ==
  ASSUME Accounts, Inv, BooksStay, UNCHANGED <<page, locked, calls>>,
         UNCHANGED w \/ \E slot : w' = [w EXCEPT !.options = TRUE, !.slot = slot]
  PROVE  Accounts'
  <1>1. w'.token = w.token /\ w'.gross = w.gross
    BY DEF Inv, DialogShaped
  <1>2. w'.gross \in Nat
    BY <1>1 DEF Accounts, DialogOfTab
  <1> QED  BY <1>1, <1>2, DialogGoesOn

LEMMA ElsewhereQuiet ==
  ASSUME Scripts \/ PollsSummary \/ Elsewhere \/ \E kind, id : PollMoves(kind, id)
  PROVE  /\ BooksStay /\ UNCHANGED <<page, locked, calls, orphaned>>
         /\ UNCHANGED w \/ \E slot : w' = [w EXCEPT !.options = TRUE, !.slot = slot]
  <1>1. CASE Scripts \/ PollsSummary
    BY <1>1
    DEF Scripts, PollsSummary, ValidateAddressDebounced, PollDashboardLive, PollLatestBar,
        ChartStep, ThemeToggle, ThemeRebuild, RemoveWidget, NewWidget, ScrollBack,
        SubscribeBars, HistoryStep, SetTab, PollActiveHistory, PollSummary,
        callVars, portfolioVars, bookVars, withdrawVars, BooksStay
  <1>2. CASE Elsewhere
    BY <1>2
    DEF Elsewhere, PriceTicks, ComplianceChanges, CooldownEnds, CooldownPasses,
        callVars, portfolioVars, bookVars, withdrawVars, BooksStay
  <1>3. ASSUME NEW kind, NEW id, PollMoves(kind, id)
        PROVE  /\ BooksStay /\ UNCHANGED <<page, locked, calls, orphaned>>
               /\ UNCHANGED w \/ \E slot : w' = [w EXCEPT !.options = TRUE, !.slot = slot]
    <2>1. CASE Report(kind, id)
      <3>1. PICK p \in polls[kind] : LiveEndpoint(kind, p)
        BY <2>1 DEF Report
      <3> QED
        BY <2>1, <3>1
        DEF Report, LiveEndpoint, Reports, callVars, bookVars, withdrawVars, BooksStay
    <2>2. CASE Apply(kind, id)
      BY <2>2
      DEF Apply, AddressValidated, LoadEmailOptions, ApplyDashboardLive,
          ApplyTerminalLivePayload, GetBars, LatestBarArrives, ApplyHistory, Breaks,
          callVars, bookVars, withdrawVars, BooksStay
    <2> QED  BY <1>3, <2>1, <2>2 DEF PollMoves
  <1> QED  BY <1>1, <1>2, <1>3

\* The document is replaced: no call is awaited, or it is orphaned.
LEMMA NavigateAccounted ==
  ASSUME Accounts, ~orphaned, ~orphaned', Navigate
  PROVE  Accounts'
  <1>1. PICK to : Leave(to, calls) /\ Loads(to)
    BY DEF Navigate
  <1>2. \A c \in calls : ~c.owned
    BY <1>1 DEF Leave
  <1>3. calls = {}
    BY <1>2 DEF Accounts, CallsAccounted, CallOfTab
  <1>4. calls' = {}
    BY <1>1, <1>3 DEF Leave
  <1>5. w' = DialogStart
    BY <1>1 DEF Loads, DashboardLoads
  <1>6. w'.token = 0 /\ w'.gross = 0
    BY <1>5 DEF DialogStart
  <1>7. MoneyAccounted'
    BY DEF Navigate, bookVars, Accounts, MoneyAccounted
  <1> QED  BY <1>4, <1>6, <1>7 DEF Accounts, CallsAccounted, HeldFits, Held, DialogOfTab

\* A step knows whether some call is orphaned, and forgets none.
LEMMA OrphanedStays ==
  ASSUME orphaned \in BOOLEAN, [Next]_vars
  PROVE  orphaned' \in BOOLEAN /\ (orphaned => orphaned')
  <1>1. CASE UNCHANGED vars
    BY <1>1 DEF vars, callVars
  <1>2. CASE WithdrawUser \/ TypeAddress \/ BuyClick \/ RedeemClick
    BY <1>2
    DEF WithdrawUser, OpenWithdrawForm, CloseModal, WithdrawConfirmBtn, OpenDialog,
        GetCodeClick, ResendClick, ConfirmClick, EmailChange, HandleConfirmModalClose,
        TypeAddress, BuyClick, RedeemClick, OrderClick, Press, callVars
  <1>3. CASE Navigate
    <2>1. PICK to : Leave(to, calls)
      BY <1>3 DEF Navigate
    <2> QED  BY <2>1 DEF Leave
  <1>4. CASE Scripts \/ PollsSummary \/ Elsewhere \/ \E kind, id : PollMoves(kind, id)
    BY <1>4, ElsewhereQuiet
  <1>5. ASSUME NEW c \in calls, PortfolioRoute(c)
        PROVE  UNCHANGED orphaned
    BY <1>5
    DEF PortfolioRoute, WithdrawRequestCode, WithdrawRequestCommits, WithdrawResendCode,
        WithdrawConfirmReads, WithdrawConfirmVerifies, WithdrawConfirmCommits, WithdrawCancel, CreateBuyOrder,
        CreateRedeemOrder, Serves, InConfirm
  <1>6. ASSUME NEW c \in calls, WithdrawAnswer(c) \/ TerminalAnswer(c)
        PROVE  UNCHANGED orphaned \/ orphaned' = TRUE
    BY <1>6
    DEF WithdrawAnswer, GetCodeAnswered, ResendAnswered, Confirmed, Cancelled,
        TerminalAnswer, Bought, Redeemed, Fails, HearsError, NetworkFails, HearsOk, Hears,
        Loses
  <1> QED  BY <1>1, <1>2, <1>3, <1>4, <1>5, <1>6 DEF Next, User, CallMoves

\* Every step keeps the books accounted for.
LEMMA ReserveStep ==
  ASSUME Inv, ReserveInv, [Next]_vars
  PROVE  ReserveInv'
  <1>1. orphaned' \in BOOLEAN /\ (orphaned => orphaned')
    BY OrphanedStays DEF ReserveInv
  <1> SUFFICES ASSUME ~orphaned' PROVE Accounts'
    BY <1>1 DEF ReserveInv
  <1>2. Accounts /\ ~orphaned
    BY <1>1 DEF ReserveInv
  <1>3. CASE UNCHANGED vars
    BY <1>2, <1>3, QuietAccounted
    DEF vars, callVars, portfolioVars, bookVars, withdrawVars, BooksStay
  <1>4. CASE User
    BY <1>2, <1>4, UserAccounted, NavigateAccounted DEF User
  <1>5. CASE Scripts \/ PollsSummary \/ Elsewhere \/ \E kind, id : PollMoves(kind, id)
    BY <1>2, <1>5, ElsewhereQuiet, QuietAccounted
  <1>6. ASSUME NEW id \in Ids, CallMoves(id)
        PROVE  Accounts'
    BY <1>2, <1>6, RouteAccounted, AnswerAccounted DEF CallMoves, withdrawVars
  <1> QED  BY <1>3, <1>4, <1>5, <1>6 DEF Next

\* A visit starts with nothing reserved.
LEMMA ReserveStarts ==
  ASSUME Init
  PROVE  ReserveInv
  <1>1. /\ wallet = [balance |-> Balance, reserved |-> 0] /\ sessions = <<>>
        /\ orders = [buys |-> 0, redeems |-> 0, spent |-> 0]
        /\ calls = {} /\ orphaned = FALSE /\ \E n : w = [DialogStart EXCEPT !.seq = n]
    BY DEF Init, PortfolioInit
  <1>2. w.token = 0 /\ w.gross = 0
    BY <1>1 DEF DialogStart
  <1>3. DOMAIN sessions = {}
    BY <1>1
  <1>4. RowsCounted(sessions) /\ MadeIn(sessions) = 0
    BY <1>3, FS_EmptySet, SumOfNone DEF RowsCounted, MadeIn
  <1>5. MoneyAccounted
    BY <1>1, <1>4, PortfolioConstants DEF MoneyAccounted
  <1>6. CallsAccounted
    BY <1>1 DEF CallsAccounted
  <1>7. HeldFits
    BY <1>1, <1>2 DEF HeldFits, Held
  <1>8. DialogOfTab
    BY <1>2 DEF DialogOfTab
  <1> QED  BY <1>1, <1>5, <1>6, <1>7, <1>8 DEF ReserveInv, Accounts

\* What is reserved is what the orders and the withdrawals of the tab come to, no
\* withdrawal is made twice, and the balance covers it, for every balance, amounts,
\* fee, visit and bound: withdraw_confirm of dashboard/routes.py writes back a reserve
\* it read two steps before, and nothing in the tab may have changed it meanwhile.
THEOREM ReserveCovered ==
  Spec => []ReserveIsAccounted
  <1>1. ReserveInv => ReserveIsAccounted
    <2> SUFFICES ASSUME Accounts
                 PROVE  /\ wallet.reserved = orders.spent + Withdrawn
                        /\ \A t \in DOMAIN sessions : sessions[t].transfers <= 1
                        /\ wallet.reserved <= wallet.balance
      BY DEF ReserveInv, ReserveIsAccounted
    <2>1. Withdrawn = MadeIn(sessions)
      BY WithdrawnIsSum DEF Accounts, MoneyAccounted
    <2> QED  BY <2>1, PortfolioConstants DEF Accounts, MoneyAccounted, RowsCounted
  <1>2. Init => Inv /\ ReserveInv
    BY Starts, ReserveStarts
  <1>3. (Inv /\ ReserveInv) /\ [Next]_vars => (Inv /\ ReserveInv)'
    BY StepKeeps, ReserveStep
  <1> QED  BY <1>1, <1>2, <1>3, PTL DEF Spec
=============================================================================
