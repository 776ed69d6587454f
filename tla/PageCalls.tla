------------------------------ MODULE PageCalls ------------------------------
(***************************************************************************)
(* What every page script of the platform does around a server call.       *)
(*                                                                         *)
(* A handler locks its button (lockActionButton of static/js/app.js),      *)
(* awaits fetch, and releases the button when the answer, an error status  *)
(* or a network error arrives.  Between the click and the answer anything  *)
(* else may run: other handlers of the page, other calls on the server, a  *)
(* reload.  A call is therefore a record that passes through stages:       *)
(*   sent    the request is on its way                                     *)
(*   read    a threaded route has read the database and not yet committed  *)
(*   done    the answer is on its way back                                 *)
(* A call is owned while the page that made it is loaded and waits for it; *)
(* a call that is not owned may still be carried out by the server.        *)
(*                                                                         *)
(* Bounds: MaxFlight calls at once, MaxCalls calls and MaxLost network     *)
(* errors in a behaviour.                                                  *)
(***************************************************************************)
EXTENDS Naturals, FiniteSets

CONSTANTS MaxFlight, MaxCalls, MaxLost

ASSUME PageBounds == MaxFlight \in Nat /\ MaxCalls \in Nat /\ MaxLost \in Nat

VARIABLES
  page,       \* the page the browser shows
  locked,     \* buttons of _pendingButtons
  cooling,    \* buttons with a resend timer
  calls,      \* calls the server has yet to finish or the page yet to hear of
  made,       \* calls made so far
  losses,     \* network errors so far
  orphaned    \* history: some call took effect, or may, unknown to its page

callVars == <<page, locked, cooling, calls, made, losses, orphaned>>

(***************************************************************************)
(* Calls                                                                   *)
(***************************************************************************)
Ids == 1..MaxFlight

IsSent(c) == c.stage = "sent"
IsRead(c) == c.stage = "read"
IsDone(c) == c.stage = "done"

Sent(id, btn, req) ==
  [id |-> id, btn |-> btn, req |-> req, owned |-> TRUE, stage |-> "sent"]

Read(c, seen) ==
  [id |-> c.id, btn |-> c.btn, req |-> c.req, owned |-> c.owned,
   stage |-> "read", seen |-> seen]

Done(c, ans) ==
  [id |-> c.id, btn |-> c.btn, req |-> c.req, owned |-> c.owned,
   stage |-> "done", ans |-> ans]

\* The server answers; nobody hears the answer to a call that is not owned.
Replies(c, ans) ==
  calls' = (calls \ {c}) \cup (IF c.owned THEN {Done(c, ans)} ELSE {})

\* The calls the page still waits for on behalf of a button.
Awaited(btn) == {c \in calls : c.owned /\ c.btn = btn}

(***************************************************************************)
(* The page's half                                                         *)
(***************************************************************************)

\* fetch: the request leaves.
Fetch(btn, req) ==
  /\ made < MaxCalls
  /\ \E id \in Ids \ {c.id : c \in calls} :
       /\ \A other \in Ids \ {c.id : c \in calls} : id <= other
       /\ calls' = calls \cup {Sent(id, btn, req)}
  /\ made' = made + 1

\* lockActionButton: false when the button is already pending.
LockActionButton(btn) ==
  /\ btn \notin locked
  /\ locked' = locked \cup {btn}

\* Slip: the button is greyed but its pending mark is not looked at.
LockForgetsPending(btn) == locked' = locked \cup {btn}

\* unlockActionButton: the mark is removed and the button enabled.
UnlockActionButton(btn) == locked' = locked \ {btn}

\* startResendCooldown after unlockActionButton: the button is greyed until its
\* timer ends.
StartResendCooldown(btn) ==
  /\ locked' = locked \ {btn}
  /\ cooling' = cooling \cup {btn}

\* Slip: the timer starts and the pending mark stays.
CooldownKeepsLock(btn) ==
  /\ cooling' = cooling \cup {btn}
  /\ UNCHANGED locked

\* A click on a button that is not greyed, up to its fetch.
Press(btn, req) ==
  /\ LockActionButton(btn)
  /\ Fetch(btn, req)
  /\ UNCHANGED <<page, cooling, losses, orphaned>>

\* clearResendCooldown: the timers of these buttons are stopped.
ClearResendCooldown(btns) == cooling' = cooling \ btns

\* finish() of a timer.
CooldownEnds ==
  /\ \E btn \in cooling : cooling' = cooling \ {btn}
  /\ UNCHANGED <<page, locked, calls, made, losses, orphaned>>

\* The answer c is taken by the handler that waits for it.
Hears(c) ==
  /\ c.owned /\ IsDone(c)
  /\ calls' = calls \ {c}
  /\ UNCHANGED <<made, losses, orphaned>>

HearsOk(c) == Hears(c) /\ c.ans.ok /\ UNCHANGED page

\* resp.ok is false: the message is shown and the button released.
HearsError(c) ==
  /\ Hears(c) /\ ~c.ans.ok
  /\ UnlockActionButton(c.btn)
  /\ UNCHANGED <<page, cooling>>

\* fetch throws: the request never arrived, or its answer never came back.
Loses(c) ==
  /\ c.owned /\ losses < MaxLost
  /\ losses' = losses + 1
  /\ \/ IsSent(c) /\ calls' = calls \ {c} /\ UNCHANGED orphaned
     \/ calls' = (calls \ {c}) \cup
                   (IF IsDone(c) THEN {} ELSE {[c EXCEPT !.owned = FALSE]})
        /\ orphaned' = TRUE
  /\ UNCHANGED <<page, made>>

NetworkFails(c) == Loses(c) /\ UnlockActionButton(c.btn) /\ UNCHANGED cooling

Fails(c) == HearsError(c) \/ NetworkFails(c)

\* The document is replaced: handlers, locks and timers of the old one are gone,
\* requests that left it are not.
Leave(to, pending) ==
  /\ page' = to
  /\ locked' = {} /\ cooling' = {}
  /\ calls' = {[c EXCEPT !.owned = FALSE] : c \in {d \in pending : ~IsDone(d)}}
  /\ orphaned' = (orphaned \/ \E c \in pending : c.owned)
  /\ UNCHANGED <<made, losses>>

\* window.location set by the handler that takes a good answer.
Redirects(c, to) ==
  /\ c.owned /\ IsDone(c) /\ c.ans.ok
  /\ Leave(to, calls \ {c})

CallInit ==
  /\ locked = {} /\ cooling = {} /\ calls = {}
  /\ made = 0 /\ losses = 0 /\ orphaned = FALSE
=============================================================================
