------------------------------ MODULE FundLock ------------------------------
(***************************************************************************)
(* What a fund's pricing lock promises (abstract specification).           *)
(*                                                                         *)
(* One batch at a time holds the lock; a batch that holds it is the only   *)
(* one that may change the number of shares of the fund, and it does so    *)
(* in the step that gives the lock back.  What the new number is, is left  *)
(* open.                                                                   *)
(***************************************************************************)
CONSTANTS Batches, Nobody

VARIABLES
    owner,   \* the batch that holds the lock, or Nobody
    shares   \* the fund's shares outstanding

lockvars == <<owner, shares>>

Init == owner = Nobody

Take(b) ==
    /\ owner = Nobody
    /\ owner' = b
    /\ UNCHANGED shares

GiveBack(b) ==
    /\ owner = b
    /\ owner' = Nobody

Next == \E b \in Batches : Take(b) \/ GiveBack(b)

Spec == Init /\ [][Next]_lockvars
=============================================================================
