--------------------------- MODULE TransferIntent ---------------------------
(***************************************************************************)
(* What the durable transfer intents promise (abstract specification).     *)
(*                                                                         *)
(* A payment is signed once, the signed transaction is on record before    *)
(* the chain can receive it, the chain receives no other transaction for   *)
(* that payment, and nobody is credited for a payment that has not         *)
(* succeeded on the chain.  app/settlement/bsc_intent_service.py writes    *)
(* the promise down as a "required durable boundary".                      *)
(***************************************************************************)
EXTENDS Naturals

CONSTANT Payments

VARIABLES
    signed,    \* how many transactions were ever signed for a payment
    received,  \* payments of which the chain has received one
    result,    \* what the chain made of it
    credited   \* payments whose success was booked

avars == <<signed, received, result, credited>>

Results == {"none", "ok", "reverted"}

Init ==
    /\ signed = [p \in Payments |-> 0]
    /\ received = {}
    /\ result = [p \in Payments |-> "none"]
    /\ credited = {}

\* A first transaction is signed and made durable.
Sign(p) ==
    /\ signed[p] = 0
    /\ signed' = [signed EXCEPT ![p] = 1]
    /\ UNCHANGED <<received, result>>

\* The chain receives the transaction on record.
Broadcast(p) ==
    /\ signed[p] = 1
    /\ received' = received \cup {p}
    /\ UNCHANGED <<signed, result>>

Mine(p) ==
    /\ p \in received
    /\ result[p] = "none"
    /\ \E r \in Results \ {"none"} : result' = [result EXCEPT ![p] = r]
    /\ UNCHANGED <<signed, received>>

\* Payments are booked, each one after its success and for good.
Book ==
    /\ credited \subseteq credited'
    /\ \A p \in credited' \ credited : result[p] = "ok"

Next ==
    /\ Book
    /\ \/ \E p \in Payments : Sign(p) \/ Broadcast(p) \/ Mine(p)
       \/ UNCHANGED <<signed, received, result>>

Spec == Init /\ [][Next]_avars
=============================================================================
