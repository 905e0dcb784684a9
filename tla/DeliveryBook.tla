---------------------------- MODULE DeliveryBook -----------------------------
(***************************************************************************)
(* What receiving and correcting stock promise, without locks, statements  *)
(* or a ledger: a delivery that carries a reference comes in at one        *)
(* instant, once, and only what came in uses the reference up; everything  *)
(* else is a correction, which leaves no place with less than nothing.     *)
(***************************************************************************)
EXTENDS Integers

CONSTANTS
    Reference,      \* what tells one delivery from another
    Place,          \* where stock can be
    Quantity,       \* how much comes in, or is corrected, at a time
    InitialOnHand   \* the stock of every place at the start

VARIABLES
    onHand,         \* the stock of every place
    delivered,      \* what came in under a reference, where and how much
    corrected       \* the sum of all other changes, for every place

Init ==
    /\ onHand = InitialOnHand
    /\ delivered = {}
    /\ corrected = [b \in Place |-> 0]

Known(ref) == \E d \in delivered : d.reference = ref

Deliver(ref, b, q) ==
    /\ ~Known(ref)
    /\ delivered' = delivered \cup
                      {[reference |-> ref, place |-> b, quantity |-> q]}
    /\ onHand' = [onHand EXCEPT ![b] = @ + q]
    /\ UNCHANGED corrected

\* Also a delivery without a reference.
Correct(b, delta) ==
    /\ onHand[b] + delta >= 0
    /\ onHand' = [onHand EXCEPT ![b] = @ + delta]
    /\ corrected' = [corrected EXCEPT ![b] = @ + delta]
    /\ UNCHANGED delivered

Next ==
    \E b \in Place, q \in Quantity :
      \/ \E ref \in Reference : Deliver(ref, b, q)
      \/ Correct(b, q)
      \/ Correct(b, -q)

Spec == Init /\ [][Next]_<<onHand, delivered, corrected>>
=============================================================================
