---------------------------- MODULE TransitBook -----------------------------
(***************************************************************************)
(* What a transfer of stock promises, without locks, statements or a       *)
(* ledger: goods leave one place at one instant, only if they are there,   *)
(* and arrive at the other, in one part or in several, never more of them  *)
(* than left.                                                              *)
(***************************************************************************)
EXTENDS Integers

CONSTANTS
    Transfer,       \* ids of transfers
    Place,          \* where stock can be
    Forms,          \* from, to, quantity of the transfers that may be raised
    InitialOnHand,  \* the stock of every place at the start
    NotRaised       \* a transfer that has not been asked for

VARIABLES
    onHand,         \* the stock of every place
    transfers       \* the form of every transfer, whether it left, what arrived

Raised == {x \in Transfer : transfers[x] # NotRaised}

Init ==
    /\ onHand = InitialOnHand
    /\ transfers = [x \in Transfer |-> NotRaised]

\* Nothing is held: others may take the goods before they leave.
Raise(x, form) ==
    /\ x \notin Raised
    /\ transfers' = [transfers EXCEPT ![x] =
                       [form |-> form, left |-> FALSE, arrived |-> 0]]
    /\ UNCHANGED onHand

Leave(x) ==
    LET form == transfers[x].form
    IN  /\ x \in Raised
        /\ ~transfers[x].left
        /\ onHand[form.from] >= form.quantity
        /\ onHand' = [onHand EXCEPT ![form.from] = @ - form.quantity]
        /\ transfers' = [transfers EXCEPT ![x].left = TRUE]

Arrive(x, q) ==
    /\ x \in Raised
    /\ transfers[x].left
    /\ transfers[x].arrived + q <= transfers[x].form.quantity
    /\ onHand' = [onHand EXCEPT ![transfers[x].form.to] = @ + q]
    /\ transfers' = [transfers EXCEPT ![x].arrived = @ + q]

Next ==
    \E x \in Transfer :
      \/ \E form \in Forms : Raise(x, form)
      \/ Leave(x)
      \/ /\ x \in Raised
         /\ \E q \in 1 .. transfers[x].form.quantity : Arrive(x, q)

Spec == Init /\ [][Next]_<<onHand, transfers>>
=============================================================================
