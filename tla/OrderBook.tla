------------------------------ MODULE OrderBook ------------------------------
(***************************************************************************)
(* What the order desk promises its callers, without buckets, locks or     *)
(* transactions: every operation on an order happens at one instant, in    *)
(* full or not at all, and a unit is promised to one order only.           *)
(*                                                                         *)
(* A shelf is an item at a location; which batches make it up is no        *)
(* concern of the caller's.                                                *)
(***************************************************************************)
EXTENDS Integers, FiniteSetsExt

CONSTANTS
    Order,          \* ids of orders
    Shelf,          \* items at locations
    Forms,          \* what may be ordered: functions from shelves to quantities
    InitialOnHand,  \* the stock of every shelf at the start
    NoOrder         \* an order that has not been placed

VARIABLES
    onHand,         \* the physical stock of every shelf
    orders          \* the status of every order and what it is for

Placed == {o \in Order : orders[o] # NoOrder}
InStatus(status) == {o \in Placed : orders[o].status = status}

Promised(s) == MapThenSumSet(LAMBDA o : orders[o].form[s], InStatus("RESERVED"))

\* Every shelf has what the form asks for and nobody has been promised.
IsFree(form) == \A s \in Shelf : form[s] <= onHand[s] - Promised(s)

Init ==
    /\ onHand = InitialOnHand
    /\ orders = [o \in Order |-> NoOrder]

Becomes(o, status) == orders' = [orders EXCEPT ![o].status = status]

Place(o, form, status) ==
    /\ o \notin Placed
    /\ status = "RESERVED" => IsFree(form)
    /\ orders' = [orders EXCEPT ![o] = [status |-> status, form |-> form]]
    /\ UNCHANGED onHand

Reserve(o) ==
    /\ o \in InStatus("DRAFT")
    /\ IsFree(orders[o].form)
    /\ Becomes(o, "RESERVED")
    /\ UNCHANGED onHand

Cancel(o) ==
    /\ o \in InStatus("DRAFT") \cup InStatus("RESERVED")
    /\ Becomes(o, "CANCELLED")
    /\ UNCHANGED onHand

Fulfil(o) ==
    /\ o \in InStatus("RESERVED")
    /\ Becomes(o, "FULFILLED")
    /\ onHand' = [s \in Shelf |-> onHand[s] - orders[o].form[s]]

Next ==
    \E o \in Order :
      \/ \E form \in Forms, status \in {"DRAFT", "RESERVED"} :
           Place(o, form, status)
      \/ Reserve(o)
      \/ Cancel(o)
      \/ Fulfil(o)

Spec == Init /\ [][Next]_<<onHand, orders>>
=============================================================================
