-------------------------- MODULE OrdersRefinement --------------------------
(***************************************************************************)
(* OrdersService implements OrderBook: seen through what is committed, the *)
(* statements of concurrent transactions add up to operations that happen  *)
(* at one instant.                                                         *)
(***************************************************************************)
EXTENDS OrdersService

Shelf == Item \X Location

\* The tables are finite, and so the sums over them are; a row that is not
\* there is nothing the book has an order for.
ASSUME OrderBookAssumption ==
    /\ IsFiniteSet(Batch) /\ IsFiniteSet(Order)
    /\ Absent \notin [status : OrderStatus, form : [Shelf -> Int]]

\* What the lines of an order ask of each shelf.
DemandOf(lines) ==
    [s \in Shelf |->
       MapThenSumSet(LAMBDA l : lines[l].quantity,
                     {l \in DOMAIN lines : <<lines[l].item, lines[l].location>> = s})]

\* The stock of each shelf, over its batches, in one version of the rows.
OnHand(version) ==
    [s \in Shelf |-> MapThenSumSet(LAMBDA b : Quantities(version[b]).physicalQty,
                                   BucketsOf(s[1], s[2]))]

OrderSeen(order) ==
    IF order = Absent THEN Absent
    ELSE [status |-> order.status, form |-> DemandOf(order.lines)]

Promise == INSTANCE OrderBook WITH
    Forms <- {DemandOf(form) : form \in OrderForms},
    InitialOnHand <- OnHand(InitialStock),
    NoOrder <- Absent,
    onHand <- OnHand(committed),
    orders <- [o \in Order |-> OrderSeen(committed[o])]

\* Whatever runs in between, every committed operation on an order is one
\* that could have been decided and done at the instant of its commit: it
\* reserved only what was free then, and shipped only what it had reserved.
OperationsAreAtomic == Promise!Spec
=============================================================================
