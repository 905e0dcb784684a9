------------------------------ MODULE MCOrders ------------------------------
(* Instances of OrdersService, and of its refinement of OrderBook, for TLC. *)
EXTENDS OrdersRefinement, TLC

\* Batches 1 and 2 are of one item, batch 3 of another, all at one location.
\* Batch 1 expires before batch 2; the uuids of the buckets run the other way.
MCItemOf == [b \in Batch |-> IF b = 3 THEN "gadget" ELSE "widget"]
MCFefoRank == [b \in Batch |-> b]
MCUuidRank == [b \in Bucket |-> 9 - b[1]]
MCInitialStock ==
    [b \in Bucket |-> [physicalQty |-> IF b[1] = 2 THEN 2 ELSE 1,
                       reservedQty |-> 0]]

WidgetLine(q) == [item |-> "widget", location |-> "main", quantity |-> q]
GadgetLine == [item |-> "gadget", location |-> "main", quantity |-> 1]

\* One line that one bucket may cover, and one that needs two of them.
SingleLines == {<<WidgetLine(1)>>, <<WidgetLine(2)>>}
\* The ids of the lines, which order them, are random uuids.
TwoItems == {<<WidgetLine(2), GadgetLine>>, <<GadgetLine, WidgetLine(2)>>}
Mixed == SingleLines \cup TwoItems

Symmetric == Permutations(Txn) \cup Permutations(Order)
=============================================================================
