----------------------------- MODULE MCInventory -----------------------------
(* Instances of InventoryService and its refinement of DeliveryBook for TLC.*)
EXTENDS InventoryRefinement, TLC

CONSTANTS n2, n3, n4    \* batches besides batch 1

MCItemOf == [d \in Batch |-> "widget"]
MCRank(d) == IF d = 1 THEN 1 ELSE IF d = n2 THEN 2 ELSE IF d = n3 THEN 3 ELSE 4
MCFefoRank == [d \in Batch |-> MCRank(d)]
MCUuidRank == [b \in Bucket |-> MCRank(b[1])]

\* Two receipts of a new batch may get two ids for it.
MCCodeOf == [d \in NewBatch |-> "B-2026-04"]

\* Batch 1 is in stock; nobody has held the others yet.
MCInitialStock ==
    [b \in Bucket |-> IF b[1] = 1 THEN [physicalQty |-> 2, reservedQty |-> 0]
                                  ELSE Absent]

Symmetric == Permutations(Txn)
=============================================================================
