---------------------------- MODULE MCTransfers ----------------------------
(* Instances of TransfersService and its refinement of TransitBook for TLC.*)
EXTENDS TransfersRefinement, TLC

MCItemOf == [d \in Batch |-> "widget"]
MCFefoRank == [d \in Batch |-> d]
MCUuidRank == [b \in Bucket |-> IF b[2] = "main" THEN 1 ELSE 2]

\* Three units in the main store; the site has never held the batch.
MCInitialStock ==
    [b \in Bucket |-> IF b[2] = "main"
                      THEN [physicalQty |-> 3, reservedQty |-> 0]
                      ELSE Absent]

Move(from, to, q) ==
    [batch |-> 1, source |-> from, destination |-> to, quantity |-> q]

\* Two transfers to the site ask for more than there is; what has arrived
\* may be sent back.
MCTransferForms ==
    {Move("main", "site", 1), Move("main", "site", 2), Move("site", "main", 2)}

Symmetric == Permutations(Txn) \cup Permutations(Transfer)
=============================================================================
