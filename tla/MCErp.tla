-------------------------------- MODULE MCErp --------------------------------
(* Instances of the whole backend for TLC.                                 *)
EXTENDS Erp, TLC

MCItemOf == [d \in Batch |-> "widget"]
MCCodeOf == <<>>
MCFefoRank == [d \in Batch |-> d]
MCUuidRank == [b \in Bucket |-> (IF b[2] = "main" THEN 10 ELSE 20) - b[1]]

\* Three widgets of two batches in the main store, none at the site.
MCInitialStock ==
    [b \in Bucket |->
       IF b[2] = "main" THEN [physicalQty |-> IF b[1] = 1 THEN 1 ELSE 2,
                              reservedQty |-> 0]
                        ELSE Absent]

MCOrderForms ==
    {<<[item |-> "widget", location |-> "main", quantity |-> 2]>>}
MCWorkOrderForms ==
    {[item |-> "widget", location |-> "main", requiredQty |-> 2]}
MCTransferForms ==
    {[batch |-> 2, source |-> "main", destination |-> "site", quantity |-> 2]}
=============================================================================
