-------------------------- MODULE MCMaterialReport ---------------------------
(* An instance of MaterialReport for TLC.                                  *)
EXTENDS MaterialReport, TLC

MCItemOf == [d \in Batch |-> "steel"]
MCFefoRank == [d \in Batch |-> d]
MCUuidRank == [b \in Bucket |-> b[1] + (IF b[2] = "main" THEN 0 ELSE 10)]

\* One unit of each batch at either place.
MCInitialStock == [b \in Bucket |-> [physicalQty |-> 1, reservedQty |-> 0]]

MCWorkOrderForms == {[item |-> "steel", location |-> "main", requiredQty |-> q] :
                       q \in 1 .. 2}
=============================================================================
