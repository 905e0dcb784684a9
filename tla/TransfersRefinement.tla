------------------------ MODULE TransfersRefinement -------------------------
(***************************************************************************)
(* TransfersService implements TransitBook: whatever transactions run at   *)
(* the same time, what they commit is a sequence of departures and         *)
(* arrivals that each happen at one instant.                               *)
(***************************************************************************)
EXTENDS TransfersService

Route(transfer) ==
    [from |-> Source(transfer), to |-> Destination(transfer),
     quantity |-> transfer.quantity]

\* A bucket that has not been created yet is a place with nothing in it.
Stocked(version) ==
    [b \in Bucket |-> Quantities(version[b]).physicalQty]

TransferSeen(transfer) ==
    IF transfer = Absent THEN Absent
    ELSE [form |-> Route(transfer), left |-> transfer.status # "REQUESTED",
          arrived |-> transfer.receivedQty]

\* A transfer that was asked for is not one that was not.
ASSUME RaisedAssumption ==
    Absent \notin [form : [from : Bucket, to : Bucket, quantity : Nat],
                   left : BOOLEAN, arrived : Int]

Transit == INSTANCE TransitBook WITH
    Place <- Bucket,
    Forms <- {Route(form) : form \in TransferForms},
    InitialOnHand <- Stocked(InitialStock),
    NotRaised <- Absent,
    onHand <- Stocked(committed),
    transfers <- [x \in Transfer |-> TransferSeen(committed[x])]

\* Every committed dispatch took goods that were there at that instant, and
\* every committed receipt brought goods that had left and not arrived, although
\* stock is read before it is locked, receipts of one transfer compete, the
\* destination's bucket may be created by either of them, and any transaction
\* may fail between its two updates.
TransfersAreAtomic == Transit!Spec
=============================================================================
