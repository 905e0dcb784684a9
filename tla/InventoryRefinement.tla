------------------------ MODULE InventoryRefinement ------------------------
(***************************************************************************)
(* InventoryService implements DeliveryBook: however often a delivery is   *)
(* sent, and wherever an attempt breaks off, it is in stock and its        *)
(* reference is used up, both or neither, and once.                        *)
(***************************************************************************)
EXTENDS InventoryService

\* The rows of the ledger that carry a reference, and the others of a bucket.
Referenced == {e \in ledger : e.idempotencyKey[1] = "RECEIPT"}

Unreferenced(b) ==
    {e \in ledger : e.inventoryId = b /\ e.idempotencyKey[1] = "NULL"}

UnitsIn(entries) == SumOver(entries, LAMBDA e : e.physicalDelta)

\* What the ledger says of a delivery.
DeliverySeen(e) ==
    [reference |-> e.idempotencyKey[2], place |-> e.inventoryId,
     quantity |-> e.physicalDelta]

PhysicalAt(version) ==
    [b \in Bucket |-> Quantities(version[b]).physicalQty]

Deliveries == INSTANCE DeliveryBook WITH
    Place <- Bucket,
    InitialOnHand <- PhysicalAt(InitialStock),
    onHand <- PhysicalAt(committed),
    delivered <- {DeliverySeen(e) : e \in Referenced},
    corrected <- [b \in Bucket |-> UnitsIn(Unreferenced(b))]

\* "Supplying reference makes the receipt idempotent" (docs/api.md:142): every
\* committed receipt and correction is one that happens at one instant.  Goods
\* that came in under a reference do so once, whatever bucket and quantity the
\* same reference is sent with again; a receipt that fails after it has created
\* a batch or a bucket, or booked its movement, brings nothing in and leaves the
\* reference free; a correction counts from the stock there is at its commit.
ReceiptsAreAtomic == Deliveries!Spec
=============================================================================
