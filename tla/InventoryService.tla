-------------------------- MODULE InventoryService --------------------------
(***************************************************************************)
(* Stock receipts and manual adjustments                                   *)
(* (src/backend/src/inventory/inventory.service.ts).                       *)
(*                                                                         *)
(* Two receipts may name the same new batch or the same new bucket, or     *)
(* carry the same reference; the unique indexes of PostgreSQL decide       *)
(* between them.                                                           *)
(***************************************************************************)
EXTENDS StockService

CONSTANTS
    Reference,      \* delivery references that make a receipt idempotent
    Quantity,       \* quantities that receipts and adjustments carry
    NewBatch,       \* ids that the rows of new batches get
    CodeOf,         \* the item and the code that such a row is inserted with
    MaxUnkeyed      \* bound: ledger rows without an idempotency key

ASSUME InventoryAssumption ==
    /\ Quantity \subseteq Nat \ {0}
    /\ Reference \subseteq Document
    /\ NewBatch \subseteq Batch \cap Document
    /\ Reference \cap NewBatch = {}
    /\ DOMAIN CodeOf = NewBatch
    /\ \A b \in NewBatch \X Location : InitialStock[b] = Absent
    /\ MaxUnkeyed \in Nat
    /\ IsFiniteSet(Txn)        \* the connection pool is

\* In the tx record of a receipt or an adjustment, todo holds the bucket,
\* remaining the quantity and doc the reference.
BucketOf(t) == CHOOSE b \in Bucket : b \in tx[t].todo

\* A NULL idempotency key never collides; the row's own id tells it apart.
UnkeyedRows ==
    {n \in 1 .. MaxUnkeyed :
       \E e \in ledger \cup UNION {pending[t] : t \in Txn} :
         e.idempotencyKey = <<"NULL", n>>}

FreshKey == <<"NULL", Min((1 .. MaxUnkeyed) \ UnkeyedRows)>>

\* The receipts that are going to need one.
Unbooked == {t \in Txn : /\ tx[t].op = "receipt" /\ tx[t].doc = None
                          /\ tx[t].step # "commit"}

KeysLeft == Cardinality(UnkeyedRows) + Cardinality(Unbooked) < MaxUnkeyed

\* Mutant: the index on the idempotency key is not unique.
BookedNever(key, entries) == FALSE

Booked(key, entries) == \E e \in entries : e.idempotencyKey = key

Begin(t, op, step, b, quantity, reference) ==
    /\ IsIdle(t)
    /\ tx' = [tx EXCEPT ![t] = [Idle EXCEPT !.op = op, !.step = step,
                                            !.doc = reference,
                                            !.remaining = quantity,
                                            !.todo = {b}]]

\* The batches row of an id exists; those of other ids always have.
BatchExists(d) == d \in NewBatch => committed[d] # Absent

\* POST /inventory/receipt for a batch that is there, by its id or its code.
BeginReceipt(t, b, quantity, reference) ==
    /\ BatchExists(b[1])
    /\ reference = None => KeysLeft
    /\ Begin(t, "receipt", "seek", b, quantity, reference)
    /\ UNCHANGED <<rows, ledger, pending>>

SameCode(d) == {c \in NewBatch : CodeOf[c] = CodeOf[d]}

\* The same with a code that the SELECT of resolveBatch does not find; d is the
\* id that the new batch will have.
BeginNewBatch(t, d, location, quantity, reference) ==
    /\ \A c \in SameCode(d) : ~BatchExists(c)
    /\ working[d] = Absent
    /\ \A u \in Txn : <<d, location>> \notin tx[u].todo
    /\ reference = None => KeysLeft
    /\ Begin(t, "receipt", "find", <<d, location>>, quantity, reference)
    /\ UNCHANGED <<rows, ledger, pending>>

\* Mutant: there is no UQ_batch_item_code.
InsertBatchUnchecked(t) ==
    LET d == BucketOf(t)[1]
    IN  /\ tx[t].step = "find"
        /\ holder' = [holder EXCEPT ![d] = t]
        /\ working' = [working EXCEPT ![d] = CodeOf[d]]
        /\ tx' = [tx EXCEPT ![t].step = "seek"]
        /\ UNCHANGED <<committed, ledger, pending>>

\* INSERT of the batch.  It waits while another transaction's insert of the
\* same code is undecided.
InsertBatch(t) ==
    LET d == BucketOf(t)[1]
    IN  /\ tx[t].step = "find"
        /\ \A c \in SameCode(d) : CanLock(t, c) /\ ~BatchExists(c)
        /\ holder' = [holder EXCEPT ![d] = t]
        /\ working' = [working EXCEPT ![d] = CodeOf[d]]
        /\ tx' = [tx EXCEPT ![t].step = "seek"]
        /\ UNCHANGED <<committed, ledger, pending>>

\* The other insert was committed: 23505, which ends the request with a 409.
\* Sent again, it finds the batch.
InsertBatchRaced(t) ==
    /\ tx[t].step = "find"
    /\ \E c \in SameCode(BucketOf(t)[1]) : BatchExists(c)
    /\ Rollback(t)

\* The end of receive: one movement, under the reference if there is one.
BookReceipt(t) ==
    LET b == BucketOf(t)
        key == IF tx[t].doc = None THEN FreshKey ELSE <<"RECEIPT", tx[t].doc>>
    IN  /\ tx[t].step = "book"
        /\ ~Booked(key, ledger)
        /\ \A u \in Txn : ~Booked(key, pending[u])
        /\ working' = [working EXCEPT ![b] = Moved(@, tx[t].remaining, 0)]
        /\ Book(t, key, b, tx[t].remaining, 0, None)
        /\ tx' = [tx EXCEPT ![t].step = "commit"]
        /\ UNCHANGED <<committed, holder, ledger>>

\* The reference has been booked: 409, and a bucket just created goes too.
RefuseReceipt(t) ==
    /\ tx[t].step = "book"
    /\ tx[t].doc # None
    /\ Booked(<<"RECEIPT", tx[t].doc>>, ledger)
    /\ Rollback(t)

\* POST /inventory/adjustment: a correction never takes a reserved unit.
Adjust(t, b, delta) ==
    /\ Begin(t, "adjustment", "commit", b, delta, None)
    /\ CanLock(t, b)
    /\ committed[b] # Absent
    /\ delta < 0 => -delta <= AvailableQty(committed[b])
    /\ KeysLeft
    /\ holder' = [holder EXCEPT ![b] = t]
    /\ working' = [working EXCEPT ![b] = Moved(@, delta, 0)]
    /\ Book(t, FreshKey, b, delta, 0, None)
    /\ UNCHANGED <<committed, ledger>>

-----------------------------------------------------------------------------
InventoryRequest(t) ==
    \E b \in Bucket, q \in Quantity :
      \/ \E ref \in Reference \cup {None} : BeginReceipt(t, b, q, ref)
      \/ \E ref \in Reference \cup {None} :
           b[1] \in NewBatch /\ BeginNewBatch(t, b[1], b[2], q, ref)
      \/ Adjust(t, b, q)
      \/ Adjust(t, b, -q)

InventoryProgress(t) ==
    \/ /\ tx[t].op = "receipt"
       /\ \/ InsertBatch(t)
          \/ InsertBatchRaced(t)
          \/ SeekBucket(t, BucketOf(t))
          \/ InsertBucket(t, BucketOf(t))
          \/ InsertBucketRaced(t, BucketOf(t))
          \/ BookReceipt(t)
          \/ RefuseReceipt(t)
    \/ /\ tx[t].op \in {"receipt", "adjustment"}
       /\ tx[t].step = "commit"
       /\ Commit(t)

InventoryStep(t) == InventoryRequest(t) \/ InventoryProgress(t)

InventoryNext == \E t \in Txn : InventoryStep(t) \/ Lost(t)

InventorySpec == Init /\ [][InventoryNext]_vars

\* The same without failures of the process or the connection.
UndisturbedInventorySpec == Init /\ [][\E t \in Txn : InventoryStep(t)]_vars

-----------------------------------------------------------------------------
(* Properties.                                                             *)

\* Two callers that both find no bucket: "the unique constraint lets exactly
\* one win and the loser simply re-reads the row the winner created"
\* (stock.service.ts:88).
LoserReReads ==
    [][\A t \in Txn : tx[t].step = "insert" => tx'[t].step # "idle"]_vars

\* A code names at most one batch of an item, and a batch that a receipt has
\* created comes with its goods: whichever receipts of the code race, fail on
\* their bucket or their reference, or are lost, none leaves a second batch or
\* an empty one behind for others to pick.
CodesNameStock ==
    \A d \in {c \in NewBatch : committed[c] # Absent} :
      /\ \A c \in SameCode(d) : BatchExists(c) => c = d
      /\ \E e \in ledger : e.inventoryId[1] = d /\ e.physicalDelta > 0
=============================================================================
