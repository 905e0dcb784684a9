-------------------------- MODULE InventoryProofs --------------------------
(***************************************************************************)
(* Proofs about InventoryService, for every number of transactions,        *)
(* buckets, references and new batches.                                    *)
(*                                                                         *)
(* The inductive invariant says of every transaction which rows it holds   *)
(* at each of its statements, what it has made of its bucket and what it   *)
(* has booked (Phase); of the rows of new batches, that two of one code    *)
(* are never there together, committed or not (CodesApart); and of the     *)
(* ledger, that it explains the buckets and holds no movement twice.       *)
(***************************************************************************)
EXTENDS InventoryRefinement, StockProofs

\* The ledger row of a receipt or an adjustment of b by q units.
Movement(key, b, q) ==
    [idempotencyKey |-> key, inventoryId |-> b, physicalDelta |-> q,
     reservedDelta |-> 0, refId |-> None]

-----------------------------------------------------------------------------
(* What a transaction about the bucket b has done at each statement.       *)

\* Besides its bucket, only a receipt holds something: the batch it created.
HoldsBatch(t, b) ==
    \A r \in Holds(t) \ {b} : r = b[1] /\ r \in NewBatch /\ tx[t].remaining > 0

\* About to insert the batch, to look for the bucket, or to create it.
Arriving(t, b) ==
    /\ tx[t].step \in {"find", "seek", "insert"}
    /\ tx[t].step = "find" => Holds(t) = {} /\ b[1] \in NewBatch
    /\ tx[t].remaining > 0 /\ pending[t] = {}
    /\ b \notin Holds(t)

\* The bucket is locked, as it was or just created.
Locked(t, b) ==
    /\ tx[t].step = "book"
    /\ tx[t].remaining > 0 /\ pending[t] = {}
    /\ b \in Holds(t) /\ working[b] = Quantities(committed[b])

\* The movement is booked.
Moving(t, b) ==
    LET q == tx[t].remaining
    IN  /\ tx[t].step = "commit" /\ b \in Holds(t)
        /\ committed[b] = Absent => q > 0
        /\ -q <= AvailableQty(committed[b])
        /\ working[b] = Moved(Quantities(committed[b]), q, 0)
        /\ \E key : pending[t] = {Movement(key, b, q)}

Resting(t) == IsIdle(t) /\ Holds(t) = {} /\ pending[t] = {}

Phase(t) ==
    \/ Resting(t)
    \/ \E b \in Bucket :
         /\ tx[t].todo = {b}
         /\ HoldsBatch(t, b)
         /\ Arriving(t, b) \/ Locked(t, b) \/ Moving(t, b)

\* While somebody creates a batch, no other batch of its code is there, or is
\* being created.
CodesApart ==
    \A d \in NewBatch :
      holder[d] # None =>
        /\ committed[d] = Absent
        /\ \A c \in SameCode(d) \ {d} : holder[c] = None /\ committed[c] = Absent

InventoryInv ==
    /\ StockTypeOK
    /\ Unlocked
    /\ \A t \in Txn : Phase(t)
    /\ \A b \in Bucket : WithinStock(committed[b])
    /\ CodesApart
    /\ CodesNameStock
    /\ LedgerInv
    /\ KeysUnique

-----------------------------------------------------------------------------
\* The rows of buckets and of batches are different rows.
LEMMA InventoryRows ==
  /\ \A b \in Bucket : b \in Row /\ b \notin NewBatch
  /\ \A d \in NewBatch : d \in Row /\ d \notin Bucket /\ d \in Document
  BY StockAssumption, InventoryAssumption DEF Row

\* Nothing has happened at the start.
LEMMA InitInventory == Init => InventoryInv
  <1> SUFFICES ASSUME Init PROVE InventoryInv
    OBVIOUS
  <1> USE StockAssumption
  <1>1. Idle \in TxRow
    BY DEF Idle, TxRow
  <1>2. StockTypeOK
    <2>1. \A b \in Bucket : committed[b] \in BucketRow \cup {Absent}
      BY DEF Init, Row, BucketRow
    <2> QED
      BY <1>1, <2>1 DEF Init, StockTypeOK
  <1>3. Unlocked
    BY DEF Init, Unlocked
  <1>4. \A t \in Txn : Phase(t)
    BY DEF Init, Phase, Resting, Holds, IsIdle, Idle
  <1>5. \A b \in Bucket : WithinStock(committed[b])
    <2>1. ASSUME NEW b \in Bucket
          PROVE  WithinStock(InitialStock[b])
      BY InitialQuantities DEF WithinStock
    <2> QED
      BY <2>1, InventoryRows DEF Init
  <1>6. \A d \in NewBatch : holder[d] = None /\ committed[d] = Absent
    BY InventoryRows DEF Init
  <1>7. CodesApart /\ CodesNameStock
    BY <1>6 DEF CodesApart, CodesNameStock
  <1>8. KeysUnique
    BY DEF Init, KeysUnique
  <1> QED
    BY <1>2, <1>3, <1>4, <1>5, <1>7, <1>8, InitLedger DEF InventoryInv

\* What a step leaves alone keeps its phase.
LEMMA OthersKeepPhase ==
  ASSUME InventoryInv, NEW t \in Txn, LeavesAlone(t), NEW u \in Txn \ {t}
  PROVE  Phase(u)'
  <1>1. /\ tx'[u] = tx[u] /\ pending'[u] = pending[u] /\ Holds(u)' = Holds(u)
        /\ \A r \in Holds(u) : /\ working'[r] = working[r]
                               /\ committed'[r] = committed[r]
    BY DEF LeavesAlone
  <1>2. CASE Resting(u)
    BY <1>1, <1>2 DEF Phase, Resting, IsIdle
  <1>3. ASSUME NEW b \in Bucket, tx[u].todo = {b}, HoldsBatch(u, b),
               Arriving(u, b) \/ Locked(u, b) \/ Moving(u, b)
        PROVE  Phase(u)'
    <2>1. HoldsBatch(u, b)'
      BY <1>1, <1>3 DEF HoldsBatch
    <2>2. Arriving(u, b) => Arriving(u, b)'
      BY <1>1 DEF Arriving
    <2>3. Locked(u, b) => Locked(u, b)'
      BY <1>1 DEF Locked
    <2>4. Moving(u, b) => Moving(u, b)'
      BY <1>1 DEF Moving
    <2> QED
      BY <1>1, <1>3, <2>1, <2>2, <2>3, <2>4 DEF Phase
  <1> QED
    BY <1>2, <1>3 DEF InventoryInv, Phase

\* Whoever holds a row is busy.
LEMMA HoldersAreBusy == InventoryInv => LocksOK
  <1> SUFFICES ASSUME InventoryInv, NEW r \in Row
               PROVE  /\ holder[r] = None => working[r] = committed[r]
                      /\ holder[r] # None => ~IsIdle(holder[r])
    BY DEF LocksOK
  <1>1. holder[r] = None => working[r] = committed[r]
    BY DEF InventoryInv, Unlocked
  <1>2. ASSUME NEW t \in Txn, holder[r] = t
        PROVE  ~IsIdle(t)
    <2>1. r \in Holds(t) /\ Phase(t)
      BY <1>2 DEF Holds, InventoryInv
    <2> QED
      BY <2>1 DEF Phase, Resting, Arriving, Locked, Moving, IsIdle
  <1> QED
    BY <1>1, <1>2 DEF InventoryInv, StockTypeOK

\* A statement of t that commits and rolls back nothing keeps the invariant if
\* it disturbs nobody and t comes to a phase.
LEMMA StatementKeeps ==
  ASSUME InventoryInv, NEW t \in Txn, NEW S \in SUBSET Row, Touches(t, S),
         StockTypeOK', Phase(t)', CodesApart', LedgerInv', KeysUnique'
  PROVE  InventoryInv'
  <1>1. LeavesAlone(t) /\ Unlocked'
    BY TouchesAlone DEF InventoryInv
  <1>2. \A u \in Txn : Phase(u)'
    BY <1>1, OthersKeepPhase
  <1>3. UNCHANGED <<committed, ledger>>
    BY DEF Touches
  <1>4. CodesNameStock'
    BY <1>3 DEF InventoryInv, CodesNameStock, BatchExists
  <1> QED
    BY <1>1, <1>2, <1>3, <1>4 DEF InventoryInv

\* A statement that touches no batch keeps the codes apart.
LEMMA CodesKept ==
  ASSUME InventoryInv, NEW t \in Txn, NEW S \in SUBSET Bucket, Touches(t, S)
  PROVE  CodesApart'
  <1>1. \A d \in NewBatch : holder'[d] = holder[d] /\ committed'[d] = committed[d]
    BY InventoryRows DEF Touches
  <1>2. \A d \in NewBatch : SameCode(d) \subseteq NewBatch
    BY DEF SameCode
  <1> QED
    BY <1>1, <1>2 DEF InventoryInv, CodesApart

\* A statement that books nothing leaves the ledger and its keys alone.
LEMMA QuietKeeps ==
  ASSUME InventoryInv, NEW t \in Txn, BooksNothing(t)
  PROVE  LedgerInv' /\ KeysUnique'
  <1>1. LedgerInv'
    BY HoldersAreBusy, NothingBooked DEF InventoryInv
  <1>2. KeysUnique'
    BY DEF BooksNothing, InventoryInv, KeysUnique
  <1> QED
    BY <1>1, <1>2

\* The bucket of a busy transaction.
LEMMA BucketOfIs ==
  ASSUME NEW t \in Txn, NEW b \in Bucket, tx[t].todo = {b}
  PROVE  BucketOf(t) = b
  BY DEF BucketOf

\* What a transaction that is about to begin holds.
LEMMA Begins ==
  ASSUME InventoryInv, NEW t \in Txn, IsIdle(t)
  PROVE  Holds(t) = {} /\ pending[t] = {}
  BY DEF InventoryInv, Phase, IsIdle, Resting, Arriving, Locked, Moving

\* What Begin leaves in the record of its transaction.
LEMMA BeginLeaves ==
  ASSUME StockTypeOK, NEW t \in Txn, NEW b \in Bucket, NEW q \in Int,
         NEW reference \in Reference \cup {None},
         NEW op \in {"receipt", "adjustment"},
         NEW step \in {"find", "seek", "commit"},
         Begin(t, op, step, b, q, reference)
  PROVE  /\ IsIdle(t)
         /\ tx' \in [Txn -> TxRow] /\ \A u \in Txn \ {t} : tx'[u] = tx[u]
         /\ tx'[t].step = step /\ tx'[t].remaining = q /\ tx'[t].todo = {b}
  <1> DEFINE row == [Idle EXCEPT !.op = op, !.step = step, !.doc = reference,
                                 !.remaining = q, !.todo = {b}]
  <1>1. /\ row.op = op /\ row.step = step /\ row.doc = reference /\ row.line = 0
        /\ row.remaining = q /\ row.todo = {b}
        /\ row = [f \in {"op", "step", "doc", "line", "remaining", "todo"} |->
                    row[f]]
    BY DEF Idle
  <1>2. IsIdle(t) /\ tx' = [tx EXCEPT ![t] = row]
    BY DEF Begin
  <1> HIDE DEF row
  <1>3. row \in TxRow
    BY <1>1, InventoryAssumption DEF TxRow
  <1> QED
    BY <1>1, <1>2, <1>3 DEF StockTypeOK

\* The beginning of a receipt.
LEMMA ReceiptBegins ==
  ASSUME InventoryInv, NEW t \in Txn, NEW b \in Bucket, NEW q \in Quantity,
         NEW reference \in Reference \cup {None},
         NEW step \in {"find", "seek"}, step = "find" => b[1] \in NewBatch,
         Begin(t, "receipt", step, b, q, reference),
         UNCHANGED <<rows, ledger, pending>>
  PROVE  InventoryInv'
  <1>1. q \in Int /\ q > 0
    BY InventoryAssumption
  <1>2. StockTypeOK
    BY DEF InventoryInv
  <1>3. /\ IsIdle(t)
        /\ tx' \in [Txn -> TxRow] /\ \A u \in Txn \ {t} : tx'[u] = tx[u]
        /\ tx'[t].step = step /\ tx'[t].remaining = q /\ tx'[t].todo = {b}
    BY <1>1, <1>2, BeginLeaves
  <1>4. UNCHANGED <<committed, working, holder, ledger, pending>>
    BY DEF rows
  <1>5. Touches(t, {})
    BY <1>3, <1>4 DEF Touches
  <1>6. StockTypeOK'
    BY <1>2, <1>3, <1>4 DEF StockTypeOK
  <1>7. Holds(t)' = {} /\ pending'[t] = {}
    BY <1>3, <1>4, Begins DEF Holds
  <1>8. Phase(t)'
    <2>1. HoldsBatch(t, b)' /\ Arriving(t, b)'
      BY <1>1, <1>3, <1>7 DEF HoldsBatch, Arriving
    <2> QED
      BY <1>3, <2>1 DEF Phase
  <1>9. CodesApart'
    BY <1>5, CodesKept
  <1>10. BooksNothing(t)
    BY <1>4 DEF BooksNothing
  <1>11. LedgerInv' /\ KeysUnique'
    BY <1>10, QuietKeeps
  <1> QED
    BY <1>5, <1>6, <1>8, <1>9, <1>11, StatementKeeps

\* A busy transaction that is at a statement before its movement.
LEMMA PhaseAt ==
  ASSUME InventoryInv, NEW t \in Txn, tx[t].step \in {"find", "seek", "insert", "book"}
  PROVE  \E b \in Bucket :
           /\ tx[t].todo = {b} /\ BucketOf(t) = b
           /\ HoldsBatch(t, b)
           /\ tx[t].step # "book" => Arriving(t, b)
           /\ tx[t].step = "book" => Locked(t, b)
  <1>1. PICK b \in Bucket : /\ tx[t].todo = {b}
                            /\ HoldsBatch(t, b)
                            /\ Arriving(t, b) \/ Locked(t, b) \/ Moving(t, b)
    BY DEF InventoryInv, Phase, Resting, IsIdle
  <1>2. /\ tx[t].step # "book" => Arriving(t, b)
        /\ tx[t].step = "book" => Locked(t, b)
    BY <1>1 DEF Arriving, Locked, Moving
  <1> QED
    BY <1>1, <1>2, BucketOfIs

\* A step of a transaction's record.
LEMMA StepOfRecord ==
  ASSUME StockTypeOK, NEW t \in Txn,
         NEW step \in {"seek", "insert", "book", "commit", "sent", "stored"},
         tx' = [tx EXCEPT ![t].step = step]
  PROVE  /\ tx' \in [Txn -> TxRow] /\ \A u \in Txn \ {t} : tx'[u] = tx[u]
         /\ tx'[t].step = step /\ tx'[t].remaining = tx[t].remaining
         /\ tx'[t].todo = tx[t].todo /\ tx'[t].op = tx[t].op
         /\ tx'[t].doc = tx[t].doc
  BY DEF StockTypeOK, TxRow

\* The INSERT of a new batch.
LEMMA InsertBatchKeeps ==
  ASSUME InventoryInv, NEW t \in Txn, InsertBatch(t)
  PROVE  InventoryInv'
  <1>1. PICK b \in Bucket : /\ tx[t].todo = {b} /\ BucketOf(t) = b
                            /\ HoldsBatch(t, b) /\ Arriving(t, b)
    BY PhaseAt DEF InsertBatch
  <1> DEFINE d == b[1]
  <1>2. /\ d \in NewBatch /\ Holds(t) = {} /\ tx[t].remaining > 0 /\ pending[t] = {}
    BY <1>1 DEF Arriving, InsertBatch
  <1>3. /\ \A c \in SameCode(d) : CanLock(t, c) /\ ~BatchExists(c)
        /\ holder' = [holder EXCEPT ![d] = t]
        /\ working' = [working EXCEPT ![d] = CodeOf[d]]
        /\ tx' = [tx EXCEPT ![t].step = "seek"]
        /\ UNCHANGED <<committed, ledger, pending>>
    BY <1>1 DEF InsertBatch
  <1>4. d \in Row /\ d \notin Bucket /\ d \in SameCode(d) /\ SameCode(d) \subseteq NewBatch
    BY <1>2, InventoryRows DEF SameCode
  <1> HIDE DEF d
  <1>5. StockTypeOK
    BY DEF InventoryInv
  <1>6. /\ tx' \in [Txn -> TxRow] /\ \A u \in Txn \ {t} : tx'[u] = tx[u]
        /\ tx'[t].step = "seek" /\ tx'[t].remaining = tx[t].remaining
        /\ tx'[t].todo = {b}
    BY <1>1, <1>3, <1>5, StepOfRecord
  <1>7. Touches(t, {d})
    BY <1>3, <1>4, <1>5, <1>6 DEF Touches, StockTypeOK
  <1>8. StockTypeOK'
    BY <1>3, <1>4, <1>5, <1>6 DEF StockTypeOK
  <1>9. Holds(t)' = {d}
    BY <1>2, <1>4, <1>7, TouchesAlone DEF InventoryInv
  <1>10. Phase(t)'
    <2>1. HoldsBatch(t, b)'
      BY <1>2, <1>6, <1>9 DEF HoldsBatch, d
    <2>2. b # d
      BY <1>4
    <2>3. Arriving(t, b)'
      BY <1>2, <1>3, <1>6, <1>9, <2>2 DEF Arriving
    <2> QED
      BY <1>6, <2>1, <2>3 DEF Phase
  <1>11. \A c \in SameCode(d) : holder[c] = None /\ committed[c] = Absent
    <2>1. \A c \in SameCode(d) : c \notin Holds(t) /\ c \in Row
      BY <1>2, <1>4, InventoryRows
    <2> QED
      BY <1>3, <1>4, <2>1 DEF CanLock, Holds, BatchExists
  <1>12. CodesApart'
    <2> SUFFICES ASSUME NEW c \in NewBatch, holder'[c] # None
                 PROVE  /\ committed'[c] = Absent
                        /\ \A e \in SameCode(c) \ {c} :
                             holder'[e] = None /\ committed'[e] = Absent
      BY DEF CodesApart, SameCode
    <2>1. \A e \in NewBatch : holder'[e] = IF e = d THEN t ELSE holder[e]
      BY <1>7, InventoryRows DEF Touches
    <2>2. CASE c = d
      BY <1>3, <1>4, <1>11, <2>1, <2>2
    <2>3. CASE c # d
      <3>1. /\ holder[c] # None /\ committed[c] = Absent
            /\ \A e \in SameCode(c) \ {c} : holder[e] = None /\ committed[e] = Absent
        BY <2>1, <2>3 DEF InventoryInv, CodesApart
      <3>2. c \notin SameCode(d)
        BY <1>11, <3>1
      <3>3. d \notin SameCode(c)
        BY <1>2, <3>2 DEF SameCode
      <3>4. SameCode(c) \subseteq NewBatch
        BY DEF SameCode
      <3> QED
        BY <1>3, <2>1, <3>1, <3>3, <3>4
    <2> QED
      BY <2>2, <2>3
  <1>13. BooksNothing(t)
    <2>1. \A c \in Bucket : holder'[c] = holder[c] /\ working'[c] = working[c]
      BY <1>3, <1>4, <1>5, InventoryRows DEF StockTypeOK
    <2> QED
      BY <1>3, <2>1 DEF BooksNothing
  <1>14. LedgerInv' /\ KeysUnique'
    BY <1>13, QuietKeeps
  <1> QED
    BY <1>4, <1>7, <1>8, <1>10, <1>12, <1>14, StatementKeeps

\* The SELECT of the bucket.
LEMMA SeekKeeps ==
  ASSUME InventoryInv, NEW t \in Txn, SeekBucket(t, BucketOf(t))
  PROVE  InventoryInv'
  <1>1. tx[t].step = "seek"
    BY DEF SeekBucket
  <1>2. PICK b \in Bucket : /\ tx[t].todo = {b} /\ BucketOf(t) = b
                            /\ HoldsBatch(t, b) /\ Arriving(t, b)
    BY <1>1, PhaseAt
  <1>3. tx[t].remaining > 0 /\ pending[t] = {} /\ b \notin Holds(t)
    BY <1>2 DEF Arriving
  <1>4. UNCHANGED <<committed, working, ledger, pending>>
    BY DEF SeekBucket
  <1>5. StockTypeOK /\ b \in Row
    BY InventoryRows DEF InventoryInv
  <1>6. CASE View(t, b) = Absent
    <2>1. tx' = [tx EXCEPT ![t].step = "insert"] /\ UNCHANGED holder
      BY <1>2, <1>6 DEF SeekBucket
    <2>2. /\ tx' \in [Txn -> TxRow] /\ \A u \in Txn \ {t} : tx'[u] = tx[u]
          /\ tx'[t].step = "insert" /\ tx'[t].remaining = tx[t].remaining
          /\ tx'[t].todo = {b}
      BY <1>2, <1>5, <2>1, StepOfRecord
    <2>3. Touches(t, {})
      BY <1>4, <2>1, <2>2 DEF Touches
    <2>4. StockTypeOK'
      BY <1>4, <1>5, <2>1, <2>2 DEF StockTypeOK
    <2>5. Holds(t)' = Holds(t)
      BY <2>1 DEF Holds
    <2>6. HoldsBatch(t, b)' /\ Arriving(t, b)'
      BY <1>2, <1>4, <2>2, <2>5 DEF HoldsBatch, Arriving
    <2>7. Phase(t)'
      BY <2>2, <2>6 DEF Phase
    <2>8. CodesApart'
      BY <2>3, CodesKept
    <2>9. BooksNothing(t)
      BY <1>4, <2>1 DEF BooksNothing
    <2>10. LedgerInv' /\ KeysUnique'
      BY <2>9, QuietKeeps
    <2> QED
      BY <2>3, <2>4, <2>7, <2>8, <2>10, StatementKeeps
  <1>7. CASE View(t, b) # Absent
    <2>1. /\ tx' = [tx EXCEPT ![t].step = "book"]
          /\ CanLock(t, b) /\ holder' = [holder EXCEPT ![b] = t]
      BY <1>2, <1>7 DEF SeekBucket
    <2>2. /\ tx' \in [Txn -> TxRow] /\ \A u \in Txn \ {t} : tx'[u] = tx[u]
          /\ tx'[t].step = "book" /\ tx'[t].remaining = tx[t].remaining
          /\ tx'[t].todo = {b}
      BY <1>2, <1>5, <2>1, StepOfRecord
    <2>3. Touches(t, {b})
      BY <1>4, <1>5, <2>1, <2>2 DEF Touches, StockTypeOK
    <2>4. StockTypeOK'
      BY <1>4, <1>5, <2>1, <2>2 DEF StockTypeOK
    <2>5. Holds(t)' = Holds(t) \cup {b}
      BY <1>5, <2>3, TouchesAlone DEF InventoryInv
    <2>6. holder[b] = None /\ committed[b] # Absent /\ working[b] = committed[b]
      BY <1>3, <1>5, <1>7, <2>1 DEF CanLock, Holds, View, InventoryInv, Unlocked
    <2>7. HoldsBatch(t, b)'
      BY <1>2, <2>2, <2>5 DEF HoldsBatch
    <2>8. Locked(t, b)'
      BY <1>3, <1>4, <2>2, <2>5, <2>6 DEF Locked, Quantities
    <2>9. Phase(t)'
      BY <2>2, <2>7, <2>8 DEF Phase
    <2>10. CodesApart'
      BY <2>3, CodesKept
    <2>11. BooksNothing(t)
      BY <1>4, <1>5, <2>1, <2>6 DEF BooksNothing, StockTypeOK
    <2>12. LedgerInv' /\ KeysUnique'
      BY <2>11, QuietKeeps
    <2> QED
      BY <1>5, <2>3, <2>4, <2>9, <2>10, <2>12, StatementKeeps
  <1> QED
    BY <1>6, <1>7

\* The INSERT of a bucket.
LEMMA InsertBucketKeeps ==
  ASSUME InventoryInv, NEW t \in Txn, InsertBucket(t, BucketOf(t))
  PROVE  InventoryInv'
  <1>1. tx[t].step = "insert"
    BY DEF InsertBucket
  <1>2. PICK b \in Bucket : /\ tx[t].todo = {b} /\ BucketOf(t) = b
                            /\ HoldsBatch(t, b) /\ Arriving(t, b)
    BY <1>1, PhaseAt
  <1>3. tx[t].remaining > 0 /\ pending[t] = {} /\ b \notin Holds(t)
    BY <1>2 DEF Arriving
  <1>4. /\ CanLock(t, b) /\ working[b] = Absent
        /\ holder' = [holder EXCEPT ![b] = t]
        /\ working' = [working EXCEPT ![b] = EmptyBucket]
        /\ tx' = [tx EXCEPT ![t].step = "book"]
        /\ UNCHANGED <<committed, ledger, pending>>
    BY <1>2 DEF InsertBucket
  <1>5. StockTypeOK /\ b \in Row
    BY InventoryRows DEF InventoryInv
  <1>6. /\ tx' \in [Txn -> TxRow] /\ \A u \in Txn \ {t} : tx'[u] = tx[u]
        /\ tx'[t].step = "book" /\ tx'[t].remaining = tx[t].remaining
        /\ tx'[t].todo = {b}
    BY <1>2, <1>4, <1>5, StepOfRecord
  <1>7. /\ EmptyBucket \in BucketRow /\ EmptyBucket # Absent
        /\ Quantities(Absent) = EmptyBucket /\ Quantities(EmptyBucket) = EmptyBucket
    BY StockAssumption DEF EmptyBucket, BucketRow, Quantities
  <1>8. Touches(t, {b})
    BY <1>4, <1>5, <1>6 DEF Touches, StockTypeOK
  <1>9. StockTypeOK'
    BY <1>4, <1>5, <1>6, <1>7 DEF StockTypeOK
  <1>10. Holds(t)' = Holds(t) \cup {b}
    BY <1>5, <1>8, TouchesAlone DEF InventoryInv
  <1>11. holder[b] = None /\ committed[b] = Absent
    BY <1>3, <1>4, <1>5 DEF CanLock, Holds, InventoryInv, Unlocked
  <1>12. working'[b] = EmptyBucket
    BY <1>4, <1>5 DEF StockTypeOK
  <1>13. Phase(t)'
    <2>1. HoldsBatch(t, b)'
      BY <1>2, <1>6, <1>10 DEF HoldsBatch
    <2>2. Locked(t, b)'
      BY <1>3, <1>4, <1>6, <1>7, <1>10, <1>11, <1>12 DEF Locked
    <2> QED
      BY <1>6, <2>1, <2>2 DEF Phase
  <1>14. CodesApart'
    BY <1>8, CodesKept
  <1>15. BooksNothing(t)
    BY <1>4, <1>5, <1>7, <1>11, <1>12 DEF BooksNothing, StockTypeOK
  <1>16. LedgerInv' /\ KeysUnique'
    BY <1>15, QuietKeeps
  <1> QED
    BY <1>5, <1>8, <1>9, <1>13, <1>14, <1>16, StatementKeeps

\* A movement under a key that nobody has used: the ledger goes on explaining
\* the stock, and no key is there twice.
LEMMA NewMovement ==
  ASSUME InventoryInv, NEW t \in Txn, NEW b \in Bucket, NEW q \in Int, NEW key,
         BooksMovement(t, key, b, q, 0, None),
         ~Booked(key, ledger), \A u \in Txn : ~Booked(key, pending[u])
  PROVE  /\ LedgerInv' /\ KeysUnique'
         /\ pending'[t] = pending[t] \cup {Movement(key, b, q)}
         /\ \A u \in Txn \ {t} : pending'[u] = pending[u]
  <1>1. \A e \in ledger \cup pending[t] : e.idempotencyKey # key
    BY DEF Booked
  <1>2. LedgerInv'
    BY <1>1, HoldersAreBusy, MovementBooked DEF InventoryInv
  <1>3. PICK new : new = Movement(key, b, q)
    OBVIOUS
  <1>4. pending' = [pending EXCEPT ![t] = @ \cup {new}]
    BY <1>3 DEF BooksMovement, Book, Movement
  <1>5. /\ pending'[t] = pending[t] \cup {new}
        /\ \A u \in Txn \ {t} : pending'[u] = pending[u]
    BY <1>4 DEF InventoryInv, StockTypeOK
  <1>6. new.idempotencyKey = key
    BY <1>3 DEF Movement
  <1>7. ledger' = ledger
    BY DEF BooksMovement
  <1>8. /\ \A e \in ledger : e.idempotencyKey # key
        /\ \A u \in Txn : \A e \in pending[u] : e.idempotencyKey # key
    BY DEF Booked
  <1>9. KeysUnique'
    <2>1. \A d, e \in ledger' : d.idempotencyKey = e.idempotencyKey => d = e
      BY <1>7 DEF InventoryInv, KeysUnique
    <2>2. ASSUME NEW u \in Txn, NEW v \in Txn,
                 NEW d \in pending'[u], NEW e \in ledger' \cup pending'[v],
                 d.idempotencyKey = e.idempotencyKey
          PROVE  u = v /\ d = e /\ e \notin ledger'
      <3>1. CASE d = new /\ e = new
        <4>1. new \notin ledger /\ \A w \in Txn : new \notin pending[w]
          BY <1>6, <1>8
        <4>2. u = t /\ v = t
          BY <1>5, <1>7, <2>2, <3>1, <4>1
        <4> QED
          BY <1>7, <3>1, <4>1, <4>2
      <3>2. CASE d = new /\ e # new
        <4>1. e \in ledger \cup pending[v]
          BY <1>5, <1>7, <2>2, <3>2
        <4> QED
          BY <1>6, <1>8, <2>2, <3>2, <4>1
      <3>3. CASE d # new /\ e = new
        <4>1. d \in pending[u]
          BY <1>5, <2>2, <3>3
        <4> QED
          BY <1>6, <1>8, <2>2, <3>3, <4>1
      <3>4. CASE d # new /\ e # new
        <4>1. d \in pending[u] /\ e \in ledger \cup pending[v]
          BY <1>5, <1>7, <2>2, <3>4
        <4> QED
          BY <1>7, <2>2, <4>1 DEF InventoryInv, KeysUnique
      <3> QED
        BY <3>1, <3>2, <3>3, <3>4
    <2> QED
      BY <2>1, <2>2 DEF KeysUnique
  <1> QED
    BY <1>2, <1>3, <1>5, <1>9

\* There is a number left for a row without an idempotency key.
LEMMA FreshKeyIsNew ==
  ASSUME KeysLeft
  PROVE  ~Booked(FreshKey, ledger) /\ \A u \in Txn : ~Booked(FreshKey, pending[u])
  <1>0. MaxUnkeyed \in Nat /\ IsFiniteSet(Txn)
    BY InventoryAssumption
  <1>1. /\ IsFiniteSet(1 .. MaxUnkeyed) /\ Cardinality(1 .. MaxUnkeyed) = MaxUnkeyed
        /\ UnkeyedRows \subseteq 1 .. MaxUnkeyed
    <2>1. /\ IsFiniteSet(1 .. MaxUnkeyed)
          /\ Cardinality(1 .. MaxUnkeyed) = IF 1 <= MaxUnkeyed THEN MaxUnkeyed - 1 + 1
                                            ELSE 0
      BY <1>0, FS_Interval
    <2>2. Cardinality(1 .. MaxUnkeyed) = MaxUnkeyed
      BY <1>0, <2>1
    <2> QED
      BY <2>1, <2>2 DEF UnkeyedRows
  <1>2. Cardinality(Unbooked) \in Nat
    <2>1. Unbooked \subseteq Txn
      BY DEF Unbooked
    <2> QED
      BY <1>0, <2>1, FS_Subset, FS_CardinalityType
  <1>3. Cardinality(UnkeyedRows) \in Nat
    BY <1>1, FS_Subset, FS_CardinalityType
  <1>4. UnkeyedRows # 1 .. MaxUnkeyed
    <2>1. Cardinality(UnkeyedRows) < MaxUnkeyed
      BY <1>0, <1>2, <1>3 DEF KeysLeft
    <2> QED
      BY <1>0, <1>1, <2>1
  <1> DEFINE Free == (1 .. MaxUnkeyed) \ UnkeyedRows
  <1>5. Free # {} /\ Free \in SUBSET Nat
    <2>1. 1 .. MaxUnkeyed \subseteq Nat
      BY <1>0
    <2> QED
      BY <1>1, <1>4, <2>1
  <1>6. PICK n \in Free : FreshKey = <<"NULL", n>>
    <2>1. Min(Free) \in Free
      <3> HIDE DEF Free
      <3> QED
        BY <1>5, MinIsLeast
    <2> QED
      BY <2>1 DEF FreshKey
  <1>7. \A e \in ledger \cup UNION {pending[u] : u \in Txn} :
          e.idempotencyKey # <<"NULL", n>>
    BY DEF UnkeyedRows
  <1> QED
    BY <1>6, <1>7 DEF Booked

\* The end of a receipt.
LEMMA BookReceiptKeeps ==
  ASSUME InventoryInv, NEW t \in Txn, BookReceipt(t)
  PROVE  InventoryInv'
  <1>1. tx[t].step = "book"
    BY DEF BookReceipt
  <1>2. PICK b \in Bucket : /\ tx[t].todo = {b} /\ BucketOf(t) = b
                            /\ HoldsBatch(t, b) /\ Locked(t, b)
    BY <1>1, PhaseAt
  <1>3. PICK q : q = tx[t].remaining
    OBVIOUS
  <1>4. PICK key : key = IF tx[t].doc = None THEN FreshKey
                         ELSE <<"RECEIPT", tx[t].doc>>
    OBVIOUS
  <1>5. /\ ~Booked(key, ledger) /\ \A u \in Txn : ~Booked(key, pending[u])
        /\ working' = [working EXCEPT ![b] = Moved(@, q, 0)]
        /\ Book(t, key, b, q, 0, None)
        /\ tx' = [tx EXCEPT ![t].step = "commit"]
        /\ UNCHANGED <<committed, holder, ledger>>
    BY <1>2, <1>3, <1>4 DEF BookReceipt
  <1>6. StockTypeOK /\ b \in Row
    BY InventoryRows DEF InventoryInv
  <1>7. /\ q \in Int /\ q > 0 /\ pending[t] = {}
        /\ b \in Holds(t) /\ working[b] = Quantities(committed[b])
    BY <1>2, <1>3, <1>6 DEF Locked, StockTypeOK, TxRow
  <1>8. /\ tx' \in [Txn -> TxRow] /\ \A u \in Txn \ {t} : tx'[u] = tx[u]
        /\ tx'[t].step = "commit" /\ tx'[t].remaining = q
        /\ tx'[t].todo = {b}
    BY <1>2, <1>3, <1>5, <1>6, StepOfRecord
  <1>9. /\ committed[b] \in BucketRow \cup {Absent}
        /\ working[b] \in BucketRow /\ working[b] # Absent
    BY <1>6, <1>7, QuantitiesType, StockAssumption DEF StockTypeOK
  <1>10. /\ working'[b] = Moved(working[b], q, 0)
         /\ \A r \in Row \ {b} : working'[r] = working[r]
         /\ DOMAIN working' = Row
    BY <1>5, <1>6 DEF StockTypeOK
  <1>11. Moved(working[b], q, 0) \in BucketRow
    BY <1>7, <1>9 DEF Moved, BucketRow
  <1>12. BooksMovement(t, key, b, q, 0, None)
    <2>1. CanLock(t, b) /\ holder'[b] = t
      BY <1>5, <1>7 DEF CanLock, Holds
    <2> QED
      BY <1>5, <1>9, <1>10, <2>1, InventoryRows DEF BooksMovement
  <1>13. /\ LedgerInv' /\ KeysUnique' /\ pending'[t] = {Movement(key, b, q)}
         /\ \A u \in Txn \ {t} : pending'[u] = pending[u]
    BY <1>5, <1>7, <1>12, NewMovement
  <1>14. Touches(t, {})
    BY <1>5, <1>7, <1>8, <1>10, <1>13 DEF Touches
  <1>15. DOMAIN pending' = Txn
    BY <1>5, <1>6 DEF Book, StockTypeOK
  <1>16. StockTypeOK'
    BY <1>5, <1>6, <1>8, <1>10, <1>11, <1>15, InventoryRows DEF StockTypeOK
  <1>17. Holds(t)' = Holds(t)
    BY <1>5 DEF Holds
  <1>18. Phase(t)'
    <2>1. HoldsBatch(t, b)'
      BY <1>2, <1>3, <1>8, <1>17 DEF HoldsBatch
    <2>2. -q <= AvailableQty(committed[b])
      <3>1. WithinStock(committed[b]) /\ Quantities(committed[b]) \in BucketRow
        BY <1>9, QuantitiesType DEF InventoryInv
      <3> QED
        BY <1>7, <3>1 DEF WithinStock, AvailableQty, BucketRow
    <2>3. working'[b] = Moved(Quantities(committed[b]), q, 0)
      BY <1>7, <1>10
    <2>4. Moving(t, b)'
      BY <1>5, <1>7, <1>8, <1>13, <1>17, <2>2, <2>3 DEF Moving
    <2> QED
      BY <1>8, <2>1, <2>4 DEF Phase
  <1>19. CodesApart'
    BY <1>14, CodesKept
  <1> QED
    BY <1>13, <1>14, <1>16, <1>18, <1>19, StatementKeeps

\* A manual adjustment.
LEMMA AdjustKeeps ==
  ASSUME InventoryInv, NEW t \in Txn, NEW b \in Bucket, NEW q \in Int, Adjust(t, b, q)
  PROVE  InventoryInv'
  <1>1. /\ Begin(t, "adjustment", "commit", b, q, None)
        /\ CanLock(t, b) /\ committed[b] # Absent
        /\ q < 0 => -q <= AvailableQty(committed[b])
        /\ KeysLeft
        /\ holder' = [holder EXCEPT ![b] = t]
        /\ working' = [working EXCEPT ![b] = Moved(@, q, 0)]
        /\ UNCHANGED <<committed, ledger>>
    BY DEF Adjust
  <1>2. PICK key : key = FreshKey
    OBVIOUS
  <1>3. Book(t, key, b, q, 0, None)
    BY <1>2 DEF Adjust
  <1>4. ~Booked(key, ledger) /\ \A u \in Txn : ~Booked(key, pending[u])
    BY <1>1, <1>2, FreshKeyIsNew
  <1>5. StockTypeOK /\ b \in Row
    BY InventoryRows DEF InventoryInv
  <1>6. /\ IsIdle(t)
        /\ tx' \in [Txn -> TxRow] /\ \A u \in Txn \ {t} : tx'[u] = tx[u]
        /\ tx'[t].step = "commit" /\ tx'[t].remaining = q /\ tx'[t].todo = {b}
    BY <1>1, <1>5, BeginLeaves
  <1>7. Holds(t) = {} /\ pending[t] = {}
    BY <1>6, Begins
  <1>8. working[b] = committed[b]
    BY <1>1, <1>5, <1>7 DEF CanLock, Holds, InventoryInv, Unlocked
  <1>9. /\ working[b] \in BucketRow /\ working[b] # Absent
        /\ Quantities(committed[b]) = working[b]
    BY <1>1, <1>5, <1>8 DEF StockTypeOK, Quantities
  <1>10. /\ working'[b] = Moved(working[b], q, 0)
         /\ \A r \in Row \ {b} : working'[r] = working[r]
         /\ DOMAIN working' = Row
         /\ holder'[b] = t /\ \A r \in Row \ {b} : holder'[r] = holder[r]
         /\ holder' \in [Row -> Txn \cup {None}]
    BY <1>1, <1>5 DEF StockTypeOK
  <1>11. Moved(working[b], q, 0) \in BucketRow
    BY <1>9 DEF Moved, BucketRow
  <1>12. BooksMovement(t, key, b, q, 0, None)
    BY <1>1, <1>3, <1>9, <1>10, InventoryRows DEF BooksMovement
  <1>13. /\ LedgerInv' /\ KeysUnique' /\ pending'[t] = {Movement(key, b, q)}
         /\ \A u \in Txn \ {t} : pending'[u] = pending[u]
    BY <1>4, <1>7, <1>12, NewMovement
  <1>14. Touches(t, {b})
    BY <1>1, <1>5, <1>6, <1>10, <1>13 DEF Touches
  <1>15. DOMAIN pending' = Txn
    BY <1>3, <1>5 DEF Book, StockTypeOK
  <1>16. StockTypeOK'
    BY <1>1, <1>5, <1>6, <1>10, <1>11, <1>15, InventoryRows DEF StockTypeOK
  <1>17. Holds(t)' = {b}
    BY <1>5, <1>7, <1>14, TouchesAlone DEF InventoryInv
  <1>18. Phase(t)'
    <2>1. HoldsBatch(t, b)'
      BY <1>17 DEF HoldsBatch
    <2>2. -q <= AvailableQty(committed[b])
      <3>1. WithinStock(committed[b]) /\ Quantities(committed[b]) \in BucketRow
        BY <1>9 DEF InventoryInv
      <3> QED
        BY <1>1, <3>1 DEF WithinStock, AvailableQty, BucketRow
    <2>3. working'[b] = Moved(Quantities(committed[b]), q, 0)
      BY <1>9, <1>10
    <2>4. Moving(t, b)'
      BY <1>1, <1>6, <1>13, <1>17, <2>2, <2>3 DEF Moving
    <2> QED
      BY <1>6, <2>1, <2>4 DEF Phase
  <1>19. CodesApart'
    BY <1>14, CodesKept
  <1> QED
    BY <1>5, <1>13, <1>14, <1>16, <1>18, <1>19, StatementKeeps

\* A request that fails, in whatever state, leaves no trace.
LEMMA RollbackKeeps ==
  ASSUME InventoryInv, NEW t \in Txn, Rollback(t)
  PROVE  InventoryInv'
  <1>1. /\ StockTypeOK' /\ Unlocked' /\ LeavesAlone(t)
        /\ Holds(t)' = {} /\ pending'[t] = {} /\ tx'[t] = Idle
        /\ UNCHANGED <<committed, ledger>>
    BY RollbackEffect DEF InventoryInv
  <1>2. \A u \in Txn : Phase(u)'
    <2>1. Phase(t)'
      BY <1>1 DEF Phase, Resting, IsIdle, Idle
    <2> QED
      BY <1>1, <2>1, OthersKeepPhase
  <1>3. CodesApart'
    <2>1. \A d \in NewBatch : holder'[d] = IF holder[d] = t THEN None ELSE holder[d]
      BY InventoryRows DEF Rollback, Finish
    <2>2. \A d \in NewBatch : SameCode(d) \subseteq NewBatch
      BY DEF SameCode
    <2> QED
      BY <1>1, <2>1, <2>2 DEF InventoryInv, CodesApart
  <1>4. CodesNameStock' /\ \A b \in Bucket : WithinStock(committed'[b])
    BY <1>1 DEF InventoryInv, CodesNameStock, BatchExists
  <1>5. LedgerInv'
    BY RollbackLedger DEF InventoryInv
  <1>6. KeysUnique'
    <2>1. \A u \in Txn : pending'[u] \subseteq pending[u]
      BY <1>1 DEF LeavesAlone
    <2> QED
      BY <1>1, <2>1 DEF InventoryInv, KeysUnique
  <1> QED
    BY <1>1, <1>2, <1>3, <1>4, <1>5, <1>6 DEF InventoryInv

\* What a movement that is booked makes of its bucket.
LEMMA MovedStock ==
  ASSUME InventoryInv, NEW t \in Txn, NEW b \in Bucket, Moving(t, b)
  PROVE  /\ WithinStock(working[b]) /\ working[b] # Absent
         /\ committed[b] = Absent => working[b].physicalQty > 0
  <1>1. PICK row \in BucketRow : row = Quantities(committed[b])
    BY QuantitiesType DEF InventoryInv, StockTypeOK
  <1>2. PICK q \in Int : q = tx[t].remaining
    BY DEF InventoryInv, StockTypeOK, TxRow
  <1>3. /\ 0 <= row.reservedQty /\ row.reservedQty <= row.physicalQty
        /\ -q <= row.physicalQty - row.reservedQty
        /\ working[b] = Moved(row, q, 0)
        /\ committed[b] = Absent => q > 0
    BY <1>1, <1>2 DEF InventoryInv, WithinStock, Moving, AvailableQty
  <1>4. /\ working[b] \in BucketRow
        /\ working[b].physicalQty = row.physicalQty + q
        /\ working[b].reservedQty = row.reservedQty
    BY <1>3 DEF Moved, BucketRow
  <1>5. working[b] # Absent /\ Quantities(working[b]) = working[b]
    BY <1>4, StockAssumption DEF Quantities
  <1> QED
    BY <1>3, <1>4, <1>5 DEF WithinStock, BucketRow

\* COMMIT: the movement joins the ledger with the bucket, and with the batch if
\* the receipt has created it.
LEMMA CommitKeeps ==
  ASSUME InventoryInv, NEW t \in Txn, tx[t].step = "commit", Commit(t)
  PROVE  /\ InventoryInv'
         /\ \A c \in Bucket :
              \/ committed'[c] = committed[c]
              \/ /\ committed'[c] # Absent
                 /\ committed[c] = Absent => committed'[c].physicalQty > 0
  <1>1. PICK b \in Bucket : HoldsBatch(t, b) /\ Moving(t, b)
    BY DEF InventoryInv, Phase, Resting, IsIdle, Arriving, Locked
  <1>2. PICK key : pending[t] = {Movement(key, b, tx[t].remaining)}
    BY <1>1 DEF Moving
  <1>3. /\ StockTypeOK' /\ Unlocked' /\ LeavesAlone(t)
        /\ Holds(t)' = {} /\ pending'[t] = {} /\ tx'[t] = Idle
        /\ \A r \in Row : committed'[r] = IF r \in Holds(t) THEN working[r]
                                                            ELSE committed[r]
        /\ ledger' = ledger \cup pending[t]
    BY CommitEffect DEF InventoryInv
  <1>4. \A u \in Txn : Phase(u)'
    <2>1. Phase(t)'
      BY <1>3 DEF Phase, Resting, IsIdle, Idle
    <2> QED
      BY <1>3, <2>1, OthersKeepPhase
  <1>5. \A c \in Bucket : committed'[c] = IF c = b THEN working[b] ELSE committed[c]
    <2>1. \A c \in Bucket : c \in Holds(t) <=> c = b
      BY <1>1, InventoryRows DEF HoldsBatch, Moving
    <2> QED
      BY <1>3, <2>1, InventoryRows
  <1>6. /\ WithinStock(working[b]) /\ working[b] # Absent
        /\ committed[b] = Absent => working[b].physicalQty > 0
    BY <1>1, MovedStock
  <1>7. \A c \in Bucket : WithinStock(committed'[c])
    BY <1>5, <1>6 DEF InventoryInv
  <1>8. \A d \in NewBatch : /\ SameCode(d) \subseteq NewBatch
                            /\ d \in Row /\ d \notin Bucket
                            /\ d \in Holds(t) <=> holder[d] = t
                            /\ \A c \in SameCode(d) : d \in SameCode(c)
    BY InventoryRows DEF SameCode, Holds
  <1>9. t # None
    BY StockAssumption
  <1>10. CodesApart'
    <2>1. \A d \in NewBatch : holder'[d] = IF holder[d] = t THEN None ELSE holder[d]
      BY <1>8 DEF Commit, Finish
    <2>2. ASSUME NEW d \in NewBatch, holder'[d] # None
          PROVE  /\ committed'[d] = Absent
                 /\ \A c \in SameCode(d) \ {d} :
                      holder'[c] = None /\ committed'[c] = Absent
      <3>1. holder[d] # None /\ holder[d] # t
        BY <2>1, <2>2
      <3>2. /\ committed[d] = Absent
            /\ \A c \in SameCode(d) \ {d} : holder[c] = None /\ committed[c] = Absent
        BY <3>1 DEF InventoryInv, CodesApart
      <3> QED
        BY <1>3, <1>8, <1>9, <2>1, <3>1, <3>2
    <2> QED
      BY <2>2 DEF CodesApart, SameCode
  <1>11. CodesNameStock'
    <2> SUFFICES ASSUME NEW d \in NewBatch, committed'[d] # Absent
                 PROVE  /\ \A c \in SameCode(d) : committed'[c] # Absent => c = d
                        /\ \E e \in ledger' : e.inventoryId[1] = d /\ e.physicalDelta > 0
      BY DEF CodesNameStock, BatchExists, SameCode
    <2>1. CASE d \in Holds(t)
      <3>1. d = b[1] /\ tx[t].remaining > 0
        BY <1>1, <1>8, <2>1 DEF HoldsBatch
      <3>2. \A c \in SameCode(d) \ {d} : holder[c] = None /\ committed[c] = Absent
        BY <1>8, <1>9, <2>1 DEF InventoryInv, CodesApart
      <3>3. \A c \in SameCode(d) \ {d} : committed'[c] = Absent
        BY <1>3, <1>8, <1>9, <3>2
      <3>4. PICK e \in pending[t] : e = Movement(key, b, tx[t].remaining)
        BY <1>2
      <3>5. e.inventoryId[1] = d /\ e.physicalDelta > 0
        BY <3>1, <3>4 DEF Movement
      <3> QED
        BY <1>3, <3>3, <3>5
    <2>2. CASE d \notin Holds(t)
      <3>1. committed[d] # Absent
        BY <1>3, <1>8, <2>2
      <3>2. /\ \A c \in SameCode(d) : committed[c] # Absent => c = d
            /\ \E e \in ledger : e.inventoryId[1] = d /\ e.physicalDelta > 0
        BY <1>8, <3>1 DEF InventoryInv, CodesNameStock, BatchExists
      <3>3. ASSUME NEW c \in SameCode(d), committed'[c] # Absent
            PROVE  c = d
        <4>1. CASE c \in Holds(t)
          <5>1. c \in NewBatch /\ holder[c] # None /\ d \in SameCode(c)
            BY <1>8, <1>9, <4>1
          <5> QED
            BY <3>1, <5>1 DEF InventoryInv, CodesApart
        <4>2. CASE c \notin Holds(t)
          BY <1>3, <1>8, <3>2, <3>3, <4>2
        <4> QED
          BY <4>1, <4>2
      <3> QED
        BY <1>3, <3>2, <3>3
    <2> QED
      BY <2>1, <2>2
  <1>12. LedgerInv'
    BY CommitLedger, HoldersAreBusy DEF InventoryInv
  <1>13. KeysUnique'
    <2>1. \A u \in Txn \ {t} : pending'[u] = pending[u]
      BY <1>3 DEF LeavesAlone
    <2>2. \A d, e \in ledger' : d.idempotencyKey = e.idempotencyKey => d = e
      BY <1>3 DEF InventoryInv, KeysUnique
    <2>3. ASSUME NEW u \in Txn, NEW v \in Txn,
                 NEW d \in pending'[u], NEW e \in ledger' \cup pending'[v],
                 d.idempotencyKey = e.idempotencyKey
          PROVE  u = v /\ d = e /\ e \notin ledger'
      <3>1. u # t /\ d \in pending[u]
        BY <1>3, <2>1
      <3>2. e \in ledger \cup pending[t] \cup pending[v]
        BY <1>3, <2>1, <2>3
      <3>3. e \notin ledger /\ e \notin pending[t]
        BY <2>3, <3>1 DEF InventoryInv, KeysUnique
      <3>4. u = v /\ d = e
        BY <2>3, <3>1, <3>2, <3>3 DEF InventoryInv, KeysUnique
      <3> QED
        BY <1>3, <3>3, <3>4
    <2> QED
      BY <2>2, <2>3 DEF KeysUnique
  <1>14. \A c \in Bucket :
           \/ committed'[c] = committed[c]
           \/ /\ committed'[c] # Absent
              /\ committed[c] = Absent => committed'[c].physicalQty > 0
    BY <1>5, <1>6
  <1> QED
    BY <1>3, <1>4, <1>7, <1>10, <1>11, <1>12, <1>13, <1>14 DEF InventoryInv

\* Every step keeps the invariant, and what it commits of a bucket is stock.
LEMMA StepInventory ==
  ASSUME InventoryInv, [InventoryNext]_vars
  PROVE  /\ InventoryInv'
         /\ \A c \in Bucket :
              \/ committed'[c] = committed[c]
              \/ /\ committed'[c] # Absent
                 /\ committed[c] = Absent => committed'[c].physicalQty > 0
  <1>1. CASE UNCHANGED vars
    <2>1. UNCHANGED <<committed, working, holder, ledger, pending, tx>>
      BY <1>1 DEF vars
    <2>2. InventoryInv'
      BY <2>1 DEF InventoryInv, StockTypeOK, Unlocked, Phase, Resting, HoldsBatch,
                  Arriving, Locked, Moving, Holds, IsIdle, CodesApart,
                  CodesNameStock, BatchExists, LedgerInv, EntriesOK, BooksOK,
                  KeysUnique
    <2> QED
      BY <2>1, <2>2
  <1>2. ASSUME NEW t \in Txn, Rollback(t)
        PROVE  InventoryInv' /\ UNCHANGED committed
    BY <1>2, RollbackKeeps DEF Rollback
  <1>3. ASSUME NEW t \in Txn, InventoryRequest(t)
        PROVE  InventoryInv' /\ UNCHANGED committed
    <2>1. PICK b \in Bucket, q \in Quantity :
            \/ \E ref \in Reference \cup {None} : BeginReceipt(t, b, q, ref)
            \/ \E ref \in Reference \cup {None} :
                 b[1] \in NewBatch /\ BeginNewBatch(t, b[1], b[2], q, ref)
            \/ Adjust(t, b, q)
            \/ Adjust(t, b, -q)
      BY <1>3 DEF InventoryRequest
    <2>2. ASSUME NEW ref \in Reference \cup {None}, BeginReceipt(t, b, q, ref)
          PROVE  InventoryInv' /\ UNCHANGED committed
      BY <2>2, ReceiptBegins DEF BeginReceipt, rows
    <2>3. ASSUME NEW ref \in Reference \cup {None}, b[1] \in NewBatch,
                 BeginNewBatch(t, b[1], b[2], q, ref)
          PROVE  InventoryInv' /\ UNCHANGED committed
      <3>1. <<b[1], b[2]>> = b
        BY DEF Bucket
      <3>2. /\ Begin(t, "receipt", "find", b, q, ref)
            /\ UNCHANGED <<rows, ledger, pending>>
        BY <2>3, <3>1 DEF BeginNewBatch
      <3> QED
        BY <2>3, <3>2, ReceiptBegins DEF rows
    <2>4. ASSUME NEW n \in Int, Adjust(t, b, n)
          PROVE  InventoryInv' /\ UNCHANGED committed
      BY <2>4, AdjustKeeps DEF Adjust
    <2>5. q \in Int /\ -q \in Int
      BY InventoryAssumption
    <2> QED
      BY <2>1, <2>2, <2>3, <2>4, <2>5
  <1>4. ASSUME NEW t \in Txn, InventoryProgress(t), ~Rollback(t)
        PROVE  \/ InventoryInv' /\ UNCHANGED committed
               \/ tx[t].step = "commit" /\ Commit(t)
    <2>1. CASE InsertBatch(t)
      BY <2>1, InsertBatchKeeps DEF InsertBatch
    <2>2. CASE SeekBucket(t, BucketOf(t))
      BY <2>2, SeekKeeps DEF SeekBucket
    <2>3. CASE InsertBucket(t, BucketOf(t))
      BY <2>3, InsertBucketKeeps DEF InsertBucket
    <2>4. CASE BookReceipt(t)
      BY <2>4, BookReceiptKeeps DEF BookReceipt
    <2> QED
      BY <1>4, <2>1, <2>2, <2>3, <2>4
         DEF InventoryProgress, InsertBatchRaced, InsertBucketRaced, RefuseReceipt
  <1>5. ASSUME NEW t \in Txn, InventoryStep(t) \/ Lost(t), ~Rollback(t)
        PROVE  \/ InventoryInv' /\ UNCHANGED committed
               \/ tx[t].step = "commit" /\ Commit(t)
    BY <1>3, <1>4, <1>5 DEF InventoryStep, Lost
  <1>6. CASE InventoryNext
    <2>1. PICK t \in Txn : InventoryStep(t) \/ Lost(t)
      BY <1>6 DEF InventoryNext
    <2> QED
      BY <1>2, <1>5, <2>1, CommitKeeps
  <1> QED
    BY <1>1, <1>6

-----------------------------------------------------------------------------
\* Every transaction holds and has written what its statement says, batches of
\* one code are never created side by side, and the ledger explains the stock.
THEOREM ReceiptsAreOrderly == InventorySpec => []InventoryInv
  <1>1. InventoryInv /\ [InventoryNext]_vars => InventoryInv'
    BY StepInventory
  <1> QED
    BY <1>1, InitInventory, PTL DEF InventorySpec

\* Rows, locks and transactions stay what they are.
THEOREM InventoryTypes == InventorySpec => []StockTypeOK
  <1>1. InventoryInv => StockTypeOK
    BY DEF InventoryInv
  <1> QED
    BY <1>1, ReceiptsAreOrderly, PTL

\* However receipts and adjustments of a bucket interleave and fail, no
\* adjustment takes more than there is, not even in what a transaction that may
\* still be rolled back has written.  (Nothing is reserved under InventorySpec;
\* that adjustments leave reserved units alone is BackendNeverOversells.)
THEOREM ReceiptsNeverOversell == InventorySpec => []NeverOversold
  <1>1. ASSUME InventoryInv, NEW b \in Bucket
        PROVE  WithinStock(committed[b]) /\ WithinStock(working[b])
    <2>1. WithinStock(committed[b]) /\ committed[b] \in BucketRow \cup {Absent}
      BY <1>1 DEF InventoryInv, StockTypeOK
    <2>2. CASE holder[b] = None
      BY <1>1, <2>1, <2>2, InventoryRows DEF InventoryInv, Unlocked
    <2>3. CASE holder[b] # None
      <3>1. PICK t \in Txn : b \in Holds(t)
        BY <1>1, <2>3, InventoryRows DEF InventoryInv, StockTypeOK, Holds
      <3>2. PICK c \in Bucket : /\ HoldsBatch(t, c)
                                /\ Arriving(t, c) \/ Locked(t, c) \/ Moving(t, c)
        BY <1>1, <3>1 DEF InventoryInv, Phase, Resting
      <3>3. b = c
        BY <3>1, <3>2, InventoryRows DEF HoldsBatch
      <3>4. CASE Locked(t, b)
        <4>1. /\ Quantities(committed[b]) \in BucketRow
              /\ working[b] = Quantities(committed[b])
          BY <2>1, <3>4, QuantitiesType DEF Locked
        <4>2. Quantities(working[b]) = Quantities(committed[b])
          BY <4>1, StockAssumption DEF Quantities
        <4> QED
          BY <2>1, <4>2 DEF WithinStock
      <3>5. CASE Moving(t, b)
        BY <1>1, <2>1, <3>5, MovedStock
      <3> QED
        BY <3>1, <3>2, <3>3, <3>4, <3>5 DEF Arriving
    <2> QED
      BY <2>1, <2>2, <2>3
  <1>2. InventoryInv => NeverOversold
    BY <1>1 DEF NeverOversold
  <1> QED
    BY <1>2, ReceiptsAreOrderly, PTL

\* A code names at most one batch of an item, and no batch is there without the
\* goods it was created for.
THEOREM CodesAreSettled == InventorySpec => []CodesNameStock
  <1>1. InventoryInv => CodesNameStock
    BY DEF InventoryInv
  <1> QED
    BY <1>1, ReceiptsAreOrderly, PTL

\* A bucket appears with goods in it, and never goes away again.
THEOREM BucketsComeStocked == InventorySpec => BucketsAppearStocked
  <1> DEFINE Appears ==
        \A b \in Bucket :
          /\ committed[b] = Absent /\ committed'[b] # Absent
               => committed'[b].physicalQty > 0
          /\ committed[b] # Absent => committed'[b] # Absent
  <1>1. InventoryInv /\ [InventoryNext]_vars => [Appears]_vars
    BY StepInventory
  <1> QED
    BY <1>1, ReceiptsAreOrderly, PTL DEF InventorySpec, BucketsAppearStocked

\* Reconciliation finds nothing: the ledger explains the quantities of every
\* bucket, whichever receipts, corrections and failures there were.
THEOREM ReceiptsExplainStock == InventorySpec => []LedgerExplainsStock
  <1>1. InventoryInv => LedgerExplainsStock
    BY LedgerInvExplains DEF InventoryInv
  <1> QED
    BY <1>1, ReceiptsAreOrderly, PTL

\* No movement is booked twice, with or without an idempotency key.
THEOREM NoReceiptTwice == InventorySpec => []KeysUnique
  <1>1. InventoryInv => KeysUnique
    BY DEF InventoryInv
  <1> QED
    BY <1>1, ReceiptsAreOrderly, PTL

-----------------------------------------------------------------------------
(* A receipt happens at one instant, its commit, and so does an adjustment. *)

\* Under a reference comes a quantity that was sent with it; a row without one
\* also moves the quantity of a request, in either direction.
Requested(e) ==
    \/ /\ \E ref \in Reference : e.idempotencyKey = <<"RECEIPT", ref>>
       /\ e.physicalDelta \in Quantity
    \/ /\ \E n : e.idempotencyKey = <<"NULL", n>>
       /\ \E q \in Quantity : e.physicalDelta = q \/ e.physicalDelta = -q

\* What a receipt is about before it books.
Sized(t) ==
    tx[t].step \in {"find", "seek", "insert", "book"} =>
      tx[t].remaining \in Quantity /\ tx[t].doc \in Reference \cup {None}

AsRequested ==
    /\ \A t \in Txn : Sized(t) /\ \A e \in pending[t] : Requested(e)
    /\ \A e \in ledger : Requested(e)

\* Nothing was asked for at the start.
LEMMA InitRequested == Init => AsRequested
  BY DEF Init, AsRequested, Sized, Idle

\* A step of t that books nothing.
LEMMA RequestedKept ==
  ASSUME AsRequested, NEW t \in Txn, Sized(t)',
         \A u \in Txn \ {t} : tx'[u] = tx[u],
         \A u \in Txn : pending'[u] \subseteq pending[u],
         ledger' \subseteq ledger \cup pending[t]
  PROVE  AsRequested'
  <1>1. \A u \in Txn : Sized(u)'
    BY DEF AsRequested, Sized
  <1>2. /\ \A u \in Txn : \A e \in pending'[u] : Requested(e)
        /\ \A e \in ledger' : Requested(e)
    BY DEF AsRequested
  <1> QED
    BY <1>1, <1>2 DEF AsRequested, Requested

\* A step of t that books the movement e.
LEMMA RequestedBooked ==
  ASSUME AsRequested, NEW t \in Txn, NEW e, Requested(e), Sized(t)',
         \A u \in Txn \ {t} : tx'[u] = tx[u] /\ pending'[u] = pending[u],
         pending'[t] = pending[t] \cup {e}, ledger' = ledger
  PROVE  AsRequested'
  <1>1. \A u \in Txn : Sized(u)'
    BY DEF AsRequested, Sized
  <1>2. /\ \A u \in Txn : \A d \in pending'[u] : Requested(d)
        /\ \A d \in ledger' : Requested(d)
    BY DEF AsRequested
  <1> QED
    BY <1>1, <1>2 DEF AsRequested, Requested

\* The end of a transaction.
LEMMA RequestedAtEnd ==
  ASSUME InventoryInv, AsRequested, NEW t \in Txn, Rollback(t) \/ Commit(t)
  PROVE  AsRequested'
  <1>1. /\ tx' = [tx EXCEPT ![t] = Idle] /\ pending' = [pending EXCEPT ![t] = {}]
        /\ ledger' \subseteq ledger \cup pending[t]
    BY DEF Rollback, Commit, Finish
  <1>2. /\ tx'[t].step = "idle" /\ \A u \in Txn \ {t} : tx'[u] = tx[u]
        /\ \A u \in Txn : pending'[u] \subseteq pending[u]
    BY <1>1 DEF InventoryInv, StockTypeOK, Idle
  <1> QED
    BY <1>1, <1>2, RequestedKept DEF Sized

\* A statement that goes on to another with the same quantity and reference.
LEMMA RequestedOnward ==
  ASSUME InventoryInv, AsRequested, NEW t \in Txn,
         tx[t].step \in {"find", "seek", "insert"},
         NEW step \in {"seek", "insert", "book"},
         tx' = [tx EXCEPT ![t].step = step], UNCHANGED <<ledger, pending>>
  PROVE  AsRequested'
  <1>1. StockTypeOK
    BY DEF InventoryInv
  <1>2. /\ \A u \in Txn \ {t} : tx'[u] = tx[u]
        /\ tx'[t].remaining = tx[t].remaining /\ tx'[t].doc = tx[t].doc
    BY <1>1, StepOfRecord
  <1>3. Sized(t)'
    BY <1>2 DEF AsRequested, Sized
  <1> QED
    BY <1>2, <1>3, RequestedKept

\* What Begin makes of the record of its transaction.
LEMMA BeginRecord ==
  ASSUME InventoryInv, NEW t \in Txn, NEW op, NEW step, NEW b, NEW q,
         NEW reference, Begin(t, op, step, b, q, reference)
  PROVE  /\ tx'[t].step = step /\ tx'[t].remaining = q /\ tx'[t].doc = reference
         /\ \A u \in Txn \ {t} : tx'[u] = tx[u]
  BY DEF Begin, Idle, InventoryInv, StockTypeOK

\* A request.
LEMMA RequestedAtRequest ==
  ASSUME InventoryInv, AsRequested, NEW t \in Txn, InventoryRequest(t)
  PROVE  AsRequested'
  <1>1. PICK b \in Bucket, q \in Quantity :
          \/ \E ref \in Reference \cup {None} : BeginReceipt(t, b, q, ref)
          \/ \E ref \in Reference \cup {None} :
               b[1] \in NewBatch /\ BeginNewBatch(t, b[1], b[2], q, ref)
          \/ Adjust(t, b, q)
          \/ Adjust(t, b, -q)
    BY DEF InventoryRequest
  <1>2. ASSUME NEW ref \in Reference \cup {None},
               BeginReceipt(t, b, q, ref) \/ BeginNewBatch(t, b[1], b[2], q, ref)
        PROVE  AsRequested'
    <2>1. PICK step, c : /\ Begin(t, "receipt", step, c, q, ref)
                         /\ UNCHANGED <<ledger, pending>>
      BY <1>2 DEF BeginReceipt, BeginNewBatch
    <2>2. /\ tx'[t].remaining = q /\ tx'[t].doc = ref
          /\ \A u \in Txn \ {t} : tx'[u] = tx[u]
      BY <2>1, BeginRecord
    <2>3. Sized(t)'
      BY <2>2 DEF Sized
    <2> QED
      BY <2>1, <2>2, <2>3, RequestedKept
  <1>3. ASSUME NEW n, n = q \/ n = -q, Adjust(t, b, n)
        PROVE  AsRequested'
    <2>1. PICK e : e = [idempotencyKey |-> FreshKey, inventoryId |-> b,
                        physicalDelta |-> n, reservedDelta |-> 0, refId |-> None]
      OBVIOUS
    <2>2. /\ Begin(t, "adjustment", "commit", b, n, None)
          /\ pending' = [pending EXCEPT ![t] = @ \cup {e}] /\ ledger' = ledger
      BY <1>3, <2>1 DEF Adjust, Book
    <2>3. /\ tx'[t].step = "commit" /\ \A u \in Txn \ {t} : tx'[u] = tx[u]
      BY <2>2, BeginRecord
    <2>4. Requested(e)
      <3>1. e.idempotencyKey = FreshKey /\ e.physicalDelta = n
        BY <2>1
      <3>2. \E k : FreshKey = <<"NULL", k>>
        BY DEF FreshKey
      <3> QED
        BY <1>3, <3>1, <3>2 DEF Requested
    <2>5. /\ pending'[t] = pending[t] \cup {e}
          /\ \A u \in Txn \ {t} : pending'[u] = pending[u]
      BY <2>2 DEF InventoryInv, StockTypeOK
    <2>6. Sized(t)'
      BY <2>3 DEF Sized
    <2> QED
      BY <2>2, <2>3, <2>4, <2>5, <2>6, RequestedBooked
  <1> QED
    BY <1>1, <1>2, <1>3

\* The movement of a receipt is the one that was asked for.
LEMMA RequestedReceipt ==
  ASSUME InventoryInv, AsRequested, NEW t \in Txn, BookReceipt(t)
  PROVE  AsRequested'
  <1>1. PICK key : key = IF tx[t].doc = None THEN FreshKey
                         ELSE <<"RECEIPT", tx[t].doc>>
    OBVIOUS
  <1>2. PICK e : e = [idempotencyKey |-> key, inventoryId |-> BucketOf(t),
                      physicalDelta |-> tx[t].remaining, reservedDelta |-> 0,
                      refId |-> None]
    OBVIOUS
  <1>3. /\ tx[t].step = "book"
        /\ pending' = [pending EXCEPT ![t] = @ \cup {e}] /\ ledger' = ledger
        /\ tx' = [tx EXCEPT ![t].step = "commit"]
    BY <1>1, <1>2 DEF BookReceipt, Book
  <1>4. tx[t].remaining \in Quantity /\ tx[t].doc \in Reference \cup {None}
    BY <1>3 DEF AsRequested, Sized
  <1>5. Requested(e)
    <2>1. e.idempotencyKey = key /\ e.physicalDelta = tx[t].remaining
      BY <1>2
    <2>2. \E k : FreshKey = <<"NULL", k>>
      BY DEF FreshKey
    <2>3. CASE tx[t].doc = None
      BY <1>1, <1>4, <2>1, <2>2, <2>3 DEF Requested
    <2>4. CASE tx[t].doc # None
      BY <1>1, <1>4, <2>1, <2>4 DEF Requested
    <2> QED
      BY <2>3, <2>4
  <1>6. StockTypeOK
    BY DEF InventoryInv
  <1>7. tx'[t].step = "commit" /\ \A u \in Txn \ {t} : tx'[u] = tx[u]
    BY <1>3, <1>6, StepOfRecord
  <1>8. /\ pending'[t] = pending[t] \cup {e}
        /\ \A u \in Txn \ {t} : pending'[u] = pending[u]
    BY <1>3, <1>6 DEF StockTypeOK
  <1>9. Sized(t)'
    BY <1>7 DEF Sized
  <1> QED
    BY <1>3, <1>5, <1>7, <1>8, <1>9, RequestedBooked

\* Only COMMIT changes what others see.
LEMMA OnlyCommitShows ==
  ASSUME NEW t \in Txn, InventoryStep(t) \/ Lost(t)
  PROVE  \/ UNCHANGED <<committed, ledger>>
         \/ tx[t].step = "commit" /\ Commit(t)
  BY DEF InventoryStep, InventoryRequest, InventoryProgress, Lost, BeginReceipt,
         BeginNewBatch, Adjust, InsertBatch, InsertBatchRaced, SeekBucket,
         InsertBucket, InsertBucketRaced, BookReceipt, RefuseReceipt, Rollback, rows

\* Every step.
LEMMA StepRequested ==
  ASSUME InventoryInv, AsRequested, [InventoryNext]_vars
  PROVE  AsRequested'
  <1>1. CASE UNCHANGED vars
    BY <1>1 DEF vars, AsRequested, Sized, Requested
  <1>2. ASSUME NEW t \in Txn, InventoryProgress(t)
        PROVE  AsRequested'
    <2>1. CASE \/ InsertBatch(t) \/ SeekBucket(t, BucketOf(t))
               \/ InsertBucket(t, BucketOf(t))
      <3>1. /\ tx[t].step \in {"find", "seek", "insert"}
            /\ \E step \in {"seek", "insert", "book"} :
                 tx' = [tx EXCEPT ![t].step = step]
            /\ UNCHANGED <<ledger, pending>>
        BY <2>1 DEF InsertBatch, SeekBucket, InsertBucket
      <3> QED
        BY <3>1, RequestedOnward
    <2>2. CASE Rollback(t) \/ Commit(t)
      BY <2>2, RequestedAtEnd
    <2>3. CASE BookReceipt(t)
      BY <2>3, RequestedReceipt
    <2> QED
      BY <1>2, <2>1, <2>2, <2>3
         DEF InventoryProgress, InsertBatchRaced, InsertBucketRaced, RefuseReceipt
  <1>3. ASSUME NEW t \in Txn, InventoryStep(t) \/ Lost(t)
        PROVE  AsRequested'
    BY <1>2, <1>3, RequestedAtRequest, RequestedAtEnd DEF InventoryStep, Lost
  <1> QED
    BY <1>1, <1>3 DEF InventoryNext

\* The stock of the abstract specification.
LEMMA StockAt ==
  ASSUME StockTypeOK
  PROVE  \A b \in Bucket : Quantities(committed[b]) \in BucketRow
  BY QuantitiesType DEF StockTypeOK

\* What the abstract specification sees of corrections is a sum of the ledger's.
LEMMA UnitsAreSummed == \A S : UnitsIn(S) = PhysicalSum(S)
  BY DEF UnitsIn, PhysicalSum

\* A commit is a delivery of what was received under a reference, or a
\* correction by what was received without one or adjusted.
LEMMA CommitDelivers ==
  ASSUME InventoryInv, AsRequested, NEW t \in Txn, tx[t].step = "commit", Commit(t)
  PROVE  Deliveries!Next
  <1>1. PICK b \in Bucket : HoldsBatch(t, b) /\ Moving(t, b)
    BY DEF InventoryInv, Phase, Resting, IsIdle, Arriving, Locked
  <1>2. PICK q : q = tx[t].remaining
    OBVIOUS
  <1>3. PICK key : pending[t] = {Movement(key, b, q)}
    BY <1>1, <1>2 DEF Moving
  <1>4. PICK e : e = Movement(key, b, q)
    OBVIOUS
  <1>5. /\ e.idempotencyKey = key /\ e.inventoryId = b /\ e.physicalDelta = q
        /\ pending[t] = {e}
    BY <1>3, <1>4 DEF Movement
  <1>6. /\ ledger' = ledger \cup {e} /\ e \notin ledger
        /\ Entries(ledger) /\ IsEntry(e)
    <2>1. /\ Entries(ledger) /\ Entries(pending[t]) /\ pending[t] \cap ledger = {}
      BY DEF InventoryInv, LedgerInv, EntriesOK
    <2> QED
      BY <1>5, <2>1 DEF Commit, Entries
  <1>7. \A c \in Bucket : committed'[c] = IF c = b THEN working[b] ELSE committed[c]
    <2>1. \A c \in Bucket : c \in Holds(t) <=> c = b
      BY <1>1, InventoryRows DEF HoldsBatch, Moving
    <2> QED
      BY <2>1, InventoryRows DEF Commit, Holds
  <1>8. q \in Int
    BY <1>2 DEF InventoryInv, StockTypeOK, TxRow
  <1> DEFINE onHand == PhysicalAt(committed)
             delivered == {DeliverySeen(d) : d \in Referenced}
             corrected == [c \in Bucket |-> UnitsIn(Unreferenced(c))]
  <1>9. /\ onHand[b] \in Int /\ onHand[b] + q >= 0
        /\ PhysicalAt(committed)' = [onHand EXCEPT ![b] = @ + q]
    <2>1. PICK row \in BucketRow : row = Quantities(committed[b])
      BY StockAt DEF InventoryInv
    <2>2. /\ -q <= row.physicalQty - row.reservedQty /\ row.reservedQty >= 0
          /\ working[b] = Moved(row, q, 0)
      BY <1>1, <1>2, <2>1 DEF Moving, AvailableQty, InventoryInv, WithinStock
    <2>3. working[b] \in BucketRow /\ working[b].physicalQty = row.physicalQty + q
      BY <1>8, <2>2 DEF Moved, BucketRow
    <2>4. Quantities(committed'[b]).physicalQty = row.physicalQty + q
      BY <1>7, <2>3, StockAssumption DEF Quantities
    <2>5. \A c \in Bucket \ {b} : committed'[c] = committed[c]
      BY <1>7
    <2>6. onHand[b] = row.physicalQty
      BY <2>1 DEF PhysicalAt
    <2>7. PhysicalAt(committed)' = [onHand EXCEPT ![b] = @ + q]
      BY <2>4, <2>5, <2>6 DEF PhysicalAt
    <2> QED
      BY <1>8, <2>1, <2>2, <2>6, <2>7 DEF BucketRow
  <1>10. \A c \in Bucket : corrected[c] = PhysicalSum(Unreferenced(c))
    BY UnitsAreSummed
  <1>11. \A c \in Bucket : corrected'[c] = PhysicalSum(Unreferenced(c)')
    BY UnitsAreSummed
  <1>12. Requested(e)
    BY <1>5 DEF AsRequested
  <1>13. CASE \E ref \in Reference : key = <<"RECEIPT", ref>>
    <2>1. PICK ref \in Reference : key = <<"RECEIPT", ref>>
      BY <1>13
    <2>2. key[1] = "RECEIPT" /\ key[2] = ref
      BY <2>1
    <2>3. q \in Quantity
      <3>1. \A n : key # <<"NULL", n>>
        BY <2>1
      <3> QED
        BY <1>5, <1>12, <3>1 DEF Requested
    <2>4. \A c \in Bucket : Unreferenced(c)' = Unreferenced(c)
      BY <1>5, <1>6, <2>2 DEF Unreferenced
    <2>5. corrected' = corrected
      BY <1>10, <1>11, <2>4
    <2>6. Referenced' = Referenced \cup {e}
      BY <1>5, <1>6, <2>2 DEF Referenced
    <2>7. DeliverySeen(e) = [reference |-> ref, place |-> b, quantity |-> q]
      BY <1>5, <2>2 DEF DeliverySeen
    <2>8. delivered' = delivered \cup
                         {[reference |-> ref, place |-> b, quantity |-> q]}
      <3>1. \A d : DeliverySeen(d)' = DeliverySeen(d)
        BY DEF DeliverySeen
      <3> QED
        BY <2>6, <2>7
    <2>9. ~ \E d \in delivered : d.reference = ref
      <3> SUFFICES ASSUME NEW d \in Referenced, d.idempotencyKey[2] = ref
                   PROVE  FALSE
        BY DEF DeliverySeen
      <3>1. d \in ledger /\ d.idempotencyKey[1] = "RECEIPT" /\ Requested(d)
        BY DEF Referenced, AsRequested
      <3>2. d.idempotencyKey = <<"RECEIPT", ref>>
        BY <3>1 DEF Requested
      <3> QED
        BY <1>5, <2>1, <3>1, <3>2 DEF InventoryInv, KeysUnique
    <2>10. Deliveries!Deliver(ref, b, q)
      BY <1>9, <2>5, <2>8, <2>9 DEF Deliveries!Deliver, Deliveries!Known
    <2> QED
      BY <2>3, <2>10 DEF Deliveries!Next
  <1>14. CASE \E n : key = <<"NULL", n>>
    <2>1. key[1] = "NULL"
      BY <1>14
    <2>2. \E n \in Quantity : q = n \/ q = -n
      <3>1. \A ref : key # <<"RECEIPT", ref>>
        BY <1>14
      <3> QED
        BY <1>5, <1>12, <3>1 DEF Requested
    <2>3. Referenced' = Referenced
      BY <1>5, <1>6, <2>1 DEF Referenced
    <2>4. delivered' = delivered
      <3>1. \A d : DeliverySeen(d)' = DeliverySeen(d)
        BY DEF DeliverySeen
      <3> QED
        BY <2>3
    <2>5. /\ Unreferenced(b)' = Unreferenced(b) \cup {e}
          /\ e \notin Unreferenced(b) /\ Entries(Unreferenced(b))
          /\ \A c \in Bucket \ {b} : Unreferenced(c)' = Unreferenced(c)
      <3>1. Entries(Unreferenced(b))
        <4>1. Unreferenced(b) \subseteq ledger
          BY DEF Unreferenced
        <4> QED
          BY <1>6, <4>1, FS_Subset DEF Entries
      <3> QED
        BY <1>5, <1>6, <2>1, <3>1 DEF Unreferenced
    <2>6. PhysicalSum(Unreferenced(b)') = PhysicalSum(Unreferenced(b)) + q
      BY <1>5, <1>6, <2>5, LedgerSums
    <2>7. corrected' = [corrected EXCEPT ![b] = @ + q]
      <3>1. \A c \in Bucket : corrected'[c] = [corrected EXCEPT ![b] = @ + q][c]
        BY <1>10, <1>11, <2>5, <2>6
      <3> QED
        BY <3>1
    <2>8. Deliveries!Correct(b, q)
      BY <1>9, <2>4, <2>7 DEF Deliveries!Correct
    <2> QED
      BY <2>2, <2>8 DEF Deliveries!Next
  <1> QED
    BY <1>5, <1>12, <1>13, <1>14 DEF Requested

\* At the start the shelves hold what was seeded, and nothing has come in.
LEMMA DeliveriesInit == Init => Deliveries!Init
  <1> SUFFICES ASSUME Init PROVE Deliveries!Init
    OBVIOUS
  <1>1. PhysicalAt(committed) = PhysicalAt(InitialStock)
    BY InventoryRows DEF Init, PhysicalAt
  <1>2. {DeliverySeen(d) : d \in Referenced} = {}
    BY DEF Init, Referenced
  <1>3. \A c \in Bucket : UnitsIn(Unreferenced(c)) = 0
    <2>1. \A c \in Bucket : Unreferenced(c) = {}
      BY DEF Init, Unreferenced
    <2> QED
      BY <2>1, UnitsAreSummed, LedgerSums
  <1> QED
    BY <1>1, <1>2, <1>3 DEF Deliveries!Init

\* InventoryService implements DeliveryBook: whatever attempts under a reference
\* race, break off or are repeated, the goods and the reference are in the books
\* both or neither, and once.
THEOREM ReceiptsComeAtOnce == InventorySpec => ReceiptsAreAtomic
  <1> DEFINE shown == <<PhysicalAt(committed), {DeliverySeen(e) : e \in Referenced},
                        [b \in Bucket |-> UnitsIn(Unreferenced(b))]>>
  <1>1. UNCHANGED <<committed, ledger>> => UNCHANGED shown
    <2> SUFFICES ASSUME committed' = committed, ledger' = ledger
                 PROVE  UNCHANGED shown
      OBVIOUS
    <2>1. PhysicalAt(committed)' = PhysicalAt(committed)
      BY DEF PhysicalAt
    <2>2. Referenced' = Referenced /\ \A b : Unreferenced(b)' = Unreferenced(b)
      BY DEF Referenced, Unreferenced
    <2> QED
      BY <2>1, <2>2
  <1>2. ASSUME InventoryInv, AsRequested, [InventoryNext]_vars
        PROVE  [Deliveries!Next]_shown
    <2>1. CASE UNCHANGED vars
      BY <1>1, <2>1 DEF vars
    <2>2. CASE InventoryNext
      <3>1. PICK t \in Txn : InventoryStep(t) \/ Lost(t)
        BY <2>2 DEF InventoryNext
      <3>2. CASE UNCHANGED <<committed, ledger>>
        BY <1>1, <3>2
      <3>3. CASE tx[t].step = "commit" /\ Commit(t)
        BY <1>2, <3>3, CommitDelivers
      <3> QED
        BY <3>1, <3>2, <3>3, OnlyCommitShows
    <2> QED
      BY <1>2, <2>1, <2>2
  <1>3. AsRequested /\ InventoryInv /\ [InventoryNext]_vars => AsRequested'
    BY StepRequested
  <1> QED
    BY <1>2, <1>3, InitRequested, DeliveriesInit, ReceiptsAreOrderly, PTL
       DEF InventorySpec, ReceiptsAreAtomic, Deliveries!Spec
=============================================================================
