------------------------------ MODULE ErpProofs ------------------------------
(***************************************************************************)
(* Proofs about the whole backend, for every number of transactions,       *)
(* orders, work orders, transfers, batches and locations.                  *)
(*                                                                         *)
(* The invariants of the services alone do not survive their company: a    *)
(* bucket changes under an order because a transfer leaves it.  What does  *)
(* survive is about one document and what its transaction has locked.      *)
(* ErpInv says that the ledger's movements of every document tell what its *)
(* row shows (DocsOK), that no bucket is promised more than it has         *)
(* (ShelvesOK), and what a transaction has locked and booked at each       *)
(* statement (Control).  The properties follow by summing the movements    *)
(* bucket by bucket and document by document.                              *)
(***************************************************************************)
EXTENDS Erp, OrdersProofs, InventoryProofs

-----------------------------------------------------------------------------
(***************************************************************************)
(* The inductive invariant.                                                *)
(***************************************************************************)

\* The documents that hold or move stock, and the movements that refer to one.
Docs == Order \cup WorkOrder \cup Transfer
Of(S, r) == {e \in S : e.refId = r}

\* The movements S of an order tell what has left with it, bucket by bucket.
LeftTold(o, S, row) ==
    \A b \in Bucket :
      /\ IsFiniteSet(ShippedOf(row, o, b))
      /\ PhysicalSum(At(S, b)) = -Cardinality(ShippedOf(row, o, b))

\* What the movements S of an order tell: what its row holds, bucket by bucket.
OrderTold(o, S, row) ==
    /\ LeftTold(o, S, row)
    /\ row \in OrderRow \cup {Absent}
    /\ \A b \in Bucket :
         /\ IsFiniteSet(HeldOf(row, o, b))
         /\ ReservedSum(At(S, b)) = Cardinality(HeldOf(row, o, b))
    /\ \A e \in S : KeyKnown(e.idempotencyKey, o, row)

\* The movements S of a work order are holds, and what takes them back.
TakenOnly(w, S) ==
    \A e \in S : e.idempotencyKey = <<"WORK_ORDER", w, "RESERVE", e.inventoryId>>

WorkOrderTold(w, S, row) ==
    /\ row \in WorkOrderRow \cup {Absent}
    /\ row = Absent => S = {}
    /\ \A b \in Bucket : ReservedSum(At(S, b)) >= 0
    /\ \A e \in S :
         \/ e.idempotencyKey = <<"WORK_ORDER", w, "RESERVE", e.inventoryId>>
         \/ e.idempotencyKey = <<"WORK_ORDER", w, "CONSUME", e.inventoryId>>

\* Between two requests, what has moved follows from the status.
WorkOrderSettled(w, S, row) ==
    row # Absent => /\ row.status = "ASSIGNED" => S = {}
                    /\ row.status = "IN_PROGRESS" => TakenOnly(w, S)

\* What has left the source of a transfer and not arrived.
Underway(row) ==
    IF row # Absent /\ row.status = "DISPATCHED" THEN OutstandingQty(row) ELSE 0

\* The movements S of a transfer tell what is under way.
TransferTold(x, S, row) ==
    /\ row \in TransferRow \cup {Absent}
    /\ row = Absent => S = {}
    /\ PhysicalSum(S) = -Underway(row)
    /\ row # Absent =>
         /\ row.receivedQty >= 0
         /\ row.status = "REQUESTED" => S = {} /\ row.receivedQty = 0
         /\ \A e \in S :
              /\ e.inventoryId[1] = row.batch /\ e.reservedDelta = 0
              /\ \/ e.idempotencyKey = <<"TRANSFER", x, "DISPATCH">>
                 \/ \E n \in 1 .. row.receivedQty :
                      e.idempotencyKey = <<"TRANSFER", x, "RECEIVE", n>>

Told(r, S, row) ==
    /\ r \in Order => OrderTold(r, S, row)
    /\ r \in WorkOrder => WorkOrderTold(r, S, row)
    /\ r \in Transfer => TransferTold(r, S, row)

\* The transaction t has booked the movement of its transfer x and not yet
\* saved what it says of the row.
Unsaved(t, x) == x \in Transfer /\ tx[t].step \in {"sent", "stored"}

\* The row of the transfer x as t will save it.
Saved(t, x) ==
    IF tx[t].step = "sent" THEN [working[x] EXCEPT !.status = "DISPATCHED"]
                           ELSE Arrived(working[x], tx[t].remaining)

\* The ledger tells what is committed of a document, and together with what a
\* transaction has booked what it has made of it and saved.
DocsOK ==
    \A r \in Docs :
      /\ Told(r, Of(ledger, r), committed[r])
      /\ r \in WorkOrder => WorkOrderSettled(r, Of(ledger, r), committed[r])
      /\ \A t \in Txn :
           holder[r] = t /\ ~Unsaved(t, r) =>
             Told(r, Of(ledger \cup pending[t], r), working[r])

\* A movement belongs to a document, or reserves nothing.
Named(e) ==
    \/ e.refId \in Docs
    \/ /\ e.refId = None /\ e.reservedDelta = 0
       /\ e.idempotencyKey[1] \in {"RECEIPT", "NULL"}

\* No more is reserved in a bucket than is there, and what has moved is in
\* a bucket that exists.
ShelvesOK ==
    /\ \A b \in Bucket : /\ Covered(committed[b]) /\ Covered(working[b])
                         /\ committed[b] # Absent => working[b] # Absent
    /\ \A e \in ledger : Named(e) /\ committed[e.inventoryId] # Absent
    /\ \A t \in Txn : \A e \in pending[t] :
         Named(e) /\ working[e.inventoryId] # Absent

-----------------------------------------------------------------------------
\* A transaction works on one document, which it has locked.
OwnDoc(t) ==
    /\ tx[t].doc \in Docs => holder[tx[t].doc] = t /\ working[tx[t].doc] # Absent
    /\ \A r \in Docs : holder[r] = t => tx[t].doc = r
    /\ \A e \in pending[t] : e.refId = IF tx[t].doc \in Docs THEN tx[t].doc ELSE None

OrderAt(t, o) ==
    tx[t].step \in {"find", "take"} => tx[t].line \in DOMAIN working[o].lines

WorkOrderAt(t, w) ==
    /\ tx[t].step = "find" =>
         tx[t].op = "start" /\ Of(ledger, w) = {} /\ pending[t] = {}
    /\ tx[t].step = "take" =>
         /\ tx[t].op = "start" /\ Of(ledger, w) = {} /\ TakenOnly(w, pending[t])
         /\ \A e \in pending[t] : e.inventoryId \notin tx[t].todo
    /\ tx[t].step = "consume" =>
         /\ tx[t].op # "start" /\ TakenOnly(w, Of(ledger, w))
         /\ \A e \in pending[t] : e.inventoryId \notin tx[t].todo
         /\ \A b \in tx[t].todo : ReservedSum(At(Of(ledger, w), b)) > 0
    /\ tx[t].step = "commit" =>
         WorkOrderSettled(w, Of(ledger \cup pending[t], w), working[w])

TransferAt(t, x) ==
    /\ tx[t].step = "debit" => working[x].status = "REQUESTED"
    /\ tx[t].step \in {"seek", "insert", "book"} =>
         /\ working[x].status = "DISPATCHED"
         /\ tx[t].remaining \in 1 .. OutstandingQty(working[x])
    /\ tx[t].step = "book" => /\ holder[Destination(working[x])] = t
                              /\ working[Destination(working[x])] # Absent
    /\ tx[t].step \in {"sent", "stored"} =>
         /\ working[x] \in TransferRow
         /\ TransferTold(x, Of(ledger \cup pending[t], x), Saved(t, x))

ReceiptAt(t) ==
    tx[t].op = "receipt" =>
      /\ tx[t].doc \notin Docs /\ tx[t].remaining \in Nat
      /\ \E b \in Bucket :
           /\ tx[t].todo = {b}
           /\ tx[t].step = "find" => b[1] \in NewBatch
           /\ tx[t].step = "book" => holder[b] = t /\ working[b] # Absent

Control(t) ==
    /\ OwnDoc(t) /\ ReceiptAt(t)
    /\ tx[t].doc \in Order => OrderAt(t, tx[t].doc)
    /\ tx[t].doc \in WorkOrder => WorkOrderAt(t, tx[t].doc)
    /\ tx[t].doc \in Transfer => TransferAt(t, tx[t].doc)

\* The inductive invariant of the whole backend.
ErpInv ==
    /\ StockTypeOK /\ LocksOK /\ LedgerInv /\ KeysUnique
    /\ ShelvesOK /\ DocsOK
    /\ \A t \in Txn : Control(t)

-----------------------------------------------------------------------------
(***************************************************************************)
(* What the invariant says at once.                                        *)
(***************************************************************************)

\* Documents are rows, and no buckets.
LEMMA DocRows ==
  ASSUME NEW r \in Docs
  PROVE  r \in Row /\ r \in Document /\ r \notin Bucket /\ r # None
  BY StockAssumption, OrdersAssumption, WorkOrdersAssumption, TransfersAssumption
     DEF Docs, Row

\* The documents do not overlap.
LEMMA DocKinds ==
  /\ \A x \in Transfer : x \in Docs /\ x \notin Order /\ x \notin WorkOrder
  /\ \A w \in WorkOrder : w \in Docs /\ w \notin Order /\ w \notin Transfer
  /\ \A o \in Order : o \in Docs /\ o \notin WorkOrder /\ o \notin Transfer
  BY ErpAssumption DEF Docs

\* The movements of a document among those of two sets, and as ledger rows.
LEMMA OfBoth ==
  ASSUME NEW S, NEW T, NEW r
  PROVE  Of(S \cup T, r) = Of(S, r) \cup Of(T, r)
  BY DEF Of

LEMMA OfNothing ==
  ASSUME NEW S, NEW T, NEW r, Of(T, r) = {}
  PROVE  Of(S \cup T, r) = Of(S, r)
  BY DEF Of

LEMMA OfEntries ==
  ASSUME NEW S, Entries(S), NEW r
  PROVE  Entries(Of(S, r)) /\ \A e \in Of(S, r) : e \in S /\ e.refId = r
  <1>1. Of(S, r) \subseteq S
    BY DEF Of
  <1> QED
    BY <1>1, FS_Subset DEF Entries, Of

\* What a transaction has booked, it has booked for the document it has locked.
LEMMA BookedForDoc ==
  ASSUME ErpInv, NEW t \in Txn, NEW e \in pending[t]
  PROVE  /\ ~IsIdle(t) /\ e.inventoryId \in Bucket /\ holder[e.inventoryId] = t
         /\ e.refId # None => /\ e.refId = tx[t].doc /\ e.refId \in Docs
                              /\ holder[e.refId] = t
  <1>1. e.inventoryId \in Bucket /\ holder[e.inventoryId] = t
    BY DEF ErpInv, LedgerInv, EntriesOK, Entries, IsEntry
  <1>2. ~IsIdle(t)
    BY <1>1, StockAssumption DEF ErpInv, LocksOK, Row
  <1>3. OwnDoc(t)
    BY DEF ErpInv, Control
  <1> QED
    BY <1>1, <1>2, <1>3 DEF OwnDoc

\* A transaction that has not begun has nothing.
LEMMA IdleHasNothing ==
  ASSUME ErpInv, NEW t \in Txn, IsIdle(t)
  PROVE  /\ pending[t] = {} /\ Holds(t) = {} /\ tx[t].doc \notin Docs
         /\ \A r \in Row : holder[r] # t
  <1>1. pending[t] = {}
    BY BookedForDoc
  <1>2. \A r \in Row : holder[r] # t
    BY StockAssumption DEF ErpInv, LocksOK
  <1>3. tx[t].doc \notin Docs
    BY <1>2, DocRows DEF ErpInv, Control, OwnDoc
  <1> QED
    BY <1>1, <1>2, <1>3 DEF Holds

\* The idempotency key of a movement names the document.
LEMMA ToldKeys ==
  ASSUME NEW r \in Docs, NEW S, NEW row, Told(r, S, row), NEW e \in S
  PROVE  e.idempotencyKey[2] = r
  <1>1. CASE r \in Order
    <2>1. KeyKnown(e.idempotencyKey, r, row)
      BY <1>1 DEF Told, OrderTold
    <2> QED
      BY <2>1 DEF KeyKnown
  <1>2. CASE r \in WorkOrder
    BY <1>2 DEF Told, WorkOrderTold
  <1>3. CASE r \in Transfer
    <2>1. row # Absent
      BY <1>3 DEF Told, TransferTold
    <2> QED
      BY <1>3, <2>1 DEF Told, TransferTold
  <1> QED
    BY <1>1, <1>2, <1>3 DEF Docs

\* The idempotency key of no movement so far.
UnusedKey(key) ==
    \A u \in Txn : \A e \in ledger \cup pending[u] : e.idempotencyKey # key

\* Of every document that is locked something is told.
LEMMA AlwaysTold ==
  ASSUME ErpInv, NEW t \in Txn, NEW r \in Docs, holder[r] = t
  PROVE  \E row : Told(r, Of(ledger \cup pending[t], r), row)
  <1>1. CASE ~Unsaved(t, r)
    BY <1>1 DEF ErpInv, DocsOK
  <1>2. CASE Unsaved(t, r)
    <2>1. tx[t].doc = r /\ r \in Transfer
      BY <1>2 DEF ErpInv, Control, OwnDoc, Unsaved
    <2>2. TransferTold(r, Of(ledger \cup pending[t], r), Saved(t, r))
      BY <1>2, <2>1 DEF ErpInv, Control, TransferAt, Unsaved
    <2> QED
      BY <2>1, <2>2, DocKinds DEF Told
  <1> QED
    BY <1>1, <1>2

\* A movement that is new to its document is new.
LEMMA NewToAll ==
  ASSUME ErpInv, NEW t \in Txn, NEW r \in Docs, holder[r] = t, NEW key,
         key[1] \notin {"RECEIPT", "NULL"}, key[2] = r,
         \A e \in Of(ledger \cup pending[t], r) : e.idempotencyKey # key
  PROVE  UnusedKey(key)
  <1> SUFFICES ASSUME NEW u \in Txn, NEW e \in ledger \cup pending[u],
                      e.idempotencyKey = key
               PROVE  FALSE
    BY DEF UnusedKey
  <1>2. Named(e)
    BY DEF ErpInv, ShelvesOK
  <1>3. e.refId \in Docs /\ e.refId # None
    BY <1>2, DocRows DEF Named
  <1>4. CASE e \in ledger
    <2>1. Told(e.refId, Of(ledger, e.refId), committed[e.refId])
      BY <1>3 DEF ErpInv, DocsOK
    <2>2. e \in Of(ledger, e.refId)
      BY <1>4 DEF Of
    <2>3. e.idempotencyKey[2] = e.refId
      BY <1>3, <2>1, <2>2, ToldKeys
    <2>4. e.refId = r /\ e \in Of(ledger \cup pending[t], r)
      BY <1>4, <2>3 DEF Of
    <2> QED
      BY <2>4
  <1>5. CASE e \in pending[u]
    <2>1. holder[e.refId] = u
      BY <1>3, <1>5, BookedForDoc
    <2>2. PICK row : Told(e.refId, Of(ledger \cup pending[u], e.refId), row)
      BY <1>3, <2>1, AlwaysTold
    <2>3. e \in Of(ledger \cup pending[u], e.refId)
      BY <1>5 DEF Of
    <2>4. e.idempotencyKey[2] = e.refId
      BY <1>3, <2>2, <2>3, ToldKeys
    <2>5. u = t /\ e \in Of(ledger \cup pending[t], r)
      BY <2>1, <2>3, <2>4
    <2> QED
      BY <2>5
  <1> QED
    BY <1>4, <1>5

-----------------------------------------------------------------------------
(***************************************************************************)
(* The end of a transaction: commit and rollback.                          *)
(***************************************************************************)

\* Who holds a lock goes on with it.
LEMMA LocksStay ==
  ASSUME LocksOK, StockTypeOK', Unlocked', NEW t \in Txn, LeavesAlone(t),
         \A r \in Row : holder'[r] = t => ~IsIdle(t)'
  PROVE  LocksOK'
  <1>1. ASSUME NEW r \in Row, NEW u \in Txn, u = holder'[r]
        PROVE  tx'[u].step # "idle"
    <2>1. CASE u = t
      BY <1>1, <2>1 DEF IsIdle
    <2>2. CASE u # t
      <3>1. r \in Holds(u)' /\ Holds(u)' = Holds(u) /\ tx'[u] = tx[u]
        BY <1>1, <2>2 DEF LeavesAlone, Holds
      <3>2. holder[r] = u
        BY <3>1 DEF Holds
      <3>3. ~IsIdle(u)
        BY <3>2, StockAssumption DEF LocksOK
      <3> QED
        BY <3>1, <3>3 DEF IsIdle
    <2> QED
      BY <2>1, <2>2
  <1>2. \A r \in Row : holder'[r] # None => tx'[holder'[r]].step # "idle"
    BY <1>1 DEF StockTypeOK
  <1> QED
    BY <1>2 DEF LocksOK, Unlocked, IsIdle

\* The places of a transfer are buckets.
LEMMA PlacesOfTransfer ==
  ASSUME NEW row \in TransferRow
  PROVE  /\ Source(row) \in Bucket /\ Destination(row) \in Bucket
         /\ Source(row)[1] = row.batch /\ Destination(row)[1] = row.batch
         /\ row.quantity \in Nat \ {0} /\ row.receivedQty \in Int
         /\ OutstandingQty(row) = row.quantity - row.receivedQty
         /\ row # Absent
  BY TransfersAssumption DEF TransferRow, Source, Destination, Bucket, OutstandingQty

\* The rows of documents.
LEMMA OwnRow ==
  ASSUME ErpInv, NEW t \in Txn, NEW r \in Docs, r = tx[t].doc
  PROVE  /\ holder[r] = t /\ working[r] # Absent /\ ~IsIdle(t)
         /\ ~Unsaved(t, r) => Told(r, Of(ledger \cup pending[t], r), working[r])
         /\ Told(r, Of(ledger, r), committed[r])
         /\ r \in Order => working[r] \in OrderRow
         /\ r \in WorkOrder => working[r] \in WorkOrderRow
         /\ r \in Transfer => working[r] \in TransferRow
  <1>1. holder[r] = t /\ working[r] # Absent
    BY DEF ErpInv, Control, OwnDoc
  <1>2. ~IsIdle(t)
    BY <1>1, DocRows, StockAssumption DEF ErpInv, LocksOK
  <1>3. /\ ~Unsaved(t, r) => Told(r, Of(ledger \cup pending[t], r), working[r])
        /\ Told(r, Of(ledger, r), committed[r])
    BY <1>1 DEF ErpInv, DocsOK
  <1>4. Unsaved(t, r) => r \in Transfer /\ working[r] \in TransferRow
    BY DEF Unsaved, ErpInv, Control, TransferAt
  <1>5. /\ r \in Order => ~Unsaved(t, r) /\ working[r] \in OrderRow
        /\ r \in WorkOrder => ~Unsaved(t, r) /\ working[r] \in WorkOrderRow
        /\ r \in Transfer => working[r] \in TransferRow
    BY <1>1, <1>3, <1>4, DocKinds DEF Told, OrderTold, WorkOrderTold, TransferTold
  <1> QED
    BY <1>1, <1>2, <1>3, <1>5

\* A transaction that is left alone is where it was.
LEMMA OthersControl ==
  ASSUME ErpInv, NEW t \in Txn, LeavesAlone(t), NEW u \in Txn, u # t,
         StockTypeOK',
         \A r \in Docs : holder[r] = u => Of(ledger', r) = Of(ledger, r)
  PROVE  Control(u)'
  <1>1. /\ tx'[u] = tx[u] /\ pending'[u] = pending[u]
        /\ \A r \in Row : /\ holder'[r] = u <=> holder[r] = u
                          /\ holder[r] = u => working'[r] = working[r]
    BY DEF LeavesAlone, Holds
  <1>2. PICK d : d = tx[u].doc
    OBVIOUS
  <1>3. Control(u)
    BY DEF ErpInv
  <1>4. /\ d \in Docs => /\ d \in Row /\ holder[d] = u /\ working[d] # Absent
                         /\ Of(ledger', d) = Of(ledger, d)
    BY <1>2, <1>3, DocRows DEF Control, OwnDoc
  <1>5. OwnDoc(u)'
    BY <1>1, <1>2, <1>3, <1>4, DocRows DEF Control, OwnDoc
  <1>6. ReceiptAt(u)'
    <2>1. ReceiptAt(u) /\ Bucket \subseteq Row
      BY <1>3 DEF Control, Row
    <2> QED
      BY <1>1, <2>1 DEF ReceiptAt
  <1>7. ASSUME d \in Order
        PROVE  OrderAt(u, d)'
    BY <1>1, <1>2, <1>3, <1>4, <1>7 DEF Control, OrderAt, Docs
  <1>8. ASSUME d \in WorkOrder
        PROVE  WorkOrderAt(u, d)'
    <2>1. WorkOrderAt(u, d) /\ d \in Docs
      BY <1>2, <1>3, <1>8 DEF Control, Docs
    <2>2. Of(ledger' \cup pending'[u], d) = Of(ledger \cup pending[u], d)
      <3>1. Of(ledger', d) = Of(ledger, d)
        BY <1>4, <2>1
      <3>2. Of(ledger' \cup pending[u], d) = Of(ledger \cup pending[u], d)
        BY <3>1 DEF Of
      <3> QED
        BY <1>1, <3>2
    <2>3. working'[d] = working[d] /\ Of(ledger', d) = Of(ledger, d)
      BY <1>1, <1>4, <2>1
    <2> QED
      BY <1>1, <2>1, <2>2, <2>3 DEF WorkOrderAt
  <1>9. ASSUME d \in Transfer
        PROVE  TransferAt(u, d)'
    <2>1. TransferAt(u, d) /\ d \in Docs
      BY <1>2, <1>3, <1>9 DEF Control, Docs
    <2>2. working'[d] = working[d]
      BY <1>1, <1>4, <2>1
    <2>3. working[d] \in TransferRow
      BY <1>2, <1>9, <2>1, OwnRow
    <2>4. PICK b \in Bucket : b = Destination(working[d])
      BY <2>3, PlacesOfTransfer
    <2>5. b = Destination(working'[d]) /\ b \in Row
      BY <2>2, <2>4 DEF Row
    <2>6. /\ holder'[b] = u <=> holder[b] = u
          /\ holder[b] = u => working'[b] = working[b]
      BY <1>1, <2>5
    <2>7. Of(ledger' \cup pending'[u], d) = Of(ledger \cup pending[u], d)
      <3>1. Of(ledger', d) = Of(ledger, d)
        BY <1>4, <2>1
      <3>2. Of(ledger' \cup pending[u], d) = Of(ledger \cup pending[u], d)
        BY <3>1 DEF Of
      <3> QED
        BY <1>1, <3>2
    <2>8. Saved(u, d)' = Saved(u, d)
      BY <1>1, <2>2 DEF Saved
    <2> QED
      BY <1>1, <2>1, <2>2, <2>4, <2>5, <2>6, <2>7, <2>8 DEF TransferAt
  <1> QED
    BY <1>1, <1>2, <1>5, <1>6, <1>7, <1>8, <1>9 DEF Control

\* A transaction that has ended is nowhere.
LEMMA EndedControl ==
  ASSUME NEW t \in Txn, StockTypeOK', Holds(t)' = {}, pending'[t] = {},
         tx'[t] = Idle
  PROVE  Control(t)'
  <1>1. tx'[t].doc = None /\ tx'[t].op = "none" /\ None \notin Docs
    BY DocRows DEF Idle
  <1>2. \A r \in Docs : holder'[r] # t
    BY DocRows DEF Holds
  <1>3. OwnDoc(t)' /\ ReceiptAt(t)'
    BY <1>1, <1>2 DEF OwnDoc, ReceiptAt
  <1> QED
    BY <1>1, <1>3 DEF Control, Docs

\* COMMIT keeps the invariant.
LEMMA CommitErp ==
  ASSUME ErpInv, NEW t \in Txn, tx[t].step = "commit", Commit(t)
  PROVE  ErpInv'
  <1>1. StockTypeOK /\ LocksOK /\ LedgerInv /\ Unlocked
    BY DEF ErpInv, LocksOK, Unlocked
  <1>2. /\ StockTypeOK' /\ Unlocked' /\ LeavesAlone(t)
        /\ Holds(t)' = {} /\ pending'[t] = {} /\ tx'[t] = Idle
        /\ \A r \in Row : committed'[r] = IF holder[r] = t THEN working[r]
                                                           ELSE committed[r]
        /\ ledger' = ledger \cup pending[t]
    BY <1>1, CommitEffect DEF Holds
  <1>3. working' = working
    BY DEF Commit
  <1>4. LedgerInv'
    BY <1>1, CommitLedger
  <1>5. LocksOK'
    BY <1>1, <1>2, LocksStay DEF Holds
  <1>6. ASSUME NEW r \in Docs, holder[r] # t
        PROVE  Of(ledger', r) = Of(ledger, r)
    <2>1. Of(pending[t], r) = {}
      BY <1>6, BookedForDoc, DocRows DEF Of
    <2>2. Of(ledger \cup pending[t], r) = Of(ledger, r)
      BY <2>1, OfNothing
    <2> QED
      BY <1>2, <2>2
  <1>7. ASSUME NEW u \in Txn
        PROVE  Control(u)'
    <2>1. CASE u = t
      BY <1>2, <2>1, EndedControl
    <2>2. CASE u # t
      BY <1>2, <1>6, <2>2, OthersControl
    <2> QED
      BY <2>1, <2>2
  <1>8. ASSUME NEW r \in Docs
        PROVE  /\ Told(r, Of(ledger', r), committed'[r])
               /\ r \in WorkOrder => WorkOrderSettled(r, Of(ledger', r), committed'[r])
               /\ \A u \in Txn : holder'[r] = u /\ ~Unsaved(u, r)' =>
                    Told(r, Of(ledger' \cup pending'[u], r), working'[r])
    <2>1. r \in Row
      BY DocRows
    <2>2. CASE holder[r] = t
      <3>1. tx[t].doc = r
        BY <2>2 DEF ErpInv, Control, OwnDoc
      <3>2. committed'[r] = working[r] /\ Of(ledger', r) = Of(ledger \cup pending[t], r)
        BY <1>2, <2>1, <2>2
      <3>3. Told(r, Of(ledger', r), committed'[r])
        BY <2>2, <3>2 DEF ErpInv, DocsOK, Unsaved
      <3>4. r \in WorkOrder => WorkOrderSettled(r, Of(ledger', r), committed'[r])
        BY <3>1, <3>2 DEF ErpInv, Control, WorkOrderAt
      <3>5. \A u \in Txn : holder'[r] # u
        BY <1>2, <2>1, <2>2 DEF Holds, LeavesAlone
      <3> QED
        BY <3>3, <3>4, <3>5
    <2>3. CASE holder[r] # t
      <3>1. committed'[r] = committed[r] /\ Of(ledger', r) = Of(ledger, r)
        BY <1>2, <1>6, <2>1, <2>3
      <3>2. ASSUME NEW u \in Txn, holder'[r] = u, ~Unsaved(u, r)'
            PROVE  Told(r, Of(ledger' \cup pending'[u], r), working'[r])
        <4>1. u # t
          BY <1>2, <2>1, <3>2 DEF Holds
        <4>2. holder[r] = u /\ pending'[u] = pending[u] /\ ~Unsaved(u, r)
          BY <1>2, <2>1, <3>2, <4>1 DEF Holds, LeavesAlone, Unsaved
        <4>3. Of(ledger' \cup pending'[u], r) = Of(ledger \cup pending[u], r)
          <5>1. Of(ledger' \cup pending[u], r) = Of(ledger \cup pending[u], r)
            BY <3>1 DEF Of
          <5> QED
            BY <4>2, <5>1
        <4> QED
          BY <1>3, <4>2, <4>3 DEF ErpInv, DocsOK
      <3> QED
        BY <3>1, <3>2 DEF ErpInv, DocsOK
    <2> QED
      BY <2>2, <2>3
  <1>9. ShelvesOK'
    <2>1. \A b \in Bucket : b \in Row
      BY DEF Row
    <2>2. ASSUME NEW b \in Bucket
          PROVE  /\ Covered(committed'[b]) /\ Covered(working'[b])
                 /\ committed'[b] # Absent => working'[b] # Absent
                 /\ committed[b] # Absent => committed'[b] # Absent
      BY <1>2, <1>3, <2>1 DEF ErpInv, ShelvesOK
    <2>3. ASSUME NEW e \in ledger'
          PROVE  Named(e) /\ committed'[e.inventoryId] # Absent
      <3>1. CASE e \in ledger
        <4>1. e.inventoryId \in Bucket
          BY <3>1 DEF ErpInv, LedgerInv, EntriesOK, Entries, IsEntry
        <4> QED
          BY <2>2, <3>1, <4>1 DEF ErpInv, ShelvesOK
      <3>2. CASE e \in pending[t]
        <4>1. e.inventoryId \in Bucket /\ holder[e.inventoryId] = t
          BY <3>2, BookedForDoc
        <4> QED
          BY <1>2, <2>1, <3>2, <4>1 DEF ErpInv, ShelvesOK
      <3> QED
        BY <1>2, <3>1, <3>2
    <2>4. ASSUME NEW u \in Txn, NEW e \in pending'[u]
          PROVE  Named(e) /\ working'[e.inventoryId] # Absent
      <3>1. e \in pending[u]
        BY <1>2, <2>4 DEF LeavesAlone
      <3> QED
        BY <1>3, <3>1 DEF ErpInv, ShelvesOK
    <2> QED
      BY <2>2, <2>3, <2>4 DEF ShelvesOK
  <1>10. KeysUnique'
    <2>1. \A u \in Txn : pending'[u] \subseteq pending[u]
      BY <1>2 DEF LeavesAlone
    <2>2. \A u \in Txn : u # t => pending'[u] = pending[u]
      BY <1>2 DEF LeavesAlone
    <2> QED
      BY <1>2, <2>1, <2>2 DEF ErpInv, KeysUnique
  <1> QED
    BY <1>2, <1>4, <1>5, <1>7, <1>8, <1>9, <1>10 DEF ErpInv, DocsOK

-----------------------------------------------------------------------------
(***************************************************************************)
(* Statements in general: what one that writes a bucket, a document or the *)
(* ledger has to show.                                                     *)
(***************************************************************************)

\* ROLLBACK keeps the invariant.
LEMMA RollbackErp ==
  ASSUME ErpInv, NEW t \in Txn, Rollback(t)
  PROVE  ErpInv'
  <1>1. StockTypeOK /\ LocksOK /\ LedgerInv /\ Unlocked
    BY DEF ErpInv, LocksOK, Unlocked
  <1>2. /\ StockTypeOK' /\ Unlocked' /\ LeavesAlone(t)
        /\ Holds(t)' = {} /\ pending'[t] = {} /\ tx'[t] = Idle
        /\ committed' = committed /\ ledger' = ledger
    BY <1>1, RollbackEffect
  <1>3. \A r \in Row : working'[r] = IF holder[r] = t THEN committed[r]
                                                      ELSE working[r]
    BY DEF Rollback
  <1>4. LedgerInv'
    BY <1>1, RollbackLedger
  <1>5. LocksOK'
    BY <1>1, <1>2, LocksStay DEF Holds
  <1>6. ASSUME NEW u \in Txn
        PROVE  Control(u)'
    <2>1. CASE u = t
      BY <1>2, <2>1, EndedControl
    <2>2. CASE u # t
      BY <1>2, <2>2, OthersControl
    <2> QED
      BY <2>1, <2>2
  <1>7. ASSUME NEW r \in Docs, NEW u \in Txn, holder'[r] = u, ~Unsaved(u, r)'
        PROVE  Told(r, Of(ledger \cup pending'[u], r), working'[r])
    <2>1. r \in Row
      BY DocRows
    <2>2. u # t
      BY <1>2, <1>7, <2>1 DEF Holds
    <2>3. /\ holder[r] = u /\ pending'[u] = pending[u] /\ working'[r] = working[r]
          /\ ~Unsaved(u, r)
      BY <1>2, <1>7, <2>1, <2>2 DEF Holds, LeavesAlone, Unsaved
    <2> QED
      BY <2>3 DEF ErpInv, DocsOK
  <1>8. DocsOK'
    BY <1>2, <1>7 DEF ErpInv, DocsOK
  <1>9. ShelvesOK'
    <2>1. \A b \in Bucket : b \in Row
      BY DEF Row
    <2>2. ASSUME NEW b \in Bucket
          PROVE  /\ Covered(committed'[b]) /\ Covered(working'[b])
                 /\ committed'[b] # Absent => working'[b] # Absent
      BY <1>2, <1>3, <2>1 DEF ErpInv, ShelvesOK
    <2>3. ASSUME NEW u \in Txn, NEW e \in pending'[u]
          PROVE  Named(e) /\ working'[e.inventoryId] # Absent
      <3>1. u # t /\ e \in pending[u]
        BY <1>2, <2>3 DEF LeavesAlone
      <3>2. e.inventoryId \in Bucket /\ holder[e.inventoryId] = u
        BY <3>1, BookedForDoc
      <3> QED
        BY <1>3, <2>1, <3>1, <3>2 DEF ErpInv, ShelvesOK
    <2> QED
      BY <1>2, <2>2, <2>3 DEF ErpInv, ShelvesOK
  <1>10. KeysUnique'
    <2>1. \A u \in Txn : pending'[u] \subseteq pending[u]
      BY <1>2 DEF LeavesAlone
    <2> QED
      BY <1>2, <2>1 DEF ErpInv, KeysUnique
  <1> QED
    BY <1>2, <1>4, <1>5, <1>6, <1>8, <1>9, <1>10 DEF ErpInv

\* What every statement leaves in order: the shape of the variables, the
\* buckets, and who holds what.
Tidy(t) ==
    /\ DOMAIN working' = Row /\ holder' \in [Row -> Txn \cup {None}]
    /\ DOMAIN pending' = Txn /\ tx' \in [Txn -> TxRow]
    /\ tx'[t].step # "idle"
    /\ \A b \in Bucket :
         /\ working'[b] \in BucketRow \cup {Absent} /\ Covered(working'[b])
         /\ working[b] # Absent => working'[b] # Absent

\* The document of t goes on telling what its movements have been.
DocTold(t) ==
    \A r \in Docs : holder'[r] = t /\ ~Unsaved(t, r)' =>
      Told(r, Of(ledger \cup pending'[t], r), working'[r])

\* A statement that keeps the books, its own document and its own place keeps
\* the invariant.
LEMMA StatementErp ==
  ASSUME ErpInv, NEW t \in Txn, NEW S \in SUBSET Row, Touches(t, S), Tidy(t),
         LedgerInv', KeysUnique', DocTold(t), Control(t)',
         \A e \in pending'[t] : Named(e) /\ working'[e.inventoryId] # Absent
  PROVE  ErpInv'
  <1>1. Unlocked
    BY DEF ErpInv, LocksOK, Unlocked
  <1>2. LeavesAlone(t) /\ Unlocked'
    BY <1>1, TouchesAlone
  <1>3. committed' = committed /\ ledger' = ledger
    BY DEF Touches
  <1>4. StockTypeOK'
    BY <1>3 DEF Tidy, ErpInv, StockTypeOK
  <1>5. LocksOK'
    BY <1>2, <1>4, LocksStay DEF ErpInv, Tidy, IsIdle
  <1>6. ASSUME NEW u \in Txn
        PROVE  Control(u)'
    BY <1>2, <1>3, <1>4, OthersControl
  <1>7. ASSUME NEW r \in Docs, NEW u \in Txn, holder'[r] = u, ~Unsaved(u, r)'
        PROVE  Told(r, Of(ledger \cup pending'[u], r), working'[r])
    <2>1. CASE u = t
      BY <1>7, <2>1 DEF DocTold
    <2>2. CASE u # t
      <3>1. r \in Row
        BY DocRows
      <3>2. /\ holder[r] = u /\ pending'[u] = pending[u] /\ working'[r] = working[r]
            /\ ~Unsaved(u, r)
        BY <1>2, <1>7, <2>2, <3>1 DEF Holds, LeavesAlone, Unsaved
      <3> QED
        BY <3>2 DEF ErpInv, DocsOK
    <2> QED
      BY <2>1, <2>2
  <1>8. DocsOK'
    BY <1>3, <1>7 DEF ErpInv, DocsOK
  <1>9. ShelvesOK'
    <2>1. \A b \in Bucket : b \in Row
      BY DEF Row
    <2>2. ASSUME NEW u \in Txn, NEW e \in pending'[u]
          PROVE  Named(e) /\ working'[e.inventoryId] # Absent
      <3>1. CASE u # t
        <4>1. e \in pending[u]
          BY <1>2, <2>2, <3>1 DEF LeavesAlone
        <4>2. e.inventoryId \in Bucket
          BY <4>1, BookedForDoc
        <4> QED
          BY <4>1, <4>2 DEF ErpInv, ShelvesOK, Tidy
      <3> QED
        BY <2>2, <3>1
    <2> QED
      BY <1>3, <2>2 DEF ErpInv, ShelvesOK, Tidy
  <1> QED
    BY <1>4, <1>5, <1>6, <1>8, <1>9 DEF ErpInv

\* A statement that books nothing.
LEMMA QuietErp ==
  ASSUME ErpInv, NEW t \in Txn, NEW S \in SUBSET Row, Touches(t, S), Tidy(t),
         pending' = pending,
         \A b \in Bucket : Quantities(working'[b]) = Quantities(working[b]),
         DocTold(t), Control(t)'
  PROVE  ErpInv'
  <1>1. BooksNothing(t)
    BY DEF Touches, BooksNothing, CanLock, Row
  <1>2. LedgerInv'
    BY <1>1, NothingBooked DEF ErpInv
  <1>3. ASSUME NEW e \in pending'[t]
        PROVE  Named(e) /\ working'[e.inventoryId] # Absent
    <2>1. e \in pending[t] /\ e.inventoryId \in Bucket
      BY <1>3, BookedForDoc
    <2> QED
      BY <2>1 DEF ErpInv, ShelvesOK, Tidy
  <1>4. KeysUnique'
    <2>1. ledger' = ledger
      BY DEF Touches
    <2> QED
      BY <2>1 DEF ErpInv, KeysUnique
  <1> QED
    BY <1>2, <1>3, <1>4, StatementErp

Entry(key, b, p, q, ref) ==
    [idempotencyKey |-> key, inventoryId |-> b, physicalDelta |-> p,
     reservedDelta |-> q, refId |-> ref]

\* A statement that books one movement of the bucket b, which t then holds.
Books(t, S, key, b, p, q, ref) ==
    /\ Touches(t, S) /\ b \in S
    /\ working[b] # Absent /\ working'[b] = Moved(working[b], p, q)
    /\ \A c \in Bucket \ {b} : c \notin S /\ working'[c] = working[c]
    /\ pending' = [pending EXCEPT ![t] = @ \cup {Entry(key, b, p, q, ref)}]
    /\ DOMAIN working' = Row /\ holder' \in [Row -> Txn \cup {None}]
    /\ tx' \in [Txn -> TxRow] /\ tx'[t].step # "idle"

LEMMA EntryIs ==
  ASSUME NEW key, NEW b \in Bucket, NEW p \in Int, NEW q \in Int, NEW ref,
         NEW e, e = Entry(key, b, p, q, ref)
  PROVE  /\ IsEntry(e) /\ e.idempotencyKey = key /\ e.inventoryId = b
         /\ e.physicalDelta = p /\ e.reservedDelta = q /\ e.refId = ref
  BY DEF Entry, IsEntry

\* It keeps the invariant if the movement is new and leaves what is reserved.
LEMMA BookingErp ==
  ASSUME ErpInv, NEW t \in Txn, NEW S \in SUBSET Row, NEW key, NEW b \in Bucket,
         NEW p \in Int, NEW q \in Int, NEW ref, Books(t, S, key, b, p, q, ref),
         UnusedKey(key),
         Quantities(working[b]).reservedQty + q
           <= Quantities(working[b]).physicalQty + p,
         Named(Entry(key, b, p, q, ref)), DocTold(t), Control(t)'
  PROVE  ErpInv'
  <1>1. /\ StockTypeOK /\ LocksOK /\ LedgerInv /\ ShelvesOK
        /\ working[b] \in BucketRow /\ Quantities(working[b]) = working[b]
    BY DEF ErpInv, StockTypeOK, Books, Quantities
  <1>2. /\ working'[b] \in BucketRow /\ Covered(working'[b])
        /\ working'[b] # Absent
    <2>1. PICK row \in BucketRow : row = working[b]
      BY <1>1
    <2>2. PICK after : after = Moved(row, p, q)
      OBVIOUS
    <2>3. /\ after \in BucketRow /\ after.reservedQty = row.reservedQty + q
          /\ after.physicalQty = row.physicalQty + p
      BY <2>2 DEF Moved, BucketRow
    <2>4. after # Absent /\ Quantities(after) = after /\ Quantities(row) = row
      BY <1>1, <2>1, <2>3, StockAssumption DEF Quantities
    <2>5. Covered(after)
      BY <2>1, <2>3, <2>4 DEF Covered
    <2> QED
      BY <2>1, <2>2, <2>3, <2>4, <2>5 DEF Books
  <1>3. BooksMovement(t, key, b, p, q, ref)
    <2>1. CanLock(t, b) /\ holder'[b] = t /\ committed' = committed /\ ledger' = ledger
      BY DEF Books, Touches
    <2>2. \A c \in Bucket \ {b} : holder'[c] = holder[c]
      BY DEF Books, Touches, Row
    <2>3. Book(t, key, b, p, q, ref)
      BY DEF Books, Book, Entry
    <2> QED
      BY <2>1, <2>2, <2>3 DEF Books, BooksMovement
  <1>4. LedgerInv'
    <2>1. \A e \in ledger \cup pending[t] : e.idempotencyKey # key
      BY DEF UnusedKey
    <2> QED
      BY <1>1, <1>3, <2>1, MovementBooked
  <1>5. Tidy(t)
    <2>1. \A c \in Bucket :
            /\ working'[c] \in BucketRow \cup {Absent} /\ Covered(working'[c])
            /\ working[c] # Absent => working'[c] # Absent
      BY <1>1, <1>2 DEF Books, ShelvesOK, StockTypeOK
    <2>2. DOMAIN pending' = Txn
      BY <1>1 DEF Books, StockTypeOK
    <2> QED
      BY <2>1, <2>2 DEF Tidy, Books
  <1>6. ASSUME NEW e \in pending'[t]
        PROVE  Named(e) /\ working'[e.inventoryId] # Absent
    <2>1. PICK new : new = Entry(key, b, p, q, ref)
      OBVIOUS
    <2>2. new.inventoryId = b /\ Named(new)
      BY <2>1, EntryIs
    <2>3. pending'[t] = pending[t] \cup {new}
      BY <1>1, <2>1 DEF Books, StockTypeOK
    <2>4. CASE e = new
      BY <1>2, <2>2, <2>4
    <2>5. CASE e \in pending[t]
      <3>1. e.inventoryId \in Bucket
        BY <2>5, BookedForDoc
      <3> QED
        BY <1>1, <1>5, <2>5, <3>1 DEF ShelvesOK, Tidy
    <2> QED
      BY <1>6, <2>3, <2>4, <2>5
  <1>7. Touches(t, S)
    BY DEF Books
  <1>8. KeysUnique'
    <2>1. PICK new : new = Entry(key, b, p, q, ref)
      OBVIOUS
    <2>2. new.idempotencyKey = key /\ new \notin ledger
      BY <2>1, EntryIs DEF UnusedKey
    <2>3. /\ pending'[t] = pending[t] \cup {new} /\ ledger' = ledger
          /\ \A u \in Txn \ {t} : pending'[u] = pending[u]
      BY <1>1, <2>1 DEF Books, Touches, StockTypeOK
    <2>4. ASSUME NEW u \in Txn, NEW v \in Txn, NEW d \in pending'[u],
                 NEW e \in ledger \cup pending'[v],
                 d.idempotencyKey = e.idempotencyKey
          PROVE  u = v /\ d = e /\ e \notin ledger
      <3>1. d \in pending[u] \/ (u = t /\ d = new)
        BY <2>3
      <3>2. e \in ledger \cup pending[v] \/ (v = t /\ e = new)
        BY <2>3
      <3> QED
        BY <2>2, <2>4, <3>1, <3>2 DEF ErpInv, KeysUnique, UnusedKey
    <2> QED
      BY <2>3, <2>4 DEF ErpInv, KeysUnique
  <1> QED
    BY <1>4, <1>5, <1>6, <1>7, <1>8, StatementErp

\* The sums of one more movement.
LEMMA OneMore ==
  ASSUME NEW S, Entries(S), NEW e, IsEntry(e), e \notin S
  PROVE  /\ Entries(S \cup {e})
         /\ PhysicalSum(S \cup {e}) = PhysicalSum(S) + e.physicalDelta
         /\ PhysicalSum(S) \in Int
         /\ \A c : /\ ReservedSum(At(S, c)) \in Int
                   /\ c = e.inventoryId => ReservedSum(At(S \cup {e}, c))
                                = ReservedSum(At(S, c)) + e.reservedDelta
                   /\ c # e.inventoryId => At(S \cup {e}, c) = At(S, c)
  <1>1. Entries(S \cup {e})
    BY FS_AddElement DEF Entries
  <1>2. PhysicalSum(S \cup {e}) = PhysicalSum(S) + e.physicalDelta /\ PhysicalSum(S) \in Int
    BY LedgerSums
  <1>3. ASSUME NEW c
        PROVE  /\ ReservedSum(At(S, c)) \in Int
               /\ c = e.inventoryId => ReservedSum(At(S \cup {e}, c))
                                = ReservedSum(At(S, c)) + e.reservedDelta
               /\ c # e.inventoryId => At(S \cup {e}, c) = At(S, c)
    <2>1. Entries(At(S, c))
      BY RowsAt
    <2>2. ReservedSum(At(S, c)) \in Int
      BY <2>1, LedgerSums
    <2>3. ASSUME c = e.inventoryId
          PROVE  ReservedSum(At(S \cup {e}, c)) = ReservedSum(At(S, c)) + e.reservedDelta
      <3>1. At(S \cup {e}, c) = At(S, c) \cup {e} /\ e \notin At(S, c)
        BY <2>3 DEF At
      <3>2. ReservedSum(At(S, c) \cup {e}) = ReservedSum(At(S, c)) + e.reservedDelta
        BY <2>1, <3>1, LedgerSums
      <3> QED
        BY <3>1, <3>2
    <2>4. ASSUME c # e.inventoryId
          PROVE  At(S \cup {e}, c) = At(S, c)
      BY <2>4 DEF At
    <2> QED
      BY <2>2, <2>3, <2>4
  <1> QED
    BY <1>1, <1>2, <1>3

\* The place of a transaction in the work on its document r.
Placed(t, r) ==
    /\ r \in Order => OrderAt(t, r)
    /\ r \in WorkOrder => WorkOrderAt(t, r)
    /\ r \in Transfer => TransferAt(t, r)

\* A transaction on the document r has its place.
LEMMA DocPlaced ==
  ASSUME ErpInv, NEW t \in Txn, NEW r \in Docs, r = tx[t].doc
  PROVE  Placed(t, r)
  BY DEF ErpInv, Control, Placed

\* What DocTold and Control ask of a transaction on the document r.
LEMMA DocControl ==
  ASSUME ErpInv, NEW t \in Txn, NEW r \in Docs, tx'[t].doc = r, Placed(t, r)',
         tx'[t].op # "receipt", holder'[r] = t, working'[r] # Absent,
         \A d \in Docs : holder'[d] = t => d = r,
         \A e \in pending'[t] : e.refId = r,
         ~Unsaved(t, r)' => Told(r, Of(ledger \cup pending'[t], r), working'[r])
  PROVE  DocTold(t) /\ Control(t)'
  <1>1. DocTold(t)
    BY DEF DocTold
  <1>2. OwnDoc(t)' /\ ReceiptAt(t)'
    BY DEF OwnDoc, ReceiptAt
  <1>3. Placed(t, tx[t].doc)'
    BY DEF Placed, OrderAt, WorkOrderAt, TransferAt
  <1>4. Control(t)'
    BY <1>2, <1>3 DEF Control, Placed
  <1> QED
    BY <1>1, <1>4

\* A statement of the transaction on r that books nothing.
LEMMA DocQuietErp ==
  ASSUME ErpInv, NEW t \in Txn, NEW r \in Docs, r = tx[t].doc,
         NEW S \in SUBSET Bucket, Touches(t, S), Tidy(t), pending' = pending,
         \A b \in Bucket : Quantities(working'[b]) = Quantities(working[b]),
         tx'[t].doc = r, tx'[t].op # "receipt", working'[r] # Absent,
         Told(r, Of(ledger \cup pending[t], r), working'[r]), Placed(t, r)'
  PROVE  ErpInv'
  <1>1. OwnDoc(t) /\ S \in SUBSET Row /\ holder[r] = t
    BY OwnRow DEF ErpInv, Control, Row
  <1>2. \A d \in Docs : holder'[d] = holder[d]
    BY DocRows DEF Touches
  <1>3. \A e \in pending'[t] : e.refId = r
    BY <1>1 DEF OwnDoc
  <1>4. \A d \in Docs : holder'[d] = t => d = r
    BY <1>1, <1>2 DEF OwnDoc
  <1>5. Told(r, Of(ledger \cup pending'[t], r), working'[r])
    OBVIOUS
  <1>6. holder'[r] = t
    BY <1>1, <1>2
  <1>7. DocTold(t) /\ Control(t)'
    BY <1>3, <1>4, <1>5, <1>6, DocControl
  <1> QED
    BY <1>1, <1>7, QuietErp

\* A statement of the transaction on r that books the movement e of bucket b.
LEMMA DocBookingErp ==
  ASSUME ErpInv, NEW t \in Txn, NEW r \in Docs, r = tx[t].doc, NEW key,
         NEW b \in Bucket, NEW p \in Int, NEW q \in Int,
         Books(t, {b}, key, b, p, q, r),
         key[1] \notin {"RECEIPT", "NULL"}, key[2] = r,
         \A e \in Of(ledger \cup pending[t], r) : e.idempotencyKey # key,
         Quantities(working[b]).reservedQty + q
           <= Quantities(working[b]).physicalQty + p,
         tx'[t].doc = r, tx'[t].op # "receipt", working'[r] # Absent,
         ~Unsaved(t, r)' =>
           Told(r, Of(ledger \cup pending[t], r) \cup {Entry(key, b, p, q, r)},
                working'[r]),
         Placed(t, r)'
  PROVE  ErpInv'
  <1>1. OwnDoc(t) /\ {b} \in SUBSET Row /\ holder[r] = t /\ StockTypeOK
    BY OwnRow DEF ErpInv, Control, Row
  <1>2. \A d \in Docs : holder'[d] = holder[d]
    BY DocRows DEF Books, Touches
  <1>3. PICK e : e = Entry(key, b, p, q, r)
    OBVIOUS
  <1>4. e.refId = r
    BY <1>3, EntryIs
  <1>5. pending'[t] = pending[t] \cup {e}
    BY <1>1, <1>3 DEF Books, StockTypeOK
  <1>6. Of(ledger \cup pending'[t], r) = Of(ledger \cup pending[t], r) \cup {e}
    BY <1>4, <1>5 DEF Of
  <1>7. \A d \in pending'[t] : d.refId = r
    BY <1>1, <1>4, <1>5 DEF OwnDoc
  <1>8. \A d \in Docs : holder'[d] = t => d = r
    BY <1>1, <1>2 DEF OwnDoc
  <1>9. ~Unsaved(t, r)' => Told(r, Of(ledger \cup pending'[t], r), working'[r])
    BY <1>3, <1>6
  <1>10. holder'[r] = t
    BY <1>1, <1>2
  <1>11. DocTold(t) /\ Control(t)'
    BY <1>7, <1>8, <1>9, <1>10, DocControl
  <1>12. UnusedKey(key)
    BY <1>1, NewToAll
  <1>13. Named(Entry(key, b, p, q, r))
    BY <1>3, <1>4 DEF Named
  <1> QED
    BY <1>1, <1>11, <1>12, <1>13, BookingErp

\* A transaction that begins with the row of the document r.
LEMMA DocBeginErp ==
  ASSUME ErpInv, NEW t \in Txn, IsIdle(t), NEW r \in Docs, Touches(t, {r}),
         DOMAIN working' = Row, holder' \in [Row -> Txn \cup {None}],
         pending' = pending, tx' \in [Txn -> TxRow], tx'[t].step # "idle",
         \A b \in Bucket : working'[b] = working[b],
         tx'[t].doc = r, tx'[t].op # "receipt", working'[r] # Absent,
         Told(r, Of(ledger, r), working'[r]), Placed(t, r)'
  PROVE  ErpInv'
  <1>1. /\ pending[t] = {} /\ \A d \in Row : holder[d] # t
        /\ StockTypeOK /\ ShelvesOK
    BY IdleHasNothing DEF ErpInv
  <1>2. \A d \in Docs : holder'[d] = IF d = r THEN t ELSE holder[d]
    BY DocRows DEF Touches
  <1>3. Of(ledger \cup pending'[t], r) = Of(ledger, r)
    BY <1>1 DEF Of
  <1>4. Told(r, Of(ledger \cup pending'[t], r), working'[r])
    BY <1>3
  <1>5. \A d \in Docs : holder'[d] = t => d = r
    BY <1>1, <1>2, DocRows
  <1>6. DocTold(t) /\ Control(t)'
    BY <1>1, <1>2, <1>4, <1>5, DocControl
  <1>7. Tidy(t)
    BY <1>1 DEF Tidy, StockTypeOK, ShelvesOK
  <1>8. {r} \in SUBSET Row
    BY DocRows
  <1> QED
    BY <1>6, <1>7, <1>8, QuietErp

-----------------------------------------------------------------------------
(***************************************************************************)
(* Receipts and adjustments.                                               *)
(***************************************************************************)

\* A transaction that is about no document of the services.
LEMMA PlainControl ==
  ASSUME NEW t \in Txn, tx'[t].doc \notin Docs, \A r \in Docs : holder'[r] # t,
         \A e \in pending'[t] : e.refId = None, ReceiptAt(t)'
  PROVE  DocTold(t) /\ Control(t)'
  <1>1. DocTold(t)
    BY DEF DocTold
  <1>2. OwnDoc(t)'
    BY DEF OwnDoc
  <1> QED
    BY <1>1, <1>2 DEF Control, Docs

\* What such a transaction has.
LEMMA PlainHas ==
  ASSUME ErpInv, NEW t \in Txn, tx[t].doc \notin Docs
  PROVE  /\ \A r \in Docs : holder[r] # t
         /\ \A e \in pending[t] : e.refId = None
  BY DEF ErpInv, Control, OwnDoc

\* References and new batches are no documents of the services.
LEMMA PlainNames ==
  /\ \A r \in Reference \cup {None} : r \notin Docs
  /\ \A d \in NewBatch : d \notin Docs /\ d \in Row /\ d \notin Bucket
  BY ErpAssumption, StockAssumption, InventoryAssumption, DocRows DEF Docs, Row

\* What Begin leaves in the record of its transaction.
LEMMA BeginIs ==
  ASSUME StockTypeOK, NEW t \in Txn, NEW b \in Bucket, NEW q \in Int,
         NEW reference \in Reference \cup {None},
         NEW op \in {"receipt", "adjustment"},
         NEW step \in {"find", "seek", "commit"},
         Begin(t, op, step, b, q, reference)
  PROVE  /\ IsIdle(t)
         /\ tx' \in [Txn -> TxRow] /\ \A u \in Txn \ {t} : tx'[u] = tx[u]
         /\ tx'[t].step = step /\ tx'[t].remaining = q /\ tx'[t].todo = {b}
         /\ tx'[t].op = op /\ tx'[t].doc = reference
  BY BeginLeaves DEF Begin, StockTypeOK, Idle

\* A receipt begins.
LEMMA BeginReceiptErp ==
  ASSUME ErpInv, NEW t \in Txn, NEW b \in Bucket, NEW q \in Quantity,
         NEW reference \in Reference \cup {None}, NEW step \in {"find", "seek"},
         step = "find" => b[1] \in NewBatch,
         Begin(t, "receipt", step, b, q, reference), UNCHANGED <<rows, ledger, pending>>
  PROVE  ErpInv'
  <1>1. StockTypeOK /\ ShelvesOK /\ q \in Nat
    BY InventoryAssumption DEF ErpInv
  <1>2. /\ IsIdle(t)
        /\ tx' \in [Txn -> TxRow] /\ \A u \in Txn \ {t} : tx'[u] = tx[u]
        /\ tx'[t].step = step /\ tx'[t].remaining = q /\ tx'[t].todo = {b}
        /\ tx'[t].op = "receipt" /\ tx'[t].doc = reference
    BY <1>1, BeginIs
  <1>3. pending[t] = {} /\ \A r \in Row : holder[r] # t
    BY <1>2, IdleHasNothing
  <1>4. /\ working' = working /\ holder' = holder /\ committed' = committed
        /\ ledger' = ledger /\ pending' = pending
    BY DEF rows
  <1>5. Touches(t, {})
    BY <1>2, <1>4 DEF Touches
  <1>6. Tidy(t)
    BY <1>1, <1>2, <1>4 DEF Tidy, StockTypeOK, ShelvesOK
  <1>7. ReceiptAt(t)'
    BY <1>1, <1>2, PlainNames DEF ReceiptAt
  <1>8. DocTold(t) /\ Control(t)'
    BY <1>2, <1>3, <1>4, <1>7, PlainControl, PlainNames, DocRows
  <1> QED
    BY <1>4, <1>5, <1>6, <1>8, QuietErp

\* The bucket a receipt is about.
LEMMA ReceiptBucket ==
  ASSUME ErpInv, NEW t \in Txn, tx[t].op = "receipt"
  PROVE  \E b \in Bucket : /\ tx[t].todo = {b} /\ BucketOf(t) = b
                           /\ tx[t].step = "find" => b[1] \in NewBatch
                           /\ tx[t].step = "book" => holder[b] = t /\ working[b] # Absent
                           /\ tx[t].doc \notin Docs /\ tx[t].remaining \in Nat
  <1>1. ReceiptAt(t)
    BY DEF ErpInv, Control
  <1> QED
    BY <1>1, BucketOfIs DEF ReceiptAt

\* The INSERT of a new batch.
LEMMA InsertBatchErp ==
  ASSUME ErpInv, NEW t \in Txn, tx[t].op = "receipt", InsertBatch(t)
  PROVE  ErpInv'
  <1>1. StockTypeOK /\ ShelvesOK
    BY DEF ErpInv
  <1>2. PICK b \in Bucket : /\ tx[t].todo = {b} /\ BucketOf(t) = b
                            /\ tx[t].step = "find" => b[1] \in NewBatch
                            /\ tx[t].doc \notin Docs /\ tx[t].remaining \in Nat
    BY ReceiptBucket
  <1>3. PICK d : d = b[1]
    OBVIOUS
  <1>4. /\ tx[t].step = "find" /\ \A c \in SameCode(d) : CanLock(t, c)
        /\ holder' = [holder EXCEPT ![d] = t]
        /\ working' = [working EXCEPT ![d] = CodeOf[d]]
        /\ tx' = [tx EXCEPT ![t].step = "seek"]
        /\ committed' = committed /\ ledger' = ledger /\ pending' = pending
    BY <1>2, <1>3 DEF InsertBatch
  <1>5. d \in NewBatch /\ d \notin Docs /\ d \in Row /\ d \notin Bucket
    BY <1>2, <1>3, <1>4, PlainNames
  <1>6. /\ tx' \in [Txn -> TxRow] /\ \A u \in Txn \ {t} : tx'[u] = tx[u]
        /\ tx'[t].step = "seek" /\ tx'[t].remaining = tx[t].remaining
        /\ tx'[t].todo = tx[t].todo /\ tx'[t].op = tx[t].op
        /\ tx'[t].doc = tx[t].doc
    BY <1>1, <1>4, StepOfRecord
  <1>7. CanLock(t, d)
    BY <1>4, <1>5 DEF SameCode
  <1>8. Touches(t, {d})
    BY <1>1, <1>4, <1>5, <1>6, <1>7 DEF Touches, StockTypeOK
  <1>9. Tidy(t)
    BY <1>1, <1>4, <1>5, <1>6 DEF Tidy, StockTypeOK, ShelvesOK
  <1>10. ReceiptAt(t)'
    BY <1>2, <1>6 DEF ReceiptAt
  <1>11. (\A r \in Docs : holder'[r] # t) /\ \A e \in pending'[t] : e.refId = None
    BY <1>1, <1>2, <1>4, <1>5, PlainHas, DocRows DEF StockTypeOK
  <1>12. DocTold(t) /\ Control(t)'
    BY <1>2, <1>6, <1>10, <1>11, PlainControl
  <1>13. {d} \in SUBSET Row
    BY <1>5
  <1>14. \A c \in Bucket : Quantities(working'[c]) = Quantities(working[c])
    BY <1>1, <1>4, <1>5 DEF StockTypeOK
  <1> QED
    BY <1>4, <1>8, <1>9, <1>12, <1>13, <1>14, QuietErp

\* The statements of lockOrCreateBucket.
ShelfStep(t, b, S) ==
    /\ Touches(t, S) /\ Tidy(t) /\ pending' = pending
    /\ \A c \in Bucket : Quantities(working'[c]) = Quantities(working[c])
    /\ \A r \in Row \ {b} : working'[r] = working[r]
    /\ tx'[t].remaining = tx[t].remaining /\ tx'[t].todo = tx[t].todo
    /\ tx'[t].op = tx[t].op /\ tx'[t].doc = tx[t].doc
    /\ \/ tx'[t].step = "insert"
       \/ tx'[t].step = "book" /\ holder'[b] = t /\ working'[b] # Absent

LEMMA SeekShelf ==
  ASSUME ErpInv, NEW t \in Txn, NEW b \in Bucket, SeekBucket(t, b)
  PROVE  \E S \in SUBSET {b} : ShelfStep(t, b, S)
  <1>1. StockTypeOK /\ ShelvesOK /\ LocksOK /\ b \in Row
    BY DEF ErpInv, Row
  <1>2. /\ committed' = committed /\ working' = working
        /\ ledger' = ledger /\ pending' = pending
    BY DEF SeekBucket
  <1>3. CASE /\ tx' = [tx EXCEPT ![t].step = "insert"]
             /\ UNCHANGED holder
    <2>1. /\ tx' \in [Txn -> TxRow] /\ \A u \in Txn \ {t} : tx'[u] = tx[u]
          /\ tx'[t].step = "insert" /\ tx'[t].remaining = tx[t].remaining
          /\ tx'[t].todo = tx[t].todo /\ tx'[t].op = tx[t].op
          /\ tx'[t].doc = tx[t].doc
      BY <1>1, <1>3, StepOfRecord
    <2>2. Touches(t, {})
      BY <1>2, <1>3, <2>1 DEF Touches
    <2>3. Tidy(t)
      BY <1>1, <1>2, <1>3, <2>1 DEF Tidy, StockTypeOK, ShelvesOK
    <2>4. ShelfStep(t, b, {})
      BY <1>2, <2>1, <2>2, <2>3 DEF ShelfStep
    <2> QED
      BY <2>4
  <1>4. CASE /\ View(t, b) # Absent
             /\ CanLock(t, b)
             /\ holder' = [holder EXCEPT ![b] = t]
             /\ tx' = [tx EXCEPT ![t].step = "book"]
    <2>1. /\ tx' \in [Txn -> TxRow] /\ \A u \in Txn \ {t} : tx'[u] = tx[u]
          /\ tx'[t].step = "book" /\ tx'[t].remaining = tx[t].remaining
          /\ tx'[t].todo = tx[t].todo /\ tx'[t].op = tx[t].op
          /\ tx'[t].doc = tx[t].doc
      BY <1>1, <1>4, StepOfRecord
    <2>2. Touches(t, {b})
      BY <1>1, <1>2, <1>4, <2>1 DEF Touches, StockTypeOK
    <2>3. Tidy(t)
      BY <1>1, <1>2, <1>4, <2>1 DEF Tidy, StockTypeOK, ShelvesOK
    <2>4. working[b] # Absent
      BY <1>1, <1>4 DEF View, CanLock, LocksOK
    <2>5. holder'[b] = t
      BY <1>1, <1>4 DEF StockTypeOK
    <2>6. ShelfStep(t, b, {b})
      BY <1>2, <2>1, <2>2, <2>3, <2>4, <2>5 DEF ShelfStep
    <2> QED
      BY <2>6
  <1> QED
    BY <1>3, <1>4 DEF SeekBucket

LEMMA InsertShelf ==
  ASSUME ErpInv, NEW t \in Txn, NEW b \in Bucket, InsertBucket(t, b)
  PROVE  \E S \in SUBSET {b} : ShelfStep(t, b, S)
  <1>1. StockTypeOK /\ ShelvesOK /\ LocksOK /\ b \in Row
    BY DEF ErpInv, Row
  <1>2. /\ committed' = committed /\ ledger' = ledger /\ pending' = pending
        /\ CanLock(t, b) /\ working[b] = Absent
        /\ holder' = [holder EXCEPT ![b] = t]
        /\ working' = [working EXCEPT ![b] = EmptyBucket]
        /\ tx' = [tx EXCEPT ![t].step = "book"]
    BY DEF InsertBucket
  <1>3. /\ tx' \in [Txn -> TxRow] /\ \A u \in Txn \ {t} : tx'[u] = tx[u]
        /\ tx'[t].step = "book" /\ tx'[t].remaining = tx[t].remaining
        /\ tx'[t].todo = tx[t].todo /\ tx'[t].op = tx[t].op
        /\ tx'[t].doc = tx[t].doc
    BY <1>1, <1>2, StepOfRecord
  <1>4. /\ EmptyBucket \in BucketRow /\ EmptyBucket # Absent
        /\ Quantities(EmptyBucket) = Quantities(Absent) /\ Covered(EmptyBucket)
    BY StockAssumption DEF EmptyBucket, BucketRow, Quantities, Covered
  <1>5. /\ working'[b] = EmptyBucket /\ holder'[b] = t /\ DOMAIN working' = Row
        /\ \A r \in Row \ {b} : working'[r] = working[r]
    BY <1>1, <1>2 DEF StockTypeOK
  <1>6. Touches(t, {b})
    BY <1>1, <1>2, <1>3, <1>5 DEF Touches, StockTypeOK
  <1>7. ASSUME NEW c \in Bucket
        PROVE  /\ working'[c] \in BucketRow \cup {Absent} /\ Covered(working'[c])
               /\ working[c] # Absent => working'[c] # Absent
               /\ Quantities(working'[c]) = Quantities(working[c])
    <2>1. CASE c = b
      BY <1>2, <1>4, <1>5, <2>1
    <2>2. CASE c # b
      BY <1>1, <1>5, <2>2 DEF StockTypeOK, ShelvesOK, Row
    <2> QED
      BY <2>1, <2>2
  <1>8. Tidy(t)
    BY <1>1, <1>2, <1>3, <1>5, <1>7 DEF Tidy, StockTypeOK
  <1>9. ShelfStep(t, b, {b})
    BY <1>2, <1>3, <1>4, <1>5, <1>6, <1>7, <1>8 DEF ShelfStep
  <1> QED
    BY <1>9

\* Those of a receipt.
LEMMA ReceiptShelfErp ==
  ASSUME ErpInv, NEW t \in Txn, tx[t].op = "receipt",
         SeekBucket(t, BucketOf(t)) \/ InsertBucket(t, BucketOf(t))
  PROVE  ErpInv'
  <1>1. PICK b \in Bucket : /\ tx[t].todo = {b} /\ BucketOf(t) = b
                            /\ tx[t].doc \notin Docs /\ tx[t].remaining \in Nat
    BY ReceiptBucket
  <1>2. PICK S \in SUBSET {b} : ShelfStep(t, b, S)
    BY <1>1, SeekShelf, InsertShelf
  <1>3. /\ Touches(t, S) /\ Tidy(t) /\ pending' = pending
        /\ \A c \in Bucket : Quantities(working'[c]) = Quantities(working[c])
        /\ tx'[t].remaining = tx[t].remaining /\ tx'[t].todo = tx[t].todo
        /\ tx'[t].op = tx[t].op /\ tx'[t].doc = tx[t].doc
        /\ \/ tx'[t].step = "insert"
           \/ tx'[t].step = "book" /\ holder'[b] = t /\ working'[b] # Absent
    BY <1>2 DEF ShelfStep
  <1>4. ReceiptAt(t)'
    BY <1>1, <1>3 DEF ReceiptAt
  <1>5. \A r \in Docs : holder'[r] # t
    BY <1>1, <1>3, PlainHas, DocRows DEF Touches
  <1>6. \A e \in pending'[t] : e.refId = None
    BY <1>1, <1>3, PlainHas
  <1>7. DocTold(t) /\ Control(t)'
    BY <1>1, <1>3, <1>4, <1>5, <1>6, PlainControl
  <1>8. S \in SUBSET Row
    BY DEF Row
  <1> QED
    BY <1>3, <1>7, <1>8, QuietErp

\* A movement of a transaction that is about no document.
LEMMA PlainBookingErp ==
  ASSUME ErpInv, NEW t \in Txn, tx[t].doc \notin Docs, tx'[t].doc \notin Docs,
         NEW b \in Bucket, NEW key, NEW p \in Int, key[1] \in {"RECEIPT", "NULL"},
         Books(t, {b}, key, b, p, 0, None), ReceiptAt(t)',
         UnusedKey(key),
         Quantities(working[b]).reservedQty <= Quantities(working[b]).physicalQty + p
  PROVE  ErpInv'
  <1>1. PICK e : e = Entry(key, b, p, 0, None)
    OBVIOUS
  <1>2. e.refId = None /\ e.reservedDelta = 0 /\ e.idempotencyKey = key
    BY <1>1, EntryIs
  <1>3. Named(e) /\ StockTypeOK
    BY <1>2 DEF Named, ErpInv
  <1>4. pending'[t] = pending[t] \cup {e}
    BY <1>1, <1>3 DEF Books, StockTypeOK
  <1>5. \A d \in pending'[t] : d.refId = None
    BY <1>2, <1>4, PlainHas
  <1>6. \A r \in Docs : holder'[r] # t
    BY PlainHas, DocRows DEF Books, Touches
  <1>7. DocTold(t) /\ Control(t)'
    BY <1>5, <1>6, PlainControl
  <1>8. /\ Quantities(working[b]).reservedQty + 0
             <= Quantities(working[b]).physicalQty + p
        /\ {b} \in SUBSET Row
    <2>1. Quantities(working[b]) \in BucketRow
      BY <1>3, QuantitiesType DEF StockTypeOK
    <2> QED
      BY <2>1 DEF BucketRow, Row
  <1>9. Named(Entry(key, b, p, 0, None))
    BY <1>1, <1>3
  <1> QED
    BY <1>7, <1>8, <1>9, BookingErp

\* The movement of a receipt.
LEMMA BookReceiptErp ==
  ASSUME ErpInv, NEW t \in Txn, tx[t].op = "receipt", BookReceipt(t)
  PROVE  ErpInv'
  <1>1. StockTypeOK /\ ShelvesOK
    BY DEF ErpInv
  <1>2. PICK b \in Bucket : /\ tx[t].todo = {b} /\ BucketOf(t) = b
                            /\ tx[t].step = "book" => holder[b] = t /\ working[b] # Absent
                            /\ tx[t].doc \notin Docs /\ tx[t].remaining \in Nat
    BY ReceiptBucket
  <1>3. PICK q \in Nat : q = tx[t].remaining
    BY <1>2
  <1>4. PICK key : key = IF tx[t].doc = None THEN FreshKey ELSE <<"RECEIPT", tx[t].doc>>
    OBVIOUS
  <1>5. /\ tx[t].step = "book"
        /\ ~Booked(key, ledger) /\ \A u \in Txn : ~Booked(key, pending[u])
        /\ working' = [working EXCEPT ![b] = Moved(@, q, 0)]
        /\ Book(t, key, b, q, 0, None)
        /\ tx' = [tx EXCEPT ![t].step = "commit"]
        /\ committed' = committed /\ holder' = holder /\ ledger' = ledger
    BY <1>2, <1>3, <1>4 DEF BookReceipt
  <1>6. /\ tx' \in [Txn -> TxRow] /\ \A u \in Txn \ {t} : tx'[u] = tx[u]
        /\ tx'[t].step = "commit" /\ tx'[t].remaining = tx[t].remaining
        /\ tx'[t].todo = tx[t].todo /\ tx'[t].op = tx[t].op
        /\ tx'[t].doc = tx[t].doc
    BY <1>1, <1>5, StepOfRecord
  <1>7. key[1] \in {"RECEIPT", "NULL"}
    BY <1>4 DEF FreshKey
  <1>8. UnusedKey(key)
    BY <1>5 DEF Booked, UnusedKey
  <1>9. ReceiptAt(t)'
    BY <1>2, <1>6 DEF ReceiptAt
  <1>10. /\ pending' = [pending EXCEPT ![t] = @ \cup {Entry(key, b, q, 0, None)}]
         /\ \A u \in Txn \ {t} : pending'[u] = pending[u]
    BY <1>1, <1>5 DEF Book, Entry, StockTypeOK
  <1>11. /\ b \in Row /\ DOMAIN working' = Row /\ working'[b] = Moved(working[b], q, 0)
         /\ \A r \in Row \ {b} : working'[r] = working[r]
    BY <1>1, <1>5 DEF StockTypeOK, Row
  <1>12. Touches(t, {b})
    BY <1>1, <1>2, <1>5, <1>6, <1>10, <1>11 DEF Touches, StockTypeOK, CanLock
  <1>13. Books(t, {b}, key, b, q, 0, None)
    BY <1>1, <1>2, <1>5, <1>6, <1>10, <1>11, <1>12 DEF Books, StockTypeOK, Row
  <1>14. Quantities(working[b]).reservedQty <= Quantities(working[b]).physicalQty + q
    <2>1. Quantities(working[b]) \in BucketRow /\ Covered(working[b])
      BY <1>1, QuantitiesType DEF StockTypeOK, ShelvesOK
    <2> QED
      BY <2>1 DEF BucketRow, Covered
  <1>15. q \in Int /\ tx'[t].doc \notin Docs
    BY <1>2, <1>6
  <1> QED
    BY <1>2, <1>7, <1>8, <1>9, <1>13, <1>14, <1>15, PlainBookingErp

\* An adjustment.
LEMMA AdjustErp ==
  ASSUME ErpInv, NEW t \in Txn, NEW b \in Bucket, NEW delta \in Int, Adjust(t, b, delta)
  PROVE  ErpInv'
  <1>1. StockTypeOK /\ ShelvesOK /\ LocksOK
    BY DEF ErpInv
  <1>2. PICK key : key = FreshKey
    OBVIOUS
  <1>3. /\ Begin(t, "adjustment", "commit", b, delta, None)
        /\ CanLock(t, b) /\ committed[b] # Absent
        /\ delta < 0 => -delta <= AvailableQty(committed[b])
        /\ holder' = [holder EXCEPT ![b] = t]
        /\ working' = [working EXCEPT ![b] = Moved(@, delta, 0)]
        /\ Book(t, key, b, delta, 0, None)
        /\ committed' = committed /\ ledger' = ledger
    BY <1>2 DEF Adjust
  <1>4. /\ IsIdle(t)
        /\ tx' \in [Txn -> TxRow] /\ \A u \in Txn \ {t} : tx'[u] = tx[u]
        /\ tx'[t].step = "commit" /\ tx'[t].op = "adjustment" /\ tx'[t].doc = None
    BY <1>1, <1>3, BeginIs
  <1>5. /\ pending[t] = {} /\ tx[t].doc \notin Docs /\ b \in Row
        /\ \A r \in Row : holder[r] # t
    BY <1>4, IdleHasNothing DEF Row
  <1>6. working[b] = committed[b]
    BY <1>1, <1>3, <1>5 DEF CanLock, LocksOK
  <1>7. key[1] \in {"RECEIPT", "NULL"}
    BY <1>2 DEF FreshKey
  <1>8. UnusedKey(key)
    <2>1. KeysLeft
      BY DEF Adjust
    <2> QED
      BY <1>2, <2>1, FreshKeyIsNew DEF Booked, UnusedKey
  <1>9. ReceiptAt(t)' /\ tx'[t].doc \notin Docs
    BY <1>4, PlainNames DEF ReceiptAt
  <1>10. /\ pending' = [pending EXCEPT ![t] = @ \cup {Entry(key, b, delta, 0, None)}]
         /\ \A u \in Txn \ {t} : pending'[u] = pending[u]
    BY <1>1, <1>3 DEF Book, Entry, StockTypeOK
  <1>11. /\ DOMAIN working' = Row /\ working'[b] = Moved(working[b], delta, 0)
         /\ \A r \in Row \ {b} : working'[r] = working[r]
    BY <1>1, <1>3, <1>5 DEF StockTypeOK
  <1>12. Touches(t, {b})
    BY <1>1, <1>3, <1>4, <1>10, <1>11 DEF Touches, StockTypeOK
  <1>13. Books(t, {b}, key, b, delta, 0, None)
    BY <1>1, <1>3, <1>4, <1>6, <1>10, <1>11, <1>12 DEF Books, StockTypeOK, Row
  <1>14. Quantities(working[b]).reservedQty <= Quantities(working[b]).physicalQty + delta
    <2>1. Quantities(working[b]) \in BucketRow /\ Covered(working[b])
      BY <1>1, QuantitiesType DEF StockTypeOK, ShelvesOK
    <2> QED
      BY <1>3, <1>6, <2>1 DEF BucketRow, Covered, AvailableQty
  <1> QED
    BY <1>5, <1>7, <1>8, <1>9, <1>13, <1>14, PlainBookingErp

\* The whole of InventoryService.
LEMMA InventoryErp ==
  ASSUME ErpInv, NEW t \in Txn, InventoryStep(t)
  PROVE  ErpInv'
  <1>1. CASE InventoryRequest(t)
    <2>1. PICK b \in Bucket, q \in Quantity :
            \/ \E ref \in Reference \cup {None} : BeginReceipt(t, b, q, ref)
            \/ \E ref \in Reference \cup {None} :
                 b[1] \in NewBatch /\ BeginNewBatch(t, b[1], b[2], q, ref)
            \/ Adjust(t, b, q)
            \/ Adjust(t, b, -q)
      BY <1>1 DEF InventoryRequest
    <2>2. q \in Int /\ -q \in Int /\ b = <<b[1], b[2]>>
      BY InventoryAssumption DEF Bucket
    <2>3. ASSUME NEW ref \in Reference \cup {None}, BeginReceipt(t, b, q, ref)
          PROVE  ErpInv'
      BY <2>3, BeginReceiptErp DEF BeginReceipt
    <2>4. ASSUME NEW ref \in Reference \cup {None}, b[1] \in NewBatch,
                 BeginNewBatch(t, b[1], b[2], q, ref)
          PROVE  ErpInv'
      BY <2>2, <2>4, BeginReceiptErp DEF BeginNewBatch
    <2> QED
      BY <2>1, <2>2, <2>3, <2>4, AdjustErp
  <1>2. CASE InventoryProgress(t)
    BY <1>2, InsertBatchErp, RollbackErp, ReceiptShelfErp, BookReceiptErp, CommitErp
       DEF InventoryProgress, InsertBatchRaced, InsertBucketRaced, RefuseReceipt
  <1> QED
    BY <1>1, <1>2 DEF InventoryStep

-----------------------------------------------------------------------------
(***************************************************************************)
(* Transactions that begin with the row of a document, and transfers.      *)
(***************************************************************************)

\* What LockDocument and InsertDocument find and leave.
LEMMA LockFacts ==
  ASSUME ErpInv, NEW t \in Txn, NEW r \in Docs, LockDocument(t, r)
  PROVE  /\ IsIdle(t) /\ pending[t] = {} /\ committed[r] # Absent
         /\ working[r] = committed[r]
         /\ working' = working /\ ledger' = ledger /\ pending' = pending
         /\ Told(r, Of(ledger, r), committed[r])
  <1>1. IsIdle(t) /\ r \in Row
    BY DocRows DEF LockDocument
  <1>2. pending[t] = {} /\ holder[r] # t
    BY <1>1, IdleHasNothing
  <1>3. holder[r] = None
    BY <1>2 DEF LockDocument, CanLock
  <1>4. working[r] = committed[r]
    BY <1>1, <1>3 DEF ErpInv, LocksOK
  <1>5. Told(r, Of(ledger, r), committed[r])
    BY DEF ErpInv, DocsOK
  <1> QED
    BY <1>1, <1>2, <1>4, <1>5 DEF LockDocument

LEMMA InsertFacts ==
  ASSUME ErpInv, NEW t \in Txn, NEW r \in Docs, NEW row, InsertDocument(t, r, row)
  PROVE  /\ IsIdle(t) /\ pending[t] = {} /\ committed[r] = Absent
         /\ working'[r] = row /\ ledger' = ledger /\ pending' = pending
         /\ Told(r, Of(ledger, r), Absent)
  <1>1. IsIdle(t) /\ r \in Row /\ StockTypeOK
    BY DocRows DEF InsertDocument, ErpInv
  <1>2. pending[t] = {}
    BY <1>1, IdleHasNothing
  <1>3. Told(r, Of(ledger, r), committed[r])
    BY DEF ErpInv, DocsOK
  <1> QED
    BY <1>1, <1>2, <1>3 DEF InsertDocument, StockTypeOK

\* A transaction that begins with SELECT ... FOR UPDATE on its document.
LEMMA LockErp ==
  ASSUME ErpInv, NEW t \in Txn, NEW r \in Docs, LockDocument(t, r),
         tx' \in [Txn -> TxRow], \A u \in Txn \ {t} : tx'[u] = tx[u],
         tx'[t].step # "idle", tx'[t].doc = r, tx'[t].op # "receipt", Placed(t, r)'
  PROVE  ErpInv'
  <1>1. /\ IsIdle(t) /\ pending[t] = {} /\ committed[r] # Absent
        /\ working[r] = committed[r]
        /\ working' = working /\ ledger' = ledger /\ pending' = pending
        /\ Told(r, Of(ledger, r), committed[r])
    BY LockFacts
  <1>2. StockTypeOK /\ r \in Row
    BY DocRows DEF ErpInv
  <1>3. holder' = [holder EXCEPT ![r] = t] /\ committed' = committed /\ CanLock(t, r)
    BY DEF LockDocument
  <1>4. Touches(t, {r})
    BY <1>1, <1>2, <1>3 DEF Touches, StockTypeOK
  <1>5. holder' \in [Row -> Txn \cup {None}] /\ DOMAIN working' = Row
    BY <1>1, <1>2, <1>3 DEF StockTypeOK
  <1>6. Told(r, Of(ledger, r), working'[r]) /\ working'[r] # Absent
    BY <1>1
  <1>7. \A b \in Bucket : working'[b] = working[b]
    BY <1>1
  <1> QED
    BY <1>1, <1>4, <1>5, <1>6, <1>7, DocBeginErp

\* One that begins with the INSERT of its document.
LEMMA InsertErp ==
  ASSUME ErpInv, NEW t \in Txn, NEW r \in Docs, NEW row, InsertDocument(t, r, row),
         tx' \in [Txn -> TxRow], \A u \in Txn \ {t} : tx'[u] = tx[u],
         tx'[t].step # "idle", tx'[t].doc = r, tx'[t].op # "receipt", Placed(t, r)',
         row # Absent, Told(r, Of(ledger, r), row)
  PROVE  ErpInv'
  <1>1. /\ IsIdle(t) /\ pending[t] = {} /\ committed[r] = Absent
        /\ working'[r] = row /\ ledger' = ledger /\ pending' = pending
    BY InsertFacts
  <1>2. StockTypeOK /\ r \in Row /\ r \notin Bucket
    BY DocRows DEF ErpInv
  <1>3. /\ holder' = [holder EXCEPT ![r] = t] /\ committed' = committed
        /\ CanLock(t, r) /\ working' = [working EXCEPT ![r] = row]
    BY DEF InsertDocument
  <1>4. Touches(t, {r})
    BY <1>1, <1>2, <1>3 DEF Touches, StockTypeOK
  <1>5. holder' \in [Row -> Txn \cup {None}] /\ DOMAIN working' = Row
    BY <1>2, <1>3 DEF StockTypeOK
  <1>6. Told(r, Of(ledger, r), working'[r]) /\ working'[r] # Absent
    BY <1>1
  <1>7. \A b \in Bucket : working'[b] = working[b]
    BY <1>2, <1>3 DEF StockTypeOK
  <1> QED
    BY <1>1, <1>4, <1>5, <1>6, <1>7, DocBeginErp

-----------------------------------------------------------------------------
\* What a transaction on the document r has booked, and all there is of r.
LEMMA DocHas ==
  ASSUME ErpInv, NEW t \in Txn, NEW r \in Docs, r = tx[t].doc
  PROVE  /\ tx[t].op # "receipt" /\ holder[r] = t /\ r \in Row /\ r \notin Bucket
         /\ \A e \in pending[t] : e.refId = r
         /\ Of(ledger \cup pending[t], r) = Of(ledger, r) \cup pending[t]
         /\ Entries(Of(ledger, r)) /\ Entries(pending[t])
         /\ Entries(Of(ledger \cup pending[t], r))
  <1>1. EntriesOK /\ OwnDoc(t) /\ ReceiptAt(t)
    BY DEF ErpInv, LedgerInv, Control
  <1>2. \A e \in pending[t] : e.refId = r
    BY <1>1 DEF OwnDoc
  <1>3. Of(ledger \cup pending[t], r) = Of(ledger, r) \cup pending[t]
    BY <1>2 DEF Of
  <1>4. Entries(ledger \cup pending[t])
    BY <1>1, FS_Union DEF EntriesOK, Entries
  <1>5. /\ Entries(Of(ledger, r)) /\ Entries(pending[t])
        /\ Entries(Of(ledger \cup pending[t], r))
    BY <1>1, <1>4, OfEntries DEF EntriesOK
  <1> QED
    BY <1>1, <1>2, <1>3, <1>5, DocRows DEF OwnDoc, ReceiptAt

\* A statement on the document r that may lock buckets and writes none.
LEMMA DocLocalErp ==
  ASSUME ErpInv, NEW t \in Txn, NEW r \in Docs, r = tx[t].doc,
         NEW S \in SUBSET Bucket, \A b \in S : CanLock(t, b),
         committed' = committed, ledger' = ledger, pending' = pending,
         holder' \in [Row -> Txn \cup {None}],
         \A x \in Row : holder'[x] = IF x \in S THEN t ELSE holder[x],
         DOMAIN working' = Row, \A x \in Row \ {r} : working'[x] = working[x],
         tx' \in [Txn -> TxRow], \A u \in Txn \ {t} : tx'[u] = tx[u],
         tx'[t].step # "idle", tx'[t].doc = r, tx'[t].op # "receipt",
         working'[r] # Absent, Told(r, Of(ledger \cup pending[t], r), working'[r]),
         Placed(t, r)'
  PROVE  ErpInv'
  <1>1. StockTypeOK /\ ShelvesOK /\ holder[r] = t /\ r \notin Bucket
    BY DocHas DEF ErpInv
  <1>2. \A b \in Bucket : working'[b] = working[b]
    BY <1>1 DEF Row
  <1>3. Touches(t, S)
    BY <1>1 DEF Touches, Holds
  <1>4. Tidy(t)
    BY <1>1, <1>2 DEF Tidy, StockTypeOK, ShelvesOK
  <1> QED
    BY <1>2, <1>3, <1>4, DocQuietErp

\* One that takes no lock either.
LEMMA DocStillErp ==
  ASSUME ErpInv, NEW t \in Txn, NEW r \in Docs, r = tx[t].doc,
         committed' = committed, ledger' = ledger, pending' = pending,
         holder' = holder, DOMAIN working' = Row,
         \A x \in Row \ {r} : working'[x] = working[x],
         tx' \in [Txn -> TxRow], \A u \in Txn \ {t} : tx'[u] = tx[u],
         tx'[t].step # "idle", tx'[t].doc = r, tx'[t].op # "receipt",
         working'[r] # Absent, Told(r, Of(ledger \cup pending[t], r), working'[r]),
         Placed(t, r)'
  PROVE  ErpInv'
  <1>1. PICK S \in SUBSET Bucket : S = {}
    OBVIOUS
  <1>2. /\ \A b \in S : CanLock(t, b)
        /\ \A x \in Row : holder'[x] = IF x \in S THEN t ELSE holder[x]
    BY <1>1
  <1>3. holder' \in [Row -> Txn \cup {None}]
    BY DEF ErpInv, StockTypeOK
  <1> QED
    BY <1>2, <1>3, DocLocalErp

\* The record of a transaction after a statement.
LEMMA RecordIs ==
  ASSUME StockTypeOK, NEW t \in Txn, NEW record \in TxRow,
         tx' = [tx EXCEPT ![t] = record]
  PROVE  /\ tx' \in [Txn -> TxRow] /\ \A u \in Txn \ {t} : tx'[u] = tx[u]
         /\ tx'[t] = record
  BY DEF StockTypeOK

\* The statement and the local variables are of their types.
LEMMA RecordType ==
  ASSUME StockTypeOK, NEW t \in Txn
  PROVE  /\ tx[t] \in TxRow /\ tx[t].todo \in SUBSET Bucket
         /\ tx[t].remaining \in Int /\ tx[t].line \in Nat
         /\ tx[t].doc \in Document \cup {None}
         /\ tx[t].op \in {"none", "create", "reserve", "cancel", "fulfil", "start",
                         "complete", "dispatch", "receive", "receipt", "adjustment"}
  <1>1. tx[t] \in TxRow
    BY DEF StockTypeOK
  <1> QED
    BY <1>1 DEF TxRow

-----------------------------------------------------------------------------
\* The goods of a requested transfer leave.
LEMMA TransferLeaves ==
  ASSUME NEW x \in Transfer, NEW row \in TransferRow, row.status = "REQUESTED",
         NEW U, Entries(U), TransferTold(x, U, row), NEW e, IsEntry(e),
         e.idempotencyKey = <<"TRANSFER", x, "DISPATCH">>,
         e.inventoryId = Source(row), e.physicalDelta = -row.quantity,
         e.reservedDelta = 0
  PROVE  /\ U = {}
         /\ TransferTold(x, U \cup {e}, [row EXCEPT !.status = "DISPATCHED"])
         /\ [row EXCEPT !.status = "DISPATCHED"] # Absent
  <1>1. PICK after : after = [row EXCEPT !.status = "DISPATCHED"]
    OBVIOUS
  <1>2. /\ after \in TransferRow /\ after.status = "DISPATCHED"
        /\ after.batch = row.batch /\ after.quantity = row.quantity
        /\ after.receivedQty = row.receivedQty
    BY <1>1 DEF TransferRow, TransferStatus
  <1>3. /\ after # Absent /\ row # Absent /\ row.quantity \in Nat \ {0}
        /\ Source(row)[1] = row.batch
        /\ OutstandingQty(after) = after.quantity - after.receivedQty
    BY <1>2, PlacesOfTransfer
  <1>4. U = {} /\ row.receivedQty = 0
    BY <1>3 DEF TransferTold
  <1>5. PhysicalSum(U \cup {e}) = -row.quantity
    <2>1. PhysicalSum(U) = 0
      BY <1>4, LedgerSums
    <2>2. PhysicalSum(U \cup {e}) = PhysicalSum(U) + e.physicalDelta
      BY <1>4, OneMore
    <2> QED
      BY <1>3, <2>1, <2>2
  <1>6. Underway(after) = row.quantity
    BY <1>2, <1>3, <1>4 DEF Underway
  <1>7. TransferTold(x, U \cup {e}, after)
    BY <1>2, <1>3, <1>4, <1>5, <1>6 DEF TransferTold
  <1> QED
    BY <1>1, <1>3, <1>4, <1>7

\* Some of what is under way arrives.
LEMMA TransferArrives ==
  ASSUME NEW x \in Transfer, NEW row \in TransferRow, row.status = "DISPATCHED",
         NEW q \in 1 .. OutstandingQty(row), NEW total,
         total = row.receivedQty + q, NEW status,
         status = IF total = row.quantity THEN "RECEIVED" ELSE row.status,
         NEW after \in TransferRow, after.batch = row.batch,
         after.quantity = row.quantity, after.receivedQty = total,
         after.status = status,
         NEW U, Entries(U), TransferTold(x, U, row), NEW e, IsEntry(e),
         e.idempotencyKey = <<"TRANSFER", x, "RECEIVE", total>>,
         e.inventoryId = Destination(row), e.physicalDelta = q,
         e.reservedDelta = 0
  PROVE  /\ \A d \in U : d.idempotencyKey # <<"TRANSFER", x, "RECEIVE", total>>
         /\ TransferTold(x, U \cup {e}, after) /\ after # Absent
  <1>1. /\ row # Absent /\ row.quantity \in Nat \ {0} /\ row.receivedQty \in Int
        /\ Destination(row)[1] = row.batch
        /\ OutstandingQty(row) = row.quantity - row.receivedQty
    BY PlacesOfTransfer
  <1>2. q \in Int /\ q >= 1 /\ row.receivedQty + q <= row.quantity
    BY <1>1
  <1>3. total = row.receivedQty + q
    OBVIOUS
  <1>4. /\ row.receivedQty \in Nat /\ total \in Nat /\ total > row.receivedQty
        /\ total <= row.quantity
        /\ \A d \in U :
             /\ d.inventoryId[1] = row.batch /\ d.reservedDelta = 0
             /\ \/ d.idempotencyKey = <<"TRANSFER", x, "DISPATCH">>
                \/ \E n \in 1 .. row.receivedQty :
                     d.idempotencyKey = <<"TRANSFER", x, "RECEIVE", n>>
        /\ PhysicalSum(U) = -Underway(row)
    BY <1>1, <1>2, <1>3 DEF TransferTold
  <1>5. after.status = IF total = row.quantity THEN "RECEIVED" ELSE "DISPATCHED"
    OBVIOUS
  <1>6. after # Absent /\ OutstandingQty(after) = row.quantity - total
    BY <1>5, PlacesOfTransfer
  <1>7. ASSUME NEW d \in U
        PROVE  d.idempotencyKey # <<"TRANSFER", x, "RECEIVE", total>>
    <2>1. CASE d.idempotencyKey = <<"TRANSFER", x, "DISPATCH">>
      BY <2>1
    <2>2. ASSUME NEW n \in 1 .. row.receivedQty,
                 d.idempotencyKey = <<"TRANSFER", x, "RECEIVE", n>>
          PROVE  d.idempotencyKey # <<"TRANSFER", x, "RECEIVE", total>>
      <3>1. n # total
        BY <1>4
      <3> QED
        BY <2>2, <3>1
    <2> QED
      BY <1>4, <2>1, <2>2
  <1>8. e \notin U
    BY <1>3, <1>7
  <1>9. PhysicalSum(U \cup {e}) = -Underway(after)
    <2>1. PhysicalSum(U \cup {e}) = PhysicalSum(U) + e.physicalDelta
      BY <1>8, OneMore
    <2>2. Underway(row) = row.quantity - row.receivedQty
      BY <1>1 DEF Underway
    <2>3. Underway(after) = row.quantity - total
      BY <1>1, <1>4, <1>5, <1>6 DEF Underway
    <2>4. PhysicalSum(U) = -(row.quantity - row.receivedQty)
      BY <1>4, <2>2
    <2> QED
      BY <1>1, <1>2, <1>3, <2>1, <2>3, <2>4
  <1>10. ASSUME NEW d \in U \cup {e}
         PROVE  /\ d.inventoryId[1] = after.batch /\ d.reservedDelta = 0
                /\ \/ d.idempotencyKey = <<"TRANSFER", x, "DISPATCH">>
                   \/ \E n \in 1 .. after.receivedQty :
                        d.idempotencyKey = <<"TRANSFER", x, "RECEIVE", n>>
    <2>1. CASE d = e
      BY <1>1, <1>3, <1>4, <1>5, <2>1
    <2>2. CASE d \in U
      <3>1. \A n \in 1 .. row.receivedQty : n \in 1 .. total
        BY <1>4
      <3> QED
        BY <1>4, <1>5, <2>2, <3>1
    <2> QED
      BY <2>1, <2>2
  <1>11. TransferTold(x, U \cup {e}, after)
    BY <1>4, <1>5, <1>6, <1>9, <1>10 DEF TransferTold
  <1> QED
    BY <1>3, <1>6, <1>7, <1>11

\* POST /transfers
LEMMA CreateTransferErp ==
  ASSUME ErpInv, NEW t \in Txn, NEW x \in Transfer, NEW form \in TransferForms,
         CreateTransfer(t, x, form)
  PROVE  ErpInv'
  <1>1. PICK row : row = [status |-> "REQUESTED", batch |-> form.batch,
                          source |-> form.source, destination |-> form.destination,
                          quantity |-> form.quantity, receivedQty |-> 0]
    OBVIOUS
  <1>2. x \in Docs /\ x \in Document /\ StockTypeOK
    BY DocKinds, DocRows DEF ErpInv
  <1>3. InsertDocument(t, x, row) /\ Proceed(t, "create", "commit", x, 0)
    BY <1>1 DEF CreateTransfer
  <1>4. /\ tx' \in [Txn -> TxRow] /\ \A u \in Txn \ {t} : tx'[u] = tx[u]
        /\ tx'[t].op = "create" /\ tx'[t].step = "commit" /\ tx'[t].doc = x
    BY <1>2, <1>3, Proceeds DEF StockTypeOK
  <1>5. row \in TransferRow /\ row.status = "REQUESTED" /\ row.receivedQty = 0
    BY <1>1, TransfersAssumption DEF TransferRow, TransferStatus
  <1>6. row # Absent
    BY <1>5, PlacesOfTransfer
  <1>7. Told(x, Of(ledger, x), Absent)
    BY <1>2, <1>3, InsertFacts
  <1>8. TransferTold(x, Of(ledger, x), row)
    <2>1. Of(ledger, x) = {}
      BY <1>7 DEF Told, TransferTold
    <2> QED
      BY <1>5, <1>6, <2>1, LedgerSums DEF TransferTold, Underway
  <1>9. Told(x, Of(ledger, x), row)
    BY <1>8, DocKinds DEF Told
  <1>10. Placed(t, x)'
    BY <1>4, DocKinds DEF Placed, TransferAt
  <1> QED
    BY <1>2, <1>3, <1>4, <1>6, <1>9, <1>10, InsertErp

\* POST /transfers/:id/dispatch, up to the bucket.
LEMMA BeginDispatchErp ==
  ASSUME ErpInv, NEW t \in Txn, NEW x \in Transfer, BeginDispatch(t, x)
  PROVE  ErpInv'
  <1>1. x \in Docs /\ x \in Document /\ StockTypeOK
    BY DocKinds, DocRows DEF ErpInv
  <1>2. /\ LockDocument(t, x) /\ committed[x].status = "REQUESTED"
        /\ Proceed(t, "dispatch", "debit", x, 0)
    BY DEF BeginDispatch
  <1>3. /\ tx' \in [Txn -> TxRow] /\ \A u \in Txn \ {t} : tx'[u] = tx[u]
        /\ tx'[t].op = "dispatch" /\ tx'[t].step = "debit" /\ tx'[t].doc = x
    BY <1>1, <1>2, Proceeds DEF StockTypeOK
  <1>4. working'[x] = committed[x]
    BY <1>1, <1>2, LockFacts
  <1>5. Placed(t, x)'
    BY <1>2, <1>3, <1>4, DocKinds DEF Placed, TransferAt
  <1> QED
    BY <1>1, <1>2, <1>3, <1>5, LockErp

\* POST /transfers/:id/receive, up to the bucket.
LEMMA BeginReceiveErp ==
  ASSUME ErpInv, NEW t \in Txn, NEW x \in Transfer, committed[x] # Absent,
         NEW q \in 1 .. committed[x].quantity, BeginReceive(t, x, q)
  PROVE  ErpInv'
  <1>1. x \in Docs /\ x \in Document /\ StockTypeOK
    BY DocKinds, DocRows DEF ErpInv
  <1>2. /\ LockDocument(t, x) /\ committed[x].status = "DISPATCHED"
        /\ q <= OutstandingQty(committed[x])
    BY DEF BeginReceive
  <1>3. /\ working'[x] = committed[x] /\ committed[x] # Absent
        /\ Told(x, Of(ledger, x), committed[x])
    BY <1>1, <1>2, LockFacts
  <1>4. committed[x] \in TransferRow
    BY <1>3 DEF Told, TransferTold
  <1>5. q \in Nat /\ q \in 1 .. OutstandingQty(committed[x])
    <2>1. PICK row \in TransferRow : row = committed[x]
      BY <1>4
    <2>2. row.quantity \in Nat /\ OutstandingQty(row) \in Int
      BY PlacesOfTransfer
    <2> QED
      BY <1>2, <2>1, <2>2
  <1>6. /\ tx' \in [Txn -> TxRow] /\ \A u \in Txn \ {t} : tx'[u] = tx[u]
        /\ tx'[t].op = "receive" /\ tx'[t].step = "seek" /\ tx'[t].doc = x
        /\ tx'[t].remaining = q
    <2>1. PICK record : record = [Idle EXCEPT !.op = "receive", !.step = "seek",
                                              !.doc = x, !.remaining = q]
      OBVIOUS
    <2>2. tx' = [tx EXCEPT ![t] = record]
      BY <2>1 DEF BeginReceive
    <2>3. /\ record \in TxRow /\ record.op = "receive" /\ record.step = "seek"
          /\ record.doc = x /\ record.remaining = q
      <3>1. /\ record.op = "receive" /\ record.step = "seek" /\ record.doc = x
            /\ record.line = 0 /\ record.remaining = q /\ record.todo = {}
            /\ record = [f \in {"op", "step", "doc", "line", "remaining", "todo"} |->
                           record[f]]
        BY <2>1 DEF Idle
      <3> QED
        BY <1>1, <1>5, <3>1 DEF TxRow
    <2> QED
      BY <1>1, <2>2, <2>3 DEF StockTypeOK
  <1>7. TransferAt(t, x)'
    BY <1>2, <1>3, <1>5, <1>6 DEF TransferAt
  <1>8. Placed(t, x)'
    BY <1>7, DocKinds DEF Placed
  <1> QED
    BY <1>1, <1>2, <1>6, <1>8, LockErp

\* The goods leave the source.
LEMMA DebitErp ==
  ASSUME ErpInv, NEW t \in Txn, tx[t].doc \in Transfer, DebitSource(t)
  PROVE  ErpInv'
  <1>1. PICK x \in Transfer : x = tx[t].doc
    OBVIOUS
  <1>2. /\ StockTypeOK /\ ShelvesOK /\ LocksOK /\ EntriesOK
        /\ x \in Docs /\ x \in Row /\ x \notin Bucket
    BY DocKinds, DocRows DEF ErpInv, LedgerInv
  <1>3. PICK row \in TransferRow : row = working[x]
    BY <1>1, <1>2, OwnRow
  <1>4. PICK b \in Bucket : b = Source(row)
    BY PlacesOfTransfer
  <1>5. PICK q : q = row.quantity
    OBVIOUS
  <1>6. PICK after : after = [row EXCEPT !.status = "DISPATCHED"]
    OBVIOUS
  <1>7. PICK key : key = <<"TRANSFER", x, "DISPATCH">>
    OBVIOUS
  <1>8. q \in Nat \ {0} /\ -q \in Int
    BY <1>5, PlacesOfTransfer
  <1>9. /\ tx[t].step = "debit" /\ (View(t, b) # Absent => CanLock(t, b))
        /\ AvailableQty(View(t, b)) >= q
        /\ holder' = [holder EXCEPT ![b] = t]
        /\ working' = [working EXCEPT ![b] = Moved(@, -q, 0)]
        /\ Book(t, key, b, -q, 0, x)
        /\ tx' = [tx EXCEPT ![t].step = "sent"]
        /\ committed' = committed /\ ledger' = ledger
    BY <1>1, <1>3, <1>4, <1>5, <1>7 DEF DebitSource, LockSource
  <1>10. /\ tx' \in [Txn -> TxRow] /\ \A u \in Txn \ {t} : tx'[u] = tx[u]
         /\ tx'[t].step = "sent" /\ tx'[t].op = tx[t].op /\ tx'[t].doc = x
    BY <1>1, <1>2, <1>9, StepOfRecord
  <1>11. View(t, b) # Absent
    BY <1>8, <1>9 DEF AvailableQty, Quantities
  <1>12. CanLock(t, b) /\ working[b] = View(t, b) /\ b \in Row
    BY <1>2, <1>9, <1>11 DEF View, CanLock, LocksOK, Row
  <1>13. /\ DOMAIN working' = Row /\ working'[b] = Moved(working[b], -q, 0)
         /\ working'[x] = row /\ \A r \in Row \ {b, x} : working'[r] = working[r]
    BY <1>2, <1>3, <1>9, <1>12 DEF StockTypeOK
  <1>14. holder[x] = t /\ Told(x, Of(ledger \cup pending[t], x), row)
    BY <1>1, <1>2, <1>3, <1>9, OwnRow DEF Unsaved
  <1>15. /\ pending' = [pending EXCEPT ![t] = @ \cup {Entry(key, b, -q, 0, x)}]
         /\ \A u \in Txn \ {t} : pending'[u] = pending[u]
    BY <1>2, <1>9 DEF Book, Entry, StockTypeOK
  <1>16. Touches(t, {b})
    BY <1>2, <1>9, <1>10, <1>12, <1>13, <1>14, <1>15 DEF Touches, StockTypeOK, Holds
  <1>17. /\ holder' \in [Row -> Txn \cup {None}]
         /\ \A c \in Bucket \ {b} : c \notin {b} /\ working'[c] = working[c]
    BY <1>2, <1>9, <1>13 DEF StockTypeOK, Row
  <1>18. Books(t, {b}, key, b, -q, 0, x)
    BY <1>10, <1>11, <1>12, <1>13, <1>15, <1>16, <1>17 DEF Books
  <1>19. PICK e : e = Entry(key, b, -q, 0, x)
    OBVIOUS
  <1>20. /\ IsEntry(e) /\ e.idempotencyKey = key /\ e.inventoryId = b
         /\ e.physicalDelta = -q /\ e.reservedDelta = 0
    BY <1>8, <1>19, EntryIs
  <1>21. row.status = "REQUESTED" /\ tx[t].op # "receipt"
    BY <1>1, <1>2, <1>3, <1>9, DocPlaced
       DEF Placed, TransferAt, ErpInv, Control, ReceiptAt
  <1>22. PICK U : U = Of(ledger \cup pending[t], x)
    OBVIOUS
  <1>23. Entries(ledger \cup pending[t])
    BY <1>2, FS_Union DEF EntriesOK, Entries
  <1>24. Entries(U) /\ TransferTold(x, U, row)
    BY <1>14, <1>22, <1>23, OfEntries DEF Told
  <1>25. U = {} /\ TransferTold(x, U \cup {e}, after) /\ after # Absent
    BY <1>4, <1>5, <1>6, <1>7, <1>20, <1>21, <1>24, TransferLeaves
  <1>26. Of(ledger' \cup pending'[t], x) = U \cup {e}
    <2>1. pending'[t] = pending[t] \cup {e} /\ ledger' = ledger
      BY <1>2, <1>9, <1>15, <1>19 DEF StockTypeOK
    <2>2. e.refId = x
      BY <1>8, <1>19, EntryIs
    <2> QED
      BY <1>22, <2>1, <2>2 DEF Of
  <1>27. Placed(t, x)' /\ Unsaved(t, x)'
    <2>1. Saved(t, x)' = after
      BY <1>6, <1>10, <1>13 DEF Saved
    <2>2. TransferAt(t, x)'
      BY <1>3, <1>10, <1>13, <1>25, <1>26, <2>1 DEF TransferAt
    <2> QED
      BY <1>10, <2>2, DocKinds DEF Placed, Unsaved
  <1>28. Quantities(working[b]).reservedQty + 0 <= Quantities(working[b]).physicalQty + (-q)
    <2>1. Quantities(working[b]) \in BucketRow
      BY <1>2, QuantitiesType DEF StockTypeOK
    <2> QED
      BY <1>8, <1>9, <1>12, <2>1 DEF AvailableQty, BucketRow
  <1>29. key[1] \notin {"RECEIPT", "NULL"} /\ key[2] = x
    BY <1>7
  <1>30. /\ \A d \in Of(ledger \cup pending[t], x) : d.idempotencyKey # key
         /\ tx'[t].op # "receipt" /\ working'[x] # Absent /\ 0 \in Int
    <2>1. \A d \in Of(ledger \cup pending[t], x) : d.idempotencyKey # key
      BY <1>22, <1>25
    <2>2. tx'[t].op # "receipt"
      BY <1>10, <1>21
    <2>3. row # Absent
      BY PlacesOfTransfer
    <2>4. working'[x] # Absent
      BY <1>3, <1>13, <2>3
    <2> QED
      BY <2>1, <2>2, <2>4
  <1> QED
    BY <1>1, <1>2, <1>8, <1>10, <1>18, <1>27, <1>28, <1>29, <1>30, DocBookingErp

\* lockOrCreateBucket for the destination.
LEMMA DestinationErp ==
  ASSUME ErpInv, NEW t \in Txn, NEW x \in Transfer, x = tx[t].doc,
         \/ SeekBucket(t, Destination(working[x]))
         \/ InsertBucket(t, Destination(working[x]))
  PROVE  ErpInv'
  <1>1. x \in Docs /\ x \in Row /\ x \notin Bucket
    BY DocKinds, DocRows
  <1>2. PICK row \in TransferRow : row = working[x]
    BY <1>1, OwnRow
  <1>3. PICK b \in Bucket : b = Destination(row)
    BY PlacesOfTransfer
  <1>4. PICK S \in SUBSET {b} : ShelfStep(t, b, S)
    BY <1>2, <1>3, SeekShelf, InsertShelf
  <1>5. /\ Touches(t, S) /\ Tidy(t) /\ pending' = pending
        /\ \A c \in Bucket : Quantities(working'[c]) = Quantities(working[c])
        /\ tx'[t].remaining = tx[t].remaining
        /\ tx'[t].op = tx[t].op /\ tx'[t].doc = x
        /\ \/ tx'[t].step = "insert"
           \/ tx'[t].step = "book" /\ holder'[b] = t /\ working'[b] # Absent
    BY <1>4 DEF ShelfStep
  <1>6. working'[x] = row
    BY <1>1, <1>2, <1>4 DEF ShelfStep
  <1>7. tx[t].step \in {"seek", "insert"}
    BY DEF SeekBucket, InsertBucket
  <1>8. row.status = "DISPATCHED" /\ tx[t].remaining \in 1 .. OutstandingQty(row)
    BY <1>1, <1>2, <1>7, DocPlaced DEF Placed, TransferAt
  <1>9. TransferAt(t, x)'
    BY <1>3, <1>5, <1>6, <1>8 DEF TransferAt
  <1>10. Placed(t, x)'
    BY <1>9, DocKinds DEF Placed
  <1>11. Told(x, Of(ledger \cup pending[t], x), working'[x]) /\ working'[x] # Absent
    BY <1>1, <1>2, <1>6, <1>7, OwnRow DEF Unsaved
  <1>12. tx'[t].op # "receipt" /\ S \in SUBSET Bucket
    BY <1>1, <1>5 DEF ErpInv, Control, ReceiptAt
  <1> QED
    BY <1>1, <1>5, <1>10, <1>11, <1>12, DocQuietErp

\* The goods reach the destination.
LEMMA CreditErp ==
  ASSUME ErpInv, NEW t \in Txn, tx[t].doc \in Transfer, CreditDestination(t)
  PROVE  ErpInv'
  <1>1. PICK x \in Transfer : x = tx[t].doc
    OBVIOUS
  <1>2. /\ StockTypeOK /\ ShelvesOK /\ LocksOK /\ EntriesOK
        /\ x \in Docs /\ x \in Row /\ x \notin Bucket
    BY DocKinds, DocRows DEF ErpInv, LedgerInv
  <1>3. PICK row \in TransferRow : row = working[x]
    BY <1>1, <1>2, OwnRow
  <1>4. PICK b \in Bucket : b = Destination(row)
    BY PlacesOfTransfer
  <1>5. PICK q : q = tx[t].remaining
    OBVIOUS
  <1>6. PICK total : total = row.receivedQty + q
    OBVIOUS
  <1>7. PICK status : status = IF total = row.quantity THEN "RECEIVED" ELSE row.status
    OBVIOUS
  <1>8. PICK after : after = [row EXCEPT !.receivedQty = total, !.status = status]
    OBVIOUS
  <1>9. PICK key : key = <<"TRANSFER", x, "RECEIVE", total>>
    OBVIOUS
  <1>10. /\ tx[t].step = "book"
        /\ working' = [working EXCEPT ![b] = Moved(@, q, 0)]
        /\ Book(t, key, b, q, 0, x)
        /\ tx' = [tx EXCEPT ![t].step = "stored"]
        /\ committed' = committed /\ holder' = holder /\ ledger' = ledger
    BY <1>1, <1>3, <1>4, <1>5, <1>6, <1>9 DEF CreditDestination
  <1>11. /\ tx' \in [Txn -> TxRow] /\ \A u \in Txn \ {t} : tx'[u] = tx[u]
        /\ tx'[t].step = "stored" /\ tx'[t].op = tx[t].op /\ tx'[t].doc = x
        /\ tx'[t].remaining = q
    BY <1>1, <1>2, <1>5, <1>10, StepOfRecord
  <1>12. /\ row.status = "DISPATCHED" /\ q \in 1 .. OutstandingQty(row)
         /\ holder[b] = t /\ working[b] # Absent /\ b \in Row
    BY <1>1, <1>2, <1>3, <1>4, <1>5, <1>10, DocPlaced DEF Placed, TransferAt, Row
  <1>13. q \in Nat
    BY <1>12, PlacesOfTransfer
  <1>14. /\ DOMAIN working' = Row /\ working'[b] = Moved(working[b], q, 0)
         /\ working'[x] = row /\ \A r \in Row \ {b, x} : working'[r] = working[r]
    BY <1>2, <1>3, <1>10, <1>12 DEF StockTypeOK
  <1>15. holder[x] = t /\ Told(x, Of(ledger \cup pending[t], x), row)
    BY <1>1, <1>2, <1>3, <1>10, OwnRow DEF Unsaved
  <1>16. /\ pending' = [pending EXCEPT ![t] = @ \cup {Entry(key, b, q, 0, x)}]
         /\ \A u \in Txn \ {t} : pending'[u] = pending[u]
    BY <1>2, <1>10 DEF Book, Entry, StockTypeOK
  <1>17. Touches(t, {b})
    BY <1>2, <1>10, <1>11, <1>12, <1>14, <1>15, <1>16 DEF Touches, StockTypeOK, Holds, CanLock
  <1>18. /\ holder' \in [Row -> Txn \cup {None}]
         /\ \A c \in Bucket \ {b} : c \notin {b} /\ working'[c] = working[c]
    BY <1>2, <1>10, <1>14 DEF StockTypeOK, Row
  <1>19. Books(t, {b}, key, b, q, 0, x)
    BY <1>11, <1>12, <1>14, <1>16, <1>17, <1>18 DEF Books
  <1>20. PICK e : e = Entry(key, b, q, 0, x)
    OBVIOUS
  <1>21. /\ IsEntry(e) /\ e.idempotencyKey = key /\ e.inventoryId = b
         /\ e.physicalDelta = q /\ e.reservedDelta = 0
    BY <1>13, <1>20, EntryIs
  <1>22. tx[t].op # "receipt"
    BY <1>1, <1>2 DEF ErpInv, Control, ReceiptAt
  <1>23. PICK U : U = Of(ledger \cup pending[t], x)
    OBVIOUS
  <1>24. Entries(ledger \cup pending[t])
    BY <1>2, FS_Union DEF EntriesOK, Entries
  <1>25. Entries(U) /\ TransferTold(x, U, row)
    BY <1>15, <1>23, <1>24, OfEntries DEF Told
  <1>26. /\ \A d \in U : d.idempotencyKey # key
         /\ TransferTold(x, U \cup {e}, after) /\ after # Absent
    <2>1. row.status = "DISPATCHED" /\ q \in 1 .. OutstandingQty(row)
      BY <1>12
    <2>2. /\ IsEntry(e) /\ e.idempotencyKey = <<"TRANSFER", x, "RECEIVE", total>>
          /\ e.inventoryId = Destination(row) /\ e.physicalDelta = q
          /\ e.reservedDelta = 0
      BY <1>4, <1>9, <1>21
    <2>3. total \in Int /\ status \in TransferStatus
      BY <1>6, <1>7, <1>13, <2>1, PlacesOfTransfer DEF TransferStatus
    <2>4. /\ after \in TransferRow /\ after.batch = row.batch
          /\ after.quantity = row.quantity /\ after.receivedQty = total
          /\ after.status = status
      BY <1>8, <2>3 DEF TransferRow
    <2> QED
      BY <1>6, <1>7, <1>9, <1>25, <2>1, <2>2, <2>4, TransferArrives
  <1>27. Of(ledger' \cup pending'[t], x) = U \cup {e}
    <2>1. pending'[t] = pending[t] \cup {e} /\ ledger' = ledger
      BY <1>2, <1>10, <1>16, <1>20 DEF StockTypeOK
    <2>2. e.refId = x
      BY <1>13, <1>20, EntryIs
    <2> QED
      BY <1>23, <2>1, <2>2 DEF Of
  <1>28. Placed(t, x)' /\ Unsaved(t, x)'
    <2>1. Saved(t, x)' = after
      BY <1>5, <1>6, <1>7, <1>8, <1>11, <1>14 DEF Saved, Arrived, TransferRow
    <2>2. TransferAt(t, x)'
      BY <1>3, <1>11, <1>14, <1>26, <1>27, <2>1 DEF TransferAt
    <2> QED
      BY <1>11, <2>2, DocKinds DEF Placed, Unsaved
  <1>29. Quantities(working[b]).reservedQty + 0 <= Quantities(working[b]).physicalQty + q
    <2>1. Quantities(working[b]) \in BucketRow /\ Covered(working[b])
      BY <1>2, QuantitiesType DEF StockTypeOK, ShelvesOK
    <2> QED
      BY <1>13, <2>1 DEF Covered, BucketRow
  <1>30. key[1] \notin {"RECEIPT", "NULL"} /\ key[2] = x
    BY <1>9
  <1>31. /\ \A d \in Of(ledger \cup pending[t], x) : d.idempotencyKey # key
         /\ tx'[t].op # "receipt" /\ working'[x] # Absent /\ 0 \in Int /\ q \in Int
    <2>1. \A d \in Of(ledger \cup pending[t], x) : d.idempotencyKey # key
      BY <1>23, <1>26
    <2>2. tx'[t].op # "receipt" /\ working'[x] # Absent
      BY <1>3, <1>11, <1>14, <1>22, PlacesOfTransfer
    <2> QED
      BY <1>13, <2>1, <2>2
  <1> QED
    BY <1>1, <1>2, <1>11, <1>19, <1>28, <1>29, <1>30, <1>31, DocBookingErp

\* The transfer is saved.
LEMMA SaveErp ==
  ASSUME ErpInv, NEW t \in Txn, tx[t].doc \in Transfer,
         SaveDispatched(t) \/ SaveReceived(t)
  PROVE  ErpInv'
  <1>1. PICK x \in Transfer : x = tx[t].doc
    OBVIOUS
  <1>2. StockTypeOK /\ x \in Docs /\ x \in Row
    BY DocKinds, DocRows DEF ErpInv
  <1>3. /\ tx[t].step \in {"sent", "stored"} /\ tx' = [tx EXCEPT ![t].step = "commit"]
        /\ committed' = committed /\ holder' = holder /\ ledger' = ledger
        /\ pending' = pending
    BY DEF SaveDispatched, SaveReceived
  <1>4. /\ working[x] \in TransferRow
        /\ TransferTold(x, Of(ledger \cup pending[t], x), Saved(t, x))
        /\ tx[t].op # "receipt"
    BY <1>1, <1>2, <1>3 DEF ErpInv, Control, TransferAt, ReceiptAt
  <1>5. /\ DOMAIN working' = Row /\ working'[x] = Saved(t, x)
        /\ \A r \in Row \ {x} : working'[r] = working[r]
    <2>1. CASE SaveDispatched(t)
      BY <1>1, <1>2, <2>1 DEF SaveDispatched, StockTypeOK, Saved
    <2>2. CASE SaveReceived(t)
      BY <1>1, <1>2, <2>2 DEF SaveReceived, StockTypeOK, Saved
    <2> QED
      BY <2>1, <2>2
  <1>6. /\ tx' \in [Txn -> TxRow] /\ \A u \in Txn \ {t} : tx'[u] = tx[u]
        /\ tx'[t].step = "commit" /\ tx'[t].op = tx[t].op /\ tx'[t].doc = x
    BY <1>1, <1>2, <1>3, StepOfRecord
  <1>7. working'[x] # Absent
    <2>1. PICK row \in TransferRow : row = working[x]
      BY <1>4
    <2>2. PICK n : n = tx[t].remaining
      OBVIOUS
    <2>3. Saved(t, x) \in {[row EXCEPT !.status = "DISPATCHED"], Arrived(row, n)}
      BY <2>1, <2>2 DEF Saved
    <2>4. [row EXCEPT !.status = "DISPATCHED"] \in TransferRow
      BY DEF TransferRow, TransferStatus
    <2>5. n \in Int
      BY <1>2, <2>2, RecordType
    <2>6. Arrived(row, n) \in TransferRow
      <3>1. PICK total : total = row.receivedQty + n
        OBVIOUS
      <3>2. PICK status : status = IF total = row.quantity THEN "RECEIVED"
                                                           ELSE row.status
        OBVIOUS
      <3>3. total \in Int /\ status \in TransferStatus
        BY <2>5, <3>1, <3>2 DEF TransferRow, TransferStatus
      <3>4. Arrived(row, n) = [row EXCEPT !.receivedQty = total, !.status = status]
        BY <3>1, <3>2 DEF Arrived, TransferRow
      <3> QED
        BY <3>3, <3>4 DEF TransferRow
    <2> QED
      BY <1>5, <2>3, <2>4, <2>6, PlacesOfTransfer
  <1>8. Told(x, Of(ledger \cup pending[t], x), working'[x])
    BY <1>4, <1>5, DocKinds DEF Told
  <1>9. Placed(t, x)'
    BY <1>6, DocKinds DEF Placed, TransferAt
  <1>10. tx'[t].step # "idle" /\ tx'[t].op # "receipt"
    BY <1>4, <1>6
  <1> QED
    BY <1>1, <1>2, <1>3, <1>5, <1>6, <1>7, <1>8, <1>9, <1>10, DocStillErp

\* The whole of TransfersService.
LEMMA TransferErp ==
  ASSUME ErpInv, NEW t \in Txn, TransferStep(t)
  PROVE  ErpInv'
  <1>1. CASE TransferRequest(t)
    <2>1. PICK x \in Transfer :
            \/ \E form \in TransferForms : CreateTransfer(t, x, form)
            \/ BeginDispatch(t, x)
            \/ /\ committed[x] # Absent
               /\ \E q \in 1 .. committed[x].quantity : BeginReceive(t, x, q)
      BY <1>1 DEF TransferRequest
    <2> QED
      BY <2>1, CreateTransferErp, BeginDispatchErp, BeginReceiveErp
  <1>2. CASE TransferProgress(t)
    <2>1. PICK x \in Transfer : x = tx[t].doc
      BY <1>2 DEF TransferProgress
    <2>2. \/ DebitSource(t) \/ CreditDestination(t)
          \/ SaveDispatched(t) \/ SaveReceived(t)
          \/ SeekBucket(t, Destination(working[x]))
          \/ InsertBucket(t, Destination(working[x]))
          \/ Rollback(t)
          \/ tx[t].step = "commit" /\ Commit(t)
      BY <1>2, <2>1 DEF TransferProgress, RefuseDispatch, InsertBucketRaced, TransferCommit
    <2> QED
      BY <2>1, <2>2, DebitErp, CreditErp, SaveErp, DestinationErp, RollbackErp, CommitErp
  <1> QED
    BY <1>1, <1>2 DEF TransferStep

-----------------------------------------------------------------------------
(***************************************************************************)
(* Work orders.                                                            *)
(***************************************************************************)

\* The record of a loop over buckets, at its head and after a turn.
Loops(t, n, S) ==
    \/ tx' = [tx EXCEPT ![t].step = "take", ![t].remaining = n, ![t].todo = S]
    \/ /\ tx' = [tx EXCEPT ![t].todo = S, ![t].remaining = n]
       /\ tx[t].step = "take"

LEMMA LoopRecord ==
  ASSUME StockTypeOK, NEW t \in Txn, NEW n \in Int, NEW S \in SUBSET Bucket,
         Loops(t, n, S)
  PROVE  /\ tx' \in [Txn -> TxRow] /\ \A u \in Txn \ {t} : tx'[u] = tx[u]
         /\ tx'[t].step = "take" /\ tx'[t].remaining = n /\ tx'[t].todo = S
         /\ tx'[t].op = tx[t].op /\ tx'[t].doc = tx[t].doc /\ tx'[t].line = tx[t].line
  <1>1. PICK old \in TxRow : old = tx[t]
    BY RecordType
  <1>2. old = [f \in {"op", "step", "doc", "line", "remaining", "todo"} |-> old[f]]
    BY DEF TxRow
  <1>3. PICK record : /\ record.op = old.op /\ record.step = "take"
                      /\ record.doc = old.doc /\ record.line = old.line
                      /\ record.remaining = n /\ record.todo = S
                      /\ record = [f \in {"op", "step", "doc", "line", "remaining", "todo"}
                                     |-> record[f]]
                      /\ tx' = [tx EXCEPT ![t] = record]
    <2>1. CASE tx' = [tx EXCEPT ![t].step = "take", ![t].remaining = n, ![t].todo = S]
      <3> DEFINE r == [old EXCEPT !.step = "take", !.remaining = n, !.todo = S]
      <3>1. tx' = [tx EXCEPT ![t] = r]
        BY <1>1, <2>1 DEF StockTypeOK
      <3>2. /\ r.op = old.op /\ r.step = "take" /\ r.doc = old.doc
            /\ r.line = old.line /\ r.remaining = n /\ r.todo = S
            /\ r = [f \in {"op", "step", "doc", "line", "remaining", "todo"} |-> r[f]]
        BY <1>2
      <3> QED
        BY <3>1, <3>2
    <2>2. CASE /\ tx' = [tx EXCEPT ![t].todo = S, ![t].remaining = n]
               /\ tx[t].step = "take"
      <3> DEFINE r == [old EXCEPT !.todo = S, !.remaining = n]
      <3>1. tx' = [tx EXCEPT ![t] = r]
        BY <1>1, <2>2 DEF StockTypeOK
      <3>2. /\ r.op = old.op /\ r.step = "take" /\ r.doc = old.doc
            /\ r.line = old.line /\ r.remaining = n /\ r.todo = S
            /\ r = [f \in {"op", "step", "doc", "line", "remaining", "todo"} |-> r[f]]
        BY <1>1, <1>2, <2>2
      <3> QED
        BY <3>1, <3>2
    <2> QED
      BY <2>1, <2>2 DEF Loops
  <1>4. record \in TxRow
    BY <1>3 DEF TxRow
  <1>5. /\ tx' \in [Txn -> TxRow] /\ \A u \in Txn \ {t} : tx'[u] = tx[u]
        /\ tx'[t] = record
    BY <1>3, <1>4, RecordIs
  <1> QED
    BY <1>1, <1>3, <1>5

\* A statement on the document r that books a movement of the bucket b.
LEMMA DocMoveErp ==
  ASSUME ErpInv, NEW t \in Txn, NEW r \in Docs, r = tx[t].doc, NEW key,
         NEW b \in Bucket, NEW p \in Int, NEW q \in Int,
         CanLock(t, b), working[b] # Absent, holder' = [holder EXCEPT ![b] = t],
         committed' = committed, ledger' = ledger, Book(t, key, b, p, q, r),
         DOMAIN working' = Row, working'[b] = Moved(working[b], p, q),
         \A x \in Row \ {b, r} : working'[x] = working[x],
         tx' \in [Txn -> TxRow], \A u \in Txn \ {t} : tx'[u] = tx[u],
         key[1] \notin {"RECEIPT", "NULL"}, key[2] = r,
         \A e \in Of(ledger \cup pending[t], r) : e.idempotencyKey # key,
         Quantities(working[b]).reservedQty + q
           <= Quantities(working[b]).physicalQty + p,
         tx'[t].step # "idle", tx'[t].doc = r, tx'[t].op # "receipt",
         working'[r] # Absent,
         Told(r, Of(ledger \cup pending[t], r) \cup {Entry(key, b, p, q, r)},
              working'[r]),
         Placed(t, r)'
  PROVE  ErpInv'
  <1>1. StockTypeOK /\ holder[r] = t /\ r \notin Bucket /\ b \in Row
    BY DocHas DEF ErpInv, Row
  <1>2. /\ pending' = [pending EXCEPT ![t] = @ \cup {Entry(key, b, p, q, r)}]
        /\ \A u \in Txn \ {t} : pending'[u] = pending[u]
    BY <1>1 DEF Book, Entry, StockTypeOK
  <1>3. Touches(t, {b})
    BY <1>1, <1>2 DEF Touches, StockTypeOK, Holds
  <1>4. /\ holder' \in [Row -> Txn \cup {None}]
        /\ \A c \in Bucket \ {b} : c \notin {b} /\ working'[c] = working[c]
    BY <1>1 DEF StockTypeOK, Row
  <1>5. Books(t, {b}, key, b, p, q, r)
    BY <1>2, <1>3, <1>4 DEF Books
  <1> QED
    BY <1>5, DocBookingErp

-----------------------------------------------------------------------------
\* What the ledger says of the bucket b and the work order w.
LEMMA NetIsSum ==
  ASSUME NEW S, NEW w, NEW b
  PROVE  NetReserved(S, w, b) = ReservedSum(At(Of(S, w), b))
  <1>1. {e \in S : e.refId = w /\ e.inventoryId = b} = At(Of(S, w), b)
    BY DEF At, Of
  <1> QED
    BY <1>1 DEF NetReserved, ReservedSum

\* A work order takes some more of a bucket, or returns what it took.
LEMMA WorkOrderMoves ==
  ASSUME NEW w \in WorkOrder, NEW U, Entries(U), NEW row \in WorkOrderRow,
         WorkOrderTold(w, U, row), NEW e, IsEntry(e), e \notin U,
         \/ e.idempotencyKey = <<"WORK_ORDER", w, "RESERVE", e.inventoryId>>
         \/ e.idempotencyKey = <<"WORK_ORDER", w, "CONSUME", e.inventoryId>>,
         ReservedSum(At(U, e.inventoryId)) + e.reservedDelta >= 0
  PROVE  WorkOrderTold(w, U \cup {e}, row)
  <1>1. row # Absent
    BY WorkOrdersAssumption
  <1>2. ASSUME NEW b \in Bucket
        PROVE  ReservedSum(At(U \cup {e}, b)) >= 0
    <2>1. CASE b = e.inventoryId
      <3>1. ReservedSum(At(U \cup {e}, b)) = ReservedSum(At(U, b)) + e.reservedDelta
        BY <2>1, OneMore
      <3> QED
        BY <2>1, <3>1
    <2>2. CASE b # e.inventoryId
      <3>1. At(U \cup {e}, b) = At(U, b)
        BY <2>2, OneMore
      <3> QED
        BY <3>1 DEF WorkOrderTold
    <2> QED
      BY <2>1, <2>2
  <1> QED
    BY <1>1, <1>2 DEF WorkOrderTold

\* The row of a work order and where its transaction is.
LEMMA WorkOrderHas ==
  ASSUME ErpInv, NEW t \in Txn, NEW w \in WorkOrder, w = tx[t].doc
  PROVE  /\ w \in Docs /\ w \in Document /\ working[w] \in WorkOrderRow
         /\ working[w] # Absent /\ WorkOrderAt(t, w) /\ tx[t].op # "receipt"
         /\ WorkOrderTold(w, Of(ledger \cup pending[t], w), working[w])
  <1>1. w \in Docs /\ ~Unsaved(t, w)
    BY DocKinds DEF Unsaved
  <1>2. Told(w, Of(ledger \cup pending[t], w), working[w])
    BY <1>1, OwnRow
  <1> QED
    BY <1>1, <1>2, OwnRow, DocHas, DocPlaced, DocRows DEF Told, Placed

\* What is told of a work order is all that is told.
LEMMA WorkOrderToldOnly ==
  ASSUME NEW w \in WorkOrder, NEW S, NEW row, WorkOrderTold(w, S, row)
  PROVE  Told(w, S, row)
  BY DocKinds DEF Told

LEMMA WorkOrderPlaced ==
  ASSUME NEW t \in Txn, NEW w \in WorkOrder, WorkOrderAt(t, w)'
  PROVE  Placed(t, w)'
  BY DocKinds DEF Placed

\* POST /work-orders
LEMMA CreateWorkOrderErp ==
  ASSUME ErpInv, NEW t \in Txn, NEW w \in WorkOrder, NEW form \in WorkOrderForms,
         CreateWorkOrder(t, w, form)
  PROVE  ErpInv'
  <1>1. PICK row : row = [status |-> "ASSIGNED", item |-> form.item,
                          location |-> form.location,
                          requiredQty |-> form.requiredQty]
    OBVIOUS
  <1>2. w \in Docs /\ w \in Document /\ StockTypeOK
    BY DocKinds, DocRows DEF ErpInv
  <1>3. InsertDocument(t, w, row) /\ Proceed(t, "create", "commit", w, 0)
    BY <1>1 DEF CreateWorkOrder
  <1>4. /\ tx' \in [Txn -> TxRow] /\ \A u \in Txn \ {t} : tx'[u] = tx[u]
        /\ tx'[t].op = "create" /\ tx'[t].step = "commit" /\ tx'[t].doc = w
    BY <1>2, <1>3, Proceeds DEF StockTypeOK
  <1>5. row \in WorkOrderRow /\ row.status = "ASSIGNED" /\ row # Absent
    BY <1>1, WorkOrdersAssumption DEF WorkOrderRow, WorkOrderStatus
  <1>6. /\ Told(w, Of(ledger, w), Absent) /\ working'[w] = row
        /\ pending'[t] = {} /\ ledger' = ledger
    BY <1>2, <1>3, InsertFacts
  <1>7. Of(ledger, w) = {}
    BY <1>6 DEF Told, WorkOrderTold
  <1>8. WorkOrderTold(w, Of(ledger, w), row)
    <2>1. \A b : At({}, b) = {}
      BY DEF At
    <2>2. \A b : ReservedSum(At({}, b)) >= 0
      BY <2>1, LedgerSums
    <2> QED
      BY <1>5, <1>7, <2>2 DEF WorkOrderTold
  <1>9. Told(w, Of(ledger, w), row)
    BY <1>8, WorkOrderToldOnly
  <1>10. Of(ledger' \cup pending'[t], w) = {}
    BY <1>6, <1>7 DEF Of
  <1>11. WorkOrderAt(t, w)'
    BY <1>4, <1>5, <1>6, <1>10 DEF WorkOrderAt, WorkOrderSettled
  <1>12. Placed(t, w)'
    BY <1>11, WorkOrderPlaced
  <1> QED
    BY <1>2, <1>3, <1>4, <1>5, <1>9, <1>12, InsertErp

\* PATCH /work-orders/:id/status to IN_PROGRESS
LEMMA BeginStartErp ==
  ASSUME ErpInv, NEW t \in Txn, NEW w \in WorkOrder, BeginStart(t, w)
  PROVE  ErpInv'
  <1>1. w \in Docs /\ w \in Document /\ StockTypeOK
    BY DocKinds, DocRows DEF ErpInv
  <1>2. /\ LockDocument(t, w) /\ committed[w].status = "ASSIGNED"
        /\ Proceed(t, "start", "find", w, 0)
    BY DEF BeginStart, MayBecome
  <1>3. /\ tx' \in [Txn -> TxRow] /\ \A u \in Txn \ {t} : tx'[u] = tx[u]
        /\ tx'[t].op = "start" /\ tx'[t].step = "find" /\ tx'[t].doc = w
    BY <1>1, <1>2, Proceeds DEF StockTypeOK
  <1>4. pending'[t] = {} /\ ledger' = ledger /\ committed[w] # Absent
    BY <1>1, <1>2, LockFacts
  <1>5. Of(ledger, w) = {}
    BY <1>1, <1>2, <1>4 DEF ErpInv, DocsOK, WorkOrderSettled
  <1>6. WorkOrderAt(t, w)'
    BY <1>3, <1>4, <1>5 DEF WorkOrderAt
  <1>7. Placed(t, w)'
    BY <1>6, WorkOrderPlaced
  <1> QED
    BY <1>1, <1>2, <1>3, <1>7, LockErp

\* PATCH /work-orders/:id/status to COMPLETED
LEMMA BeginCompleteErp ==
  ASSUME ErpInv, NEW t \in Txn, NEW w \in WorkOrder, BeginComplete(t, w)
  PROVE  ErpInv'
  <1>1. w \in Docs /\ w \in Document /\ StockTypeOK
    BY DocKinds, DocRows DEF ErpInv
  <1>2. PICK holds : holds = {b \in Bucket : NetReserved(ledger, w, b) > 0}
    OBVIOUS
  <1>3. PICK record : record = [Idle EXCEPT !.op = "complete", !.step = "consume",
                                            !.doc = w, !.todo = holds]
    OBVIOUS
  <1>4. /\ LockDocument(t, w) /\ committed[w].status = "IN_PROGRESS"
        /\ tx' = [tx EXCEPT ![t] = record]
    BY <1>2, <1>3 DEF BeginComplete, MayBecome
  <1>5. /\ record \in TxRow /\ record.op = "complete" /\ record.step = "consume"
        /\ record.doc = w /\ record.todo = holds
    <2>1. /\ record.op = "complete" /\ record.step = "consume" /\ record.doc = w
          /\ record.line = 0 /\ record.remaining = 0 /\ record.todo = holds
          /\ record = [f \in {"op", "step", "doc", "line", "remaining", "todo"} |->
                         record[f]]
      BY <1>3 DEF Idle
    <2> QED
      BY <1>1, <1>2, <2>1 DEF TxRow
  <1>6. /\ tx' \in [Txn -> TxRow] /\ \A u \in Txn \ {t} : tx'[u] = tx[u]
        /\ tx'[t] = record
    BY <1>1, <1>4, <1>5 DEF StockTypeOK
  <1>7. pending'[t] = {} /\ ledger' = ledger /\ committed[w] # Absent
    BY <1>1, <1>4, LockFacts
  <1>8. TakenOnly(w, Of(ledger, w))
    BY <1>1, <1>4, <1>7 DEF ErpInv, DocsOK, WorkOrderSettled
  <1>9. \A b \in holds : ReservedSum(At(Of(ledger, w), b)) > 0
    BY <1>2, NetIsSum
  <1>10. WorkOrderAt(t, w)'
    BY <1>5, <1>6, <1>7, <1>8, <1>9 DEF WorkOrderAt
  <1>11. Placed(t, w)'
    BY <1>10, WorkOrderPlaced
  <1> QED
    BY <1>1, <1>4, <1>5, <1>6, <1>11, LockErp

\* The unlocked read of reserveMaterial.
LEMMA FindMaterialErp ==
  ASSUME ErpInv, NEW t \in Txn, NEW w \in WorkOrder, w = tx[t].doc, FindMaterial(t)
  PROVE  ErpInv'
  <1>1. /\ w \in Docs /\ working[w] \in WorkOrderRow /\ working[w] # Absent
        /\ WorkOrderAt(t, w) /\ tx[t].op # "receipt"
        /\ WorkOrderTold(w, Of(ledger \cup pending[t], w), working[w])
    BY WorkOrderHas
  <1>2. StockTypeOK /\ w \in Row
    BY <1>1, DocRows DEF ErpInv
  <1>3. PICK q : q = working[w].requiredQty
    OBVIOUS
  <1>4. PICK found : found = Candidates(t)
    OBVIOUS
  <1>5. q \in Nat /\ found \in SUBSET Bucket
    BY <1>1, <1>3, <1>4 DEF WorkOrderRow, Candidates, AvailableBuckets, BucketsOf
  <1>6. /\ tx[t].step = "find"
        /\ tx' = [tx EXCEPT ![t].step = "take", ![t].remaining = q, ![t].todo = found]
        /\ committed' = committed /\ working' = working /\ holder' = holder
        /\ ledger' = ledger /\ pending' = pending
    BY <1>3, <1>4 DEF FindMaterial, rows
  <1>7. /\ tx' \in [Txn -> TxRow] /\ \A u \in Txn \ {t} : tx'[u] = tx[u]
        /\ tx'[t].step = "take" /\ tx'[t].op = tx[t].op /\ tx'[t].doc = w
    <2>1. Loops(t, q, found) /\ q \in Int
      BY <1>5, <1>6 DEF Loops
    <2> QED
      BY <1>1, <1>2, <1>5, <2>1, LoopRecord
  <1>8. tx[t].op = "start" /\ Of(ledger, w) = {} /\ pending[t] = {}
    BY <1>1, <1>6 DEF WorkOrderAt
  <1>9. WorkOrderAt(t, w)'
    BY <1>6, <1>7, <1>8 DEF WorkOrderAt, TakenOnly
  <1>10. Placed(t, w)'
    BY <1>9, WorkOrderPlaced
  <1>11. Told(w, Of(ledger \cup pending[t], w), working'[w])
    BY <1>1, <1>6, WorkOrderToldOnly
  <1>12. DOMAIN working' = Row /\ \A r \in Row \ {w} : working'[r] = working[r]
    BY <1>2, <1>6 DEF StockTypeOK
  <1> QED
    BY <1>1, <1>6, <1>7, <1>10, <1>11, <1>12, DocStillErp

\* One turn of reserveMaterial's loop.
LEMMA TakeMaterialErp ==
  ASSUME ErpInv, NEW t \in Txn, NEW w \in WorkOrder, w = tx[t].doc, TakeMaterial(t)
  PROVE  ErpInv'
  <1>1. /\ w \in Docs /\ working[w] \in WorkOrderRow /\ working[w] # Absent
        /\ WorkOrderAt(t, w) /\ tx[t].op # "receipt"
        /\ WorkOrderTold(w, Of(ledger \cup pending[t], w), working[w])
    BY WorkOrderHas
  <1>2. /\ StockTypeOK /\ ShelvesOK /\ w \in Row /\ w \notin Bucket
        /\ \A e \in pending[t] : e.refId = w
        /\ Of(ledger \cup pending[t], w) = Of(ledger, w) \cup pending[t]
        /\ Entries(pending[t])
    BY <1>1, DocHas DEF ErpInv
  <1>3. /\ tx[t].step = "take" /\ tx[t].remaining > 0 /\ tx[t].todo # {}
        /\ committed' = committed /\ ledger' = ledger
    BY DEF TakeMaterial
  <1>4. tx[t].todo \in SUBSET Bucket /\ tx[t].remaining \in Int
    BY <1>2, RecordType
  <1>5. PICK b \in Bucket : b = FirstExpiring(tx[t].todo)
    BY <1>3, <1>4, FirstExpiringIn
  <1>6. b \in tx[t].todo /\ b \in Row
    BY <1>3, <1>4, <1>5, FirstExpiringIn DEF Row
  <1>7. PICK available : available = AvailableQty(working[b])
    OBVIOUS
  <1>8. PICK take : take = IF tx[t].remaining <= available THEN tx[t].remaining
                                                            ELSE available
    OBVIOUS
  <1>9. Quantities(working[b]) \in BucketRow
    BY <1>2, QuantitiesType DEF StockTypeOK
  <1>10. available \in Int /\ take \in Int /\ take <= available /\ take <= tx[t].remaining
    BY <1>4, <1>7, <1>8, <1>9 DEF AvailableQty, BucketRow
  <1>11. CanLock(t, b) /\ holder' = [holder EXCEPT ![b] = t]
    BY <1>5 DEF TakeMaterial
  <1>12. /\ tx[t].op = "start" /\ Of(ledger, w) = {} /\ TakenOnly(w, pending[t])
         /\ \A e \in pending[t] : e.inventoryId \notin tx[t].todo
    BY <1>1, <1>3 DEF WorkOrderAt
  <1>13. CASE /\ tx' = [tx EXCEPT ![t].todo = @ \ {b}]
              /\ UNCHANGED <<working, pending>>
    <2>1. /\ tx' \in [Txn -> TxRow] /\ \A u \in Txn \ {t} : tx'[u] = tx[u]
          /\ tx'[t].step = "take" /\ tx'[t].op = tx[t].op /\ tx'[t].doc = w
          /\ tx'[t].todo = tx[t].todo \ {b}
      BY <1>2, <1>3, <1>4, <1>13 DEF StockTypeOK, TxRow
    <2>2. WorkOrderAt(t, w)'
      BY <1>3, <1>12, <1>13, <2>1 DEF WorkOrderAt
    <2>3. Placed(t, w)'
      BY <2>2, WorkOrderPlaced
    <2>4. Told(w, Of(ledger \cup pending[t], w), working'[w])
      BY <1>1, <1>13, WorkOrderToldOnly
    <2>5. /\ DOMAIN working' = Row /\ holder' \in [Row -> Txn \cup {None}]
          /\ \A r \in Row : holder'[r] = IF r \in {b} THEN t ELSE holder[r]
          /\ \A r \in Row \ {w} : working'[r] = working[r]
          /\ {b} \in SUBSET Bucket /\ \A c \in {b} : CanLock(t, c)
      BY <1>2, <1>6, <1>11, <1>13 DEF StockTypeOK
    <2> QED
      BY <1>1, <1>3, <1>13, <2>1, <2>3, <2>4, <2>5, DocLocalErp
  <1>14. CASE /\ take > 0
              /\ working' = [working EXCEPT ![b] = Moved(@, 0, take)]
              /\ Book(t, <<"WORK_ORDER", w, "RESERVE", b>>, b, 0, take, w)
              /\ tx' = [tx EXCEPT ![t].todo = @ \ {b}, ![t].remaining = @ - take]
    <2>1. PICK key : key = <<"WORK_ORDER", w, "RESERVE", b>>
      OBVIOUS
    <2>2. tx[t].remaining - take \in Int
      BY <1>4, <1>10
    <2>3. /\ tx' \in [Txn -> TxRow] /\ \A u \in Txn \ {t} : tx'[u] = tx[u]
          /\ tx'[t].step = "take" /\ tx'[t].op = tx[t].op /\ tx'[t].doc = w
          /\ tx'[t].todo = tx[t].todo \ {b}
      <3>1. PICK n \in Int : n = tx[t].remaining - take
        BY <2>2
      <3>2. PICK S \in SUBSET Bucket : S = tx[t].todo \ {b}
        BY <1>4
      <3>3. Loops(t, n, S)
        BY <1>2, <1>3, <1>14, <3>1, <3>2 DEF StockTypeOK, Loops
      <3> QED
        BY <1>2, <1>3, <3>2, <3>3, LoopRecord
    <2>4. working[b] # Absent
      BY <1>7, <1>10, <1>14 DEF AvailableQty, Quantities
    <2>5. /\ DOMAIN working' = Row /\ working'[b] = Moved(working[b], 0, take)
          /\ working'[w] = working[w]
          /\ \A r \in Row \ {b, w} : working'[r] = working[r]
      BY <1>2, <1>6, <1>14 DEF StockTypeOK
    <2>6. PICK e : e = Entry(key, b, 0, take, w)
      OBVIOUS
    <2>7. /\ IsEntry(e) /\ e.idempotencyKey = key /\ e.inventoryId = b
          /\ e.physicalDelta = 0 /\ e.reservedDelta = take /\ e.refId = w
      BY <1>10, <2>6, EntryIs
    <2>8. PICK U : U = Of(ledger \cup pending[t], w)
      OBVIOUS
    <2>9. U = pending[t] /\ Entries(U) /\ WorkOrderTold(w, U, working[w])
      BY <1>1, <1>2, <1>12, <2>8
    <2>10. ASSUME NEW d \in U
           PROVE  d.idempotencyKey # key
      <3>1. /\ d.idempotencyKey = <<"WORK_ORDER", w, "RESERVE", d.inventoryId>>
            /\ d.inventoryId # b
        BY <1>6, <1>12, <2>9 DEF TakenOnly
      <3> QED
        BY <2>1, <3>1
    <2>11. e \notin U
      BY <2>7, <2>10
    <2>12. ReservedSum(At(U, b)) + take >= 0
      <3>1. ReservedSum(At(U, b)) >= 0
        BY <2>9 DEF WorkOrderTold
      <3>2. ReservedSum(At(U, b)) \in Int
        BY <2>9, RowsAt, LedgerSums
      <3> QED
        BY <1>10, <1>14, <3>1, <3>2
    <2>13. WorkOrderTold(w, U \cup {e}, working[w])
      BY <1>1, <2>1, <2>7, <2>9, <2>11, <2>12, WorkOrderMoves
    <2>14. Told(w, Of(ledger \cup pending[t], w) \cup {Entry(key, b, 0, take, w)}, working'[w])
      BY <2>5, <2>6, <2>8, <2>13, WorkOrderToldOnly
    <2>15. pending'[t] = pending[t] \cup {e}
      BY <1>2, <1>14, <2>1, <2>6 DEF Book, Entry, StockTypeOK
    <2>16. WorkOrderAt(t, w)'
      BY <1>3, <1>12, <2>1, <2>3, <2>7, <2>15 DEF WorkOrderAt, TakenOnly
    <2>17. Placed(t, w)'
      BY <2>16, WorkOrderPlaced
    <2>18. Quantities(working[b]).reservedQty + take
             <= Quantities(working[b]).physicalQty + 0
      BY <1>7, <1>9, <1>10 DEF AvailableQty, BucketRow
    <2>19. key[1] \notin {"RECEIPT", "NULL"} /\ key[2] = w /\ 0 \in Int
      BY <2>1
    <2>20. Book(t, key, b, 0, take, w)
      BY <1>14, <2>1
    <2>21. /\ \A d \in Of(ledger \cup pending[t], w) : d.idempotencyKey # key
           /\ working'[w] # Absent /\ tx'[t].op # "receipt" /\ tx'[t].step # "idle"
      BY <1>1, <2>3, <2>5, <2>8, <2>10
    <2> QED
      BY <1>1, <1>3, <1>10, <1>11, <2>3, <2>4, <2>5, <2>14, <2>17, <2>18, <2>19,
         <2>20, <2>21, DocMoveErp
  <1> QED
    BY <1>5, <1>7, <1>8, <1>13, <1>14 DEF TakeMaterial

\* One turn of consumeMaterial.
LEMMA ConsumeMaterialErp ==
  ASSUME ErpInv, NEW t \in Txn, NEW w \in WorkOrder, w = tx[t].doc, ConsumeMaterial(t)
  PROVE  ErpInv'
  <1>1. /\ w \in Docs /\ working[w] \in WorkOrderRow /\ working[w] # Absent
        /\ WorkOrderAt(t, w) /\ tx[t].op # "receipt"
        /\ WorkOrderTold(w, Of(ledger \cup pending[t], w), working[w])
    BY WorkOrderHas
  <1>2. /\ StockTypeOK /\ ShelvesOK /\ w \in Row /\ w \notin Bucket
        /\ \A e \in pending[t] : e.refId = w
        /\ Of(ledger \cup pending[t], w) = Of(ledger, w) \cup pending[t]
        /\ Entries(pending[t]) /\ Entries(Of(ledger, w))
        /\ Entries(Of(ledger \cup pending[t], w))
    BY <1>1, DocHas DEF ErpInv
  <1>3. /\ tx[t].step = "consume" /\ tx[t].todo # {}
        /\ committed' = committed /\ ledger' = ledger
    BY DEF ConsumeMaterial
  <1>4. tx[t].todo \in SUBSET Bucket
    BY <1>2, RecordType
  <1>5. PICK b \in Bucket : b = FirstByUuid(tx[t].todo)
    BY <1>3, <1>4, FirstByUuidIn
  <1>6. b \in tx[t].todo /\ b \in Row
    BY <1>3, <1>4, <1>5, FirstByUuidIn DEF Row
  <1>7. PICK q : q = NetReserved(ledger, w, b)
    OBVIOUS
  <1>8. PICK key : key = <<"WORK_ORDER", w, "CONSUME", b>>
    OBVIOUS
  <1>9. /\ CanLock(t, b) /\ holder' = [holder EXCEPT ![b] = t]
        /\ working' = [working EXCEPT ![b] = Moved(@, -q, -q)]
        /\ Book(t, key, b, -q, -q, w)
        /\ tx' = [tx EXCEPT ![t].todo = @ \ {b}]
    BY <1>5, <1>7, <1>8 DEF ConsumeMaterial
  <1>10. /\ tx[t].op # "start" /\ TakenOnly(w, Of(ledger, w))
         /\ \A e \in pending[t] : e.inventoryId \notin tx[t].todo
         /\ \A c \in tx[t].todo : ReservedSum(At(Of(ledger, w), c)) > 0
    BY <1>1, <1>3 DEF WorkOrderAt
  <1>11. q = ReservedSum(At(Of(ledger, w), b)) /\ q > 0 /\ q \in Int /\ -q \in Int
    <2>1. q = ReservedSum(At(Of(ledger, w), b))
      BY <1>7, NetIsSum
    <2>2. q \in Int
      BY <1>2, <2>1, RowsAt, LedgerSums
    <2> QED
      BY <1>6, <1>10, <2>1, <2>2
  <1>12. working[b] # Absent
    <2>1. At(Of(ledger, w), b) # {}
      BY <1>11, LedgerSums
    <2>2. PICK d \in ledger : d.inventoryId = b
      BY <2>1 DEF At, Of
    <2> QED
      BY <1>2, <2>2 DEF ShelvesOK
  <1>13. /\ tx' \in [Txn -> TxRow] /\ \A u \in Txn \ {t} : tx'[u] = tx[u]
         /\ tx'[t].step = "consume" /\ tx'[t].op = tx[t].op /\ tx'[t].doc = w
         /\ tx'[t].todo = tx[t].todo \ {b}
    BY <1>2, <1>3, <1>4, <1>9 DEF StockTypeOK, TxRow
  <1>14. /\ DOMAIN working' = Row /\ working'[b] = Moved(working[b], -q, -q)
         /\ working'[w] = working[w]
         /\ \A r \in Row \ {b, w} : working'[r] = working[r]
    BY <1>2, <1>6, <1>9 DEF StockTypeOK
  <1>15. PICK e : e = Entry(key, b, -q, -q, w)
    OBVIOUS
  <1>16. /\ IsEntry(e) /\ e.idempotencyKey = key /\ e.inventoryId = b
         /\ e.physicalDelta = -q /\ e.reservedDelta = -q /\ e.refId = w
    BY <1>11, <1>15, EntryIs
  <1>17. PICK U : U = Of(ledger \cup pending[t], w)
    OBVIOUS
  <1>18. U = Of(ledger, w) \cup pending[t] /\ Entries(U) /\ WorkOrderTold(w, U, working[w])
    BY <1>1, <1>2, <1>17
  <1>19. ASSUME NEW d \in U
         PROVE  d.idempotencyKey # key
    <2>1. CASE d \in Of(ledger, w)
      <3>1. d.idempotencyKey = <<"WORK_ORDER", w, "RESERVE", d.inventoryId>>
        BY <1>10, <2>1 DEF TakenOnly
      <3> QED
        BY <1>8, <3>1
    <2>2. CASE d \in pending[t]
      <3>1. /\ \/ d.idempotencyKey = <<"WORK_ORDER", w, "RESERVE", d.inventoryId>>
               \/ d.idempotencyKey = <<"WORK_ORDER", w, "CONSUME", d.inventoryId>>
            /\ d.inventoryId # b
        BY <1>6, <1>10, <1>18, <2>2 DEF WorkOrderTold
      <3> QED
        BY <1>8, <3>1
    <2> QED
      BY <1>18, <2>1, <2>2
  <1>20. e \notin U
    BY <1>16, <1>19
  <1>21. At(U, b) = At(Of(ledger, w), b)
    BY <1>6, <1>10, <1>18 DEF At
  <1>22. WorkOrderTold(w, U \cup {e}, working[w])
    <2>1. ReservedSum(At(U, b)) + (-q) >= 0
      BY <1>11, <1>21
    <2> QED
      BY <1>1, <1>8, <1>16, <1>18, <1>20, <2>1, WorkOrderMoves
  <1>23. Told(w, Of(ledger \cup pending[t], w) \cup {Entry(key, b, -q, -q, w)}, working'[w])
    BY <1>14, <1>15, <1>17, <1>22, WorkOrderToldOnly
  <1>24. pending'[t] = pending[t] \cup {e}
    BY <1>2, <1>9, <1>15 DEF Book, Entry, StockTypeOK
  <1>25. WorkOrderAt(t, w)'
    BY <1>3, <1>10, <1>13, <1>16, <1>24 DEF WorkOrderAt
  <1>26. Placed(t, w)'
    BY <1>25, WorkOrderPlaced
  <1>27. Quantities(working[b]).reservedQty + (-q) <= Quantities(working[b]).physicalQty + (-q)
    <2>1. Quantities(working[b]) \in BucketRow /\ Covered(working[b])
      BY <1>2, QuantitiesType DEF StockTypeOK, ShelvesOK
    <2> QED
      BY <1>11, <2>1 DEF Covered, BucketRow
  <1>28. key[1] \notin {"RECEIPT", "NULL"} /\ key[2] = w
    BY <1>8
  <1>29. /\ \A d \in Of(ledger \cup pending[t], w) : d.idempotencyKey # key
         /\ working'[w] # Absent /\ tx'[t].op # "receipt" /\ tx'[t].step # "idle"
    BY <1>1, <1>13, <1>14, <1>17, <1>19
  <1> QED
    BY <1>1, <1>3, <1>9, <1>11, <1>12, <1>13, <1>14, <1>23, <1>26, <1>27, <1>28,
       <1>29, DocMoveErp

\* The end of updateStatus.
LEMMA FinishStatusErp ==
  ASSUME ErpInv, NEW t \in Txn, NEW w \in WorkOrder, w = tx[t].doc, FinishStatus(t)
  PROVE  ErpInv'
  <1>1. /\ w \in Docs /\ w \in Document /\ working[w] \in WorkOrderRow
        /\ WorkOrderAt(t, w) /\ tx[t].op # "receipt"
        /\ WorkOrderTold(w, Of(ledger \cup pending[t], w), working[w])
    BY WorkOrderHas
  <1>2. /\ StockTypeOK /\ w \in Row
        /\ Of(ledger \cup pending[t], w) = Of(ledger, w) \cup pending[t]
    BY <1>1, DocHas DEF ErpInv
  <1>3. PICK status : status = IF tx[t].op = "start" THEN "IN_PROGRESS" ELSE "COMPLETED"
    OBVIOUS
  <1>4. PICK after : after = [working[w] EXCEPT !.status = status]
    OBVIOUS
  <1>5. /\ tx[t].step = "take" \/ tx[t].step = "consume"
        /\ working' = [working EXCEPT ![w].status = status]
        /\ Proceed(t, tx[t].op, "commit", w, 0)
        /\ committed' = committed /\ holder' = holder
        /\ ledger' = ledger /\ pending' = pending
    BY <1>3 DEF FinishStatus
  <1>6. tx[t].op \in {"none", "create", "reserve", "cancel", "fulfil", "start",
                      "complete", "dispatch", "receive", "receipt", "adjustment"}
    BY <1>2 DEF StockTypeOK, TxRow
  <1>7. /\ tx' \in [Txn -> TxRow] /\ \A u \in Txn \ {t} : tx'[u] = tx[u]
        /\ tx'[t].step = "commit" /\ tx'[t].op = tx[t].op /\ tx'[t].doc = w
    BY <1>1, <1>2, <1>5, <1>6, Proceeds DEF StockTypeOK
  <1>8. after \in WorkOrderRow /\ after.status = status /\ after # Absent
    BY <1>1, <1>3, <1>4, WorkOrdersAssumption DEF WorkOrderRow, WorkOrderStatus
  <1>9. /\ DOMAIN working' = Row /\ working'[w] = after
        /\ \A r \in Row \ {w} : working'[r] = working[r]
    BY <1>2, <1>4, <1>5 DEF StockTypeOK
  <1>10. PICK U : U = Of(ledger \cup pending[t], w)
    OBVIOUS
  <1>11. WorkOrderTold(w, U, after)
    <2>1. working[w] # Absent
      BY <1>1, WorkOrdersAssumption
    <2> QED
      BY <1>1, <1>8, <1>10, <2>1 DEF WorkOrderTold
  <1>12. status = "IN_PROGRESS" => TakenOnly(w, U)
    <2>1. ASSUME status = "IN_PROGRESS"
          PROVE  TakenOnly(w, U)
      <3>1. tx[t].op = "start"
        BY <1>3, <2>1
      <3>2. Of(ledger, w) = {} /\ TakenOnly(w, pending[t])
        BY <1>1, <1>5, <3>1 DEF WorkOrderAt
      <3> QED
        BY <1>2, <1>10, <3>2
    <2> QED
      BY <2>1
  <1>13. WorkOrderSettled(w, U, after)
    BY <1>3, <1>8, <1>12 DEF WorkOrderSettled
  <1>14. U = Of(ledger' \cup pending'[t], w)
    BY <1>5, <1>10
  <1>15. WorkOrderAt(t, w)'
    BY <1>7, <1>9, <1>13, <1>14 DEF WorkOrderAt
  <1>16. Placed(t, w)'
    BY <1>15, WorkOrderPlaced
  <1>17. Told(w, Of(ledger \cup pending[t], w), working'[w]) /\ working'[w] # Absent
    BY <1>8, <1>9, <1>10, <1>11, WorkOrderToldOnly
  <1> QED
    BY <1>1, <1>5, <1>7, <1>9, <1>16, <1>17, DocStillErp

\* The whole of WorkOrdersService.
LEMMA WorkOrderErp ==
  ASSUME ErpInv, NEW t \in Txn, WorkOrderStep(t)
  PROVE  ErpInv'
  <1>1. CASE WorkOrderRequest(t)
    BY <1>1, CreateWorkOrderErp, BeginStartErp, BeginCompleteErp DEF WorkOrderRequest
  <1>2. CASE WorkOrderLocalStep(t) \/ WorkOrderLockStep(t)
    <2>1. PICK w \in WorkOrder : w = tx[t].doc
      BY <1>2 DEF WorkOrderLocalStep, WorkOrderLockStep
    <2>2. \/ FindMaterial(t) \/ FinishStatus(t) \/ TakeMaterial(t)
          \/ ConsumeMaterial(t) \/ Rollback(t)
          \/ tx[t].step = "commit" /\ Commit(t)
      BY <1>2 DEF WorkOrderLocalStep, WorkOrderLockStep, RefuseStart, RefuseTaken,
                  WorkOrderCommit
    <2> QED
      BY <2>1, <2>2, FindMaterialErp, FinishStatusErp, TakeMaterialErp,
         ConsumeMaterialErp, RollbackErp, CommitErp
  <1> QED
    BY <1>1, <1>2 DEF WorkOrderStep

-----------------------------------------------------------------------------
(***************************************************************************)
(* Orders.                                                                 *)
(***************************************************************************)

\* The row of an order and where its transaction is.
LEMMA OrderHas ==
  ASSUME ErpInv, NEW t \in Txn, NEW o \in Order, o = tx[t].doc
  PROVE  /\ o \in Docs /\ o \in Document /\ working[o] \in OrderRow
         /\ working[o] # Absent /\ OrderAt(t, o) /\ tx[t].op # "receipt"
         /\ OrderTold(o, Of(ledger \cup pending[t], o), working[o])
  <1>1. o \in Docs /\ ~Unsaved(t, o)
    BY DocKinds DEF Unsaved
  <1>2. Told(o, Of(ledger \cup pending[t], o), working[o])
    BY <1>1, OwnRow
  <1> QED
    BY <1>1, <1>2, OwnRow, DocHas, DocPlaced, DocRows DEF Told, Placed

\* What is told of an order is all that is told.
LEMMA OrderToldOnly ==
  ASSUME NEW o \in Order, NEW S, NEW row, OrderTold(o, S, row)
  PROVE  Told(o, S, row)
  BY DocKinds DEF Told

LEMMA OrderPlaced ==
  ASSUME NEW t \in Txn, NEW o \in Order, OrderAt(t, o)'
  PROVE  Placed(t, o)'
  BY DocKinds DEF Placed

\* What one more movement takes out of its own bucket.
LEMMA OneMoreOut ==
  ASSUME NEW S, Entries(S), NEW e, IsEntry(e), e \notin S, NEW c
  PROVE  /\ PhysicalSum(At(S, c)) \in Int
         /\ c = e.inventoryId => PhysicalSum(At(S \cup {e}, c))
                                   = PhysicalSum(At(S, c)) + e.physicalDelta
         /\ c # e.inventoryId => At(S \cup {e}, c) = At(S, c)
  <1>1. Entries(At(S, c))
    BY RowsAt
  <1>2. PhysicalSum(At(S, c)) \in Int
    BY <1>1, LedgerSums
  <1>3. ASSUME c = e.inventoryId
        PROVE  PhysicalSum(At(S \cup {e}, c)) = PhysicalSum(At(S, c)) + e.physicalDelta
    <2>1. At(S \cup {e}, c) = At(S, c) \cup {e} /\ e \notin At(S, c)
      BY <1>3 DEF At
    <2>2. PhysicalSum(At(S, c) \cup {e}) = PhysicalSum(At(S, c)) + e.physicalDelta
      BY <1>1, <2>1, LedgerSums
    <2> QED
      BY <2>1, <2>2
  <1>4. c # e.inventoryId => At(S \cup {e}, c) = At(S, c)
    BY DEF At
  <1> QED
    BY <1>2, <1>3, <1>4

\* The units that have left with an order are those of its CONSUMED reservations.
LEMMA ShippedElements ==
  ASSUME NEW order, order # Absent, NEW o, NEW b, NEW x
  PROVE  (x \in ShippedOf(order, o, b)) <=>
           \E k \in DOMAIN order.reservations :
             /\ order.reservations[k].status = "CONSUMED"
             /\ order.reservations[k].inventoryId = b
             /\ x \in Units(o, k, order.reservations[k].quantity)
  BY DEF ShippedOf, Units

\* A reservation that is ACTIVE has taken nothing away.
LEMMA ShippedAfterAppend ==
  ASSUME NEW order \in OrderRow, NEW after \in OrderRow, NEW held \in Reservation,
         after.reservations = Append(order.reservations, held),
         held.status = "ACTIVE", NEW o, NEW c
  PROVE  ShippedOf(after, o, c) = ShippedOf(order, o, c)
  <1>1. order # Absent /\ after # Absent
    BY OrdersAssumption
  <1>2. PICK old \in Seq(Reservation) : old = order.reservations
    BY OrderParts
  <1>3. PICK new : new = after.reservations
    OBVIOUS
  <1>4. /\ Len(old) \in Nat /\ DOMAIN old = 1 .. Len(old)
        /\ DOMAIN new = 1 .. Len(old) + 1
        /\ \A j \in 1 .. Len(old) : new[j] = old[j]
        /\ new[Len(old) + 1] = held
    <2>1. new = Append(old, held)
      BY <1>2, <1>3
    <2> QED
      BY <2>1, AppendProperties, LenProperties
  <1>5. ASSUME NEW x
        PROVE  (x \in ShippedOf(after, o, c)) <=> (x \in ShippedOf(order, o, c))
    <2>1. (x \in ShippedOf(after, o, c)) <=>
            \E j \in DOMAIN new :
              /\ new[j].status = "CONSUMED" /\ new[j].inventoryId = c
              /\ x \in Units(o, j, new[j].quantity)
      <3>1. PICK row : row = after
        OBVIOUS
      <3>2. row # Absent /\ row.reservations = new
        BY <1>1, <1>3, <3>1
      <3>3. (x \in ShippedOf(row, o, c)) <=>
              \E j \in DOMAIN row.reservations :
                /\ row.reservations[j].status = "CONSUMED"
                /\ row.reservations[j].inventoryId = c
                /\ x \in Units(o, j, row.reservations[j].quantity)
        BY <3>2, ShippedElements
      <3> QED
        BY <3>1, <3>2, <3>3
    <2>2. (x \in ShippedOf(order, o, c)) <=>
            \E j \in DOMAIN old :
              /\ old[j].status = "CONSUMED" /\ old[j].inventoryId = c
              /\ x \in Units(o, j, old[j].quantity)
      BY <1>1, <1>2, ShippedElements
    <2>3. /\ DOMAIN old \subseteq DOMAIN new
          /\ \A j \in DOMAIN new : j \in DOMAIN old \/ new[j] = held
          /\ \A j \in DOMAIN old : new[j] = old[j]
      BY <1>4
    <2> QED
      BY <2>1, <2>2, <2>3
  <1> QED
    BY <1>5

\* A reservation that ends takes its units away or leaves them.
LEMMA ShippedAfterRelease ==
  ASSUME NEW order \in OrderRow, NEW after \in OrderRow,
         NEW k, NEW b, NEW q, GivesBack(order, after, k, b, q),
         after.reservations[k].inventoryId = b, after.reservations[k].quantity = q,
         NEW o, NEW c
  PROVE  /\ Units(o, k, q) \cap ShippedOf(order, o, b) = {}
         /\ ShippedOf(after, o, c) =
              ShippedOf(order, o, c)
                \cup (IF c = b /\ after.reservations[k].status = "CONSUMED"
                      THEN Units(o, k, q) ELSE {})
  <1>1. order # Absent /\ after # Absent
    BY OrdersAssumption
  <1>2. /\ k \in DOMAIN order.reservations
        /\ order.reservations[k].status = "ACTIVE"
        /\ DOMAIN after.reservations = DOMAIN order.reservations
        /\ \A j \in DOMAIN order.reservations \ {k} :
             after.reservations[j] = order.reservations[j]
    BY DEF GivesBack, ActiveReservations
  <1>3. Units(o, k, q) \cap ShippedOf(order, o, b) = {}
    <2> SUFFICES ASSUME NEW x \in Units(o, k, q), x \in ShippedOf(order, o, b)
                 PROVE  FALSE
      OBVIOUS
    <2>1. PICK j \in DOMAIN order.reservations :
            /\ order.reservations[j].status = "CONSUMED"
            /\ x \in Units(o, j, order.reservations[j].quantity)
      BY <1>1, ShippedElements
    <2>2. j = k
      BY <2>1, UnitsDisjoint
    <2> QED
      BY <1>2, <2>1, <2>2
  <1>4. ASSUME NEW x
        PROVE  (x \in ShippedOf(after, o, c)) <=>
                 \/ x \in ShippedOf(order, o, c)
                 \/ /\ c = b /\ after.reservations[k].status = "CONSUMED"
                    /\ x \in Units(o, k, q)
    <2>1. (x \in ShippedOf(after, o, c)) <=>
            \E j \in DOMAIN order.reservations :
              /\ after.reservations[j].status = "CONSUMED"
              /\ after.reservations[j].inventoryId = c
              /\ x \in Units(o, j, after.reservations[j].quantity)
      BY <1>1, <1>2, ShippedElements
    <2>2. (x \in ShippedOf(order, o, c)) <=>
            \E j \in DOMAIN order.reservations :
              /\ order.reservations[j].status = "CONSUMED"
              /\ order.reservations[j].inventoryId = c
              /\ x \in Units(o, j, order.reservations[j].quantity)
      <3>1. PICK row : row = order
        OBVIOUS
      <3>2. (x \in ShippedOf(row, o, c)) <=>
              \E j \in DOMAIN row.reservations :
                /\ row.reservations[j].status = "CONSUMED"
                /\ row.reservations[j].inventoryId = c
                /\ x \in Units(o, j, row.reservations[j].quantity)
        BY <1>1, <3>1, ShippedElements
      <3> QED
        BY <3>1, <3>2
    <2> QED
      BY <1>2, <2>1, <2>2
  <1> QED
    BY <1>3, <1>4

\* Neither do the movements of a hold, nor those of a release.
LEMMA LeftAfterHold ==
  ASSUME NEW o \in Order, NEW U, Entries(U), NEW row \in OrderRow,
         LeftTold(o, U, row), NEW held \in Reservation, held.status = "ACTIVE",
         NEW after \in OrderRow,
         after.reservations = Append(row.reservations, held),
         NEW e, IsEntry(e), e \notin U, e.physicalDelta = 0
  PROVE  LeftTold(o, U \cup {e}, after)
  <1>1. ASSUME NEW b \in Bucket
        PROVE  /\ IsFiniteSet(ShippedOf(after, o, b))
               /\ PhysicalSum(At(U \cup {e}, b)) = -Cardinality(ShippedOf(after, o, b))
    <2>1. ShippedOf(after, o, b) = ShippedOf(row, o, b)
      BY ShippedAfterAppend
    <2>2. PhysicalSum(At(U \cup {e}, b)) = PhysicalSum(At(U, b))
      <3>1. /\ PhysicalSum(At(U, b)) \in Int
            /\ b = e.inventoryId => PhysicalSum(At(U \cup {e}, b))
                                      = PhysicalSum(At(U, b)) + e.physicalDelta
            /\ b # e.inventoryId => At(U \cup {e}, b) = At(U, b)
        BY OneMoreOut
      <3>2. CASE b = e.inventoryId
        BY <3>1, <3>2
      <3>3. CASE b # e.inventoryId
        BY <3>1, <3>3
      <3> QED
        BY <3>2, <3>3
    <2> QED
      BY <2>1, <2>2 DEF LeftTold
  <1> QED
    BY <1>1 DEF LeftTold

LEMMA LeftAfterReturn ==
  ASSUME NEW o \in Order, NEW U, Entries(U), NEW row \in OrderRow,
         LeftTold(o, U, row), NEW after \in OrderRow, NEW k, NEW b \in Bucket,
         NEW q \in Nat \ {0}, GivesBack(row, after, k, b, q),
         after.reservations[k].inventoryId = b, after.reservations[k].quantity = q,
         NEW e, IsEntry(e), e \notin U, e.inventoryId = b,
         e.physicalDelta = IF after.reservations[k].status = "CONSUMED" THEN -q ELSE 0
  PROVE  LeftTold(o, U \cup {e}, after)
  <1>1. ASSUME NEW c \in Bucket
        PROVE  /\ IsFiniteSet(ShippedOf(after, o, c))
               /\ PhysicalSum(At(U \cup {e}, c)) = -Cardinality(ShippedOf(after, o, c))
    <2>1. PICK sent : sent = ShippedOf(row, o, c)
      OBVIOUS
    <2>2. IsFiniteSet(sent) /\ PhysicalSum(At(U, c)) = -Cardinality(sent)
      BY <2>1 DEF LeftTold
    <2>3. /\ c = b => Units(o, k, q) \cap sent = {}
          /\ ShippedOf(after, o, c) =
               sent \cup (IF c = b /\ after.reservations[k].status = "CONSUMED"
                          THEN Units(o, k, q) ELSE {})
      <3>1. Units(o, k, q) \cap ShippedOf(row, o, b) = {}
        BY ShippedAfterRelease
      <3>2. ShippedOf(after, o, c) =
              ShippedOf(row, o, c)
                \cup (IF c = b /\ after.reservations[k].status = "CONSUMED"
                      THEN Units(o, k, q) ELSE {})
        BY ShippedAfterRelease
      <3> QED
        BY <2>1, <3>1, <3>2
    <2>4. /\ PhysicalSum(At(U, c)) \in Int
          /\ c = b => PhysicalSum(At(U \cup {e}, c))
                        = PhysicalSum(At(U, c)) + e.physicalDelta
          /\ c # b => At(U \cup {e}, c) = At(U, c)
      BY OneMoreOut
    <2>5. CASE c # b
      <3>1. ShippedOf(after, o, c) = sent
        BY <2>3, <2>5
      <3>2. At(U \cup {e}, c) = At(U, c)
        BY <2>4, <2>5
      <3> QED
        BY <2>2, <3>1, <3>2, Zenon
    <2>6. CASE c = b /\ after.reservations[k].status # "CONSUMED"
      <3>1. ShippedOf(after, o, c) = sent
        BY <2>3, <2>6
      <3>2. PhysicalSum(At(U \cup {e}, c)) = PhysicalSum(At(U, c))
        BY <2>4, <2>6
      <3> QED
        BY <2>2, <3>1, <3>2, Zenon
    <2>7. CASE c = b /\ after.reservations[k].status = "CONSUMED"
      <3>1. ShippedOf(after, o, c) = sent \cup Units(o, k, q) /\ sent \cap Units(o, k, q) = {}
        BY <2>3, <2>7
      <3>2. IsFiniteSet(Units(o, k, q)) /\ Cardinality(Units(o, k, q)) = q
        BY UnitsCounted
      <3>3. /\ IsFiniteSet(sent \cup Units(o, k, q))
            /\ Cardinality(sent \cup Units(o, k, q)) = Cardinality(sent) + q
        BY <2>2, <3>1, <3>2, AddUnits
      <3>4. Cardinality(sent) \in Nat
        BY <2>2, FS_CardinalityType
      <3>5. PhysicalSum(At(U \cup {e}, c)) = -Cardinality(sent) + (-q)
        BY <2>2, <2>4, <2>7
      <3>6. -Cardinality(sent) + (-q) = -(Cardinality(sent) + q)
        BY <3>4
      <3> QED
        BY <3>1, <3>3, <3>5, <3>6
    <2> QED
      BY <2>5, <2>6, <2>7
  <1> QED
    BY <1>1 DEF LeftTold

\* A row with the same reservations is told by the same movements.
LEMMA SameTold ==
  ASSUME NEW o \in Order, NEW U, NEW row \in OrderRow, OrderTold(o, U, row),
         NEW after \in OrderRow, after.reservations = row.reservations
  PROVE  OrderTold(o, U, after)
  <1>1. row # Absent /\ after # Absent
    BY OrdersAssumption
  <1>2. \A b \in Bucket : HeldOf(after, o, b) = HeldOf(row, o, b)
    BY <1>1, SameReservations
  <1>3. \A e \in U : KeyKnown(e.idempotencyKey, o, after)
    BY <1>1 DEF OrderTold, KeyKnown
  <1>4. LeftTold(o, U, after)
    <2>1. \A b \in Bucket : ShippedOf(after, o, b) = ShippedOf(row, o, b)
      BY <1>1 DEF ShippedOf
    <2> QED
      BY <2>1 DEF OrderTold, LeftTold
  <1> QED
    BY <1>2, <1>3, <1>4 DEF OrderTold

\* A new order holds nothing.
LEMMA DraftTold ==
  ASSUME NEW o \in Order, NEW U, OrderTold(o, U, Absent),
         NEW row \in OrderRow, row.reservations = <<>>
  PROVE  OrderTold(o, U, row)
  <1>1. U = {}
    BY DEF OrderTold, KeyKnown
  <1>2. ASSUME NEW b \in Bucket
        PROVE  HeldOf(row, o, b) = {}
    <2>1. ActiveReservations(row) = {}
      BY DEF ActiveReservations
    <2> QED
      BY <2>1 DEF HeldOf
  <1>3. \A b : At({}, b) = {}
    BY DEF At
  <1>4. ReservedSum({}) = 0 /\ PhysicalSum({}) = 0
    BY LedgerSums
  <1>5. LeftTold(o, U, row)
    <2>1. ASSUME NEW b \in Bucket
          PROVE  /\ IsFiniteSet(ShippedOf(row, o, b))
                 /\ PhysicalSum(At(U, b)) = -Cardinality(ShippedOf(row, o, b))
      <3>1. ShippedOf(row, o, b) = {}
        BY DEF ShippedOf
      <3>2. IsFiniteSet({}) /\ Cardinality({}) = 0
        BY FS_EmptySet
      <3>3. PhysicalSum(At(U, b)) = 0
        BY <1>1, <1>3, <1>4
      <3> QED
        BY <3>1, <3>2, <3>3
    <2> QED
      BY <2>1 DEF LeftTold
  <1> QED
    BY <1>1, <1>2, <1>3, <1>4, <1>5, FS_EmptySet DEF OrderTold

\* What one more movement adds in its own bucket.
LEMMA OneMoreThere ==
  ASSUME NEW S, Entries(S), NEW e, IsEntry(e), e \notin S, NEW c, c = e.inventoryId
  PROVE  ReservedSum(At(S \cup {e}, c)) = ReservedSum(At(S, c)) + e.reservedDelta
  BY OneMore

\* A new reservation of the order o, and the movement that books it.
LEMMA OrderHolds ==
  ASSUME NEW o \in Order, NEW U, Entries(U), NEW row \in OrderRow,
         OrderTold(o, U, row), NEW held \in Reservation, held.status = "ACTIVE",
         NEW after \in OrderRow,
         after.reservations = Append(row.reservations, held),
         NEW k, k = Len(row.reservations) + 1, NEW e, IsEntry(e),
         e.idempotencyKey = <<"RESERVATION", o, k, "RESERVE">>,
         e.inventoryId = held.inventoryId, e.reservedDelta = held.quantity,
         e.physicalDelta = 0
  PROVE  /\ \A d \in U : d.idempotencyKey # <<"RESERVATION", o, k, "RESERVE">>
         /\ OrderTold(o, U \cup {e}, after)
  <1>1. row # Absent /\ after # Absent
    BY OrdersAssumption
  <1>2. PICK old \in Seq(Reservation) : old = row.reservations
    BY OrderParts
  <1>3. PICK new : new = after.reservations
    OBVIOUS
  <1>4. /\ Len(old) \in Nat /\ DOMAIN old = 1 .. Len(old) /\ k = Len(old) + 1
        /\ DOMAIN new = 1 .. Len(old) + 1
        /\ \A j \in 1 .. Len(old) : new[j] = old[j]
    <2>1. new = Append(old, held)
      BY <1>2, <1>3
    <2> QED
      BY <1>2, <2>1, AppendProperties, LenProperties
  <1>5. k \notin DOMAIN old /\ k \in DOMAIN new /\ DOMAIN old \subseteq DOMAIN new
    BY <1>4
  <1>6. ASSUME NEW d \in U
        PROVE  /\ d.idempotencyKey # <<"RESERVATION", o, k, "RESERVE">>
               /\ KeyKnown(d.idempotencyKey, o, after)
    <2>1. PICK j \in DOMAIN old :
            \/ d.idempotencyKey = <<"RESERVATION", o, j, "RESERVE">>
            \/ /\ old[j].status # "ACTIVE"
               /\ d.idempotencyKey = <<"RESERVATION", o, j, old[j].status>>
      BY <1>2 DEF OrderTold, KeyKnown
    <2>2. j # k /\ j \in DOMAIN new /\ new[j] = old[j]
      BY <1>4, <1>5
    <2>3. d.idempotencyKey # <<"RESERVATION", o, k, "RESERVE">>
      BY <2>1, <2>2
    <2>4. KeyKnown(d.idempotencyKey, o, after)
      BY <1>1, <1>3, <2>1, <2>2 DEF KeyKnown
    <2> QED
      BY <2>3, <2>4
  <1>7. KeyKnown(e.idempotencyKey, o, after)
    BY <1>1, <1>3, <1>5 DEF KeyKnown
  <1>8. e \notin U
    BY <1>6
  <1>9. PICK b \in Bucket : b = held.inventoryId
    BY DEF Reservation
  <1>10. PICK q \in Nat : q = held.quantity
    BY DEF Reservation
  <1>11. PICK more : more = Units(o, k, q)
    OBVIOUS
  <1>12. IsFiniteSet(more) /\ Cardinality(more) = q
    BY <1>11, UnitsCounted
  <1>13. ASSUME NEW c \in Bucket
         PROVE  /\ IsFiniteSet(HeldOf(after, o, c))
                /\ ReservedSum(At(U \cup {e}, c)) = Cardinality(HeldOf(after, o, c))
    <2>1. PICK had : had = HeldOf(row, o, c)
      OBVIOUS
    <2>2. IsFiniteSet(had) /\ ReservedSum(At(U, c)) = Cardinality(had)
      BY <2>1 DEF OrderTold
    <2>3. HeldOf(after, o, c) = had \cup (IF c = b THEN more ELSE {})
      BY <1>9, <1>10, <1>11, <2>1, HeldAfterAppend
    <2>4. CASE c # b
      <3>1. At(U \cup {e}, c) = At(U, c)
        BY <1>8, <1>9, <2>4, OneMore
      <3>2. HeldOf(after, o, c) = had
        BY <2>3, <2>4
      <3> QED
        BY <2>2, <3>1, <3>2, Zenon
    <2>5. CASE c = b
      <3>1. ReservedSum(At(U \cup {e}, c)) = ReservedSum(At(U, c)) + q
        <4>1. e.reservedDelta = q /\ c = e.inventoryId
          BY <1>9, <1>10, <2>5
        <4>2. ReservedSum(At(U \cup {e}, c)) = ReservedSum(At(U, c)) + e.reservedDelta
          BY <1>8, <4>1, OneMoreThere, Zenon
        <4> QED
          BY <4>1, <4>2
      <3>2. had \cap more = {}
        <4> SUFFICES ASSUME NEW x \in had, x \in more
                     PROVE  FALSE
          OBVIOUS
        <4>1. PICK j \in DOMAIN row.reservations :
                x \in Units(o, j, row.reservations[j].quantity)
          BY <1>1, <2>1, HeldElements
        <4>2. j = k
          BY <1>11, <4>1, UnitsDisjoint
        <4> QED
          BY <1>2, <1>5, <4>1, <4>2
      <3>3. /\ IsFiniteSet(had \cup more)
            /\ Cardinality(had \cup more) = Cardinality(had) + Cardinality(more)
        BY <1>12, <2>2, <3>2, AddUnits
      <3> QED
        BY <1>12, <2>2, <2>3, <2>5, <3>1, <3>3
    <2> QED
      BY <2>4, <2>5
  <1>14. LeftTold(o, U \cup {e}, after)
    BY <1>8, LeftAfterHold DEF OrderTold
  <1> QED
    BY <1>6, <1>7, <1>13, <1>14 DEF OrderTold

\* The movement that takes the q units of b of the reservation k back.
TakesBack(e, o, k, b, q, outcome) ==
    /\ IsEntry(e) /\ outcome \in {"RELEASED", "CONSUMED"}
    /\ e.idempotencyKey = <<"RESERVATION", o, k, outcome>>
    /\ e.inventoryId = b /\ e.reservedDelta = -q
    /\ e.physicalDelta = IF outcome = "CONSUMED" THEN -q ELSE 0

\* A reservation of the order o that ends, and the movement that books it.
LEMMA OrderReturns ==
  ASSUME NEW o \in Order, NEW U, Entries(U), NEW row \in OrderRow,
         OrderTold(o, U, row), NEW after \in OrderRow, NEW k, NEW b \in Bucket,
         NEW q \in Nat \ {0}, GivesBack(row, after, k, b, q),
         after.reservations[k].inventoryId = b, after.reservations[k].quantity = q,
         NEW outcome, after.reservations[k].status = outcome,
         NEW e, TakesBack(e, o, k, b, q, outcome)
  PROVE  /\ \A d \in U : d.idempotencyKey # e.idempotencyKey
         /\ At(U, b) # {}
         /\ OrderTold(o, U \cup {e}, after)
  <1>0. /\ IsEntry(e) /\ outcome \in {"RELEASED", "CONSUMED"}
        /\ e.idempotencyKey = <<"RESERVATION", o, k, outcome>>
        /\ e.inventoryId = b /\ e.reservedDelta = -q
        /\ e.physicalDelta = IF outcome = "CONSUMED" THEN -q ELSE 0
    BY DEF TakesBack
  <1>1. row # Absent /\ after # Absent
    BY OrdersAssumption
  <1>2. /\ k \in DOMAIN row.reservations /\ row.reservations[k].status = "ACTIVE"
        /\ DOMAIN after.reservations = DOMAIN row.reservations
        /\ \A j \in DOMAIN row.reservations \ {k} :
             after.reservations[j] = row.reservations[j]
    BY DEF GivesBack, ActiveReservations
  <1>3. ASSUME NEW d \in U
        PROVE  /\ d.idempotencyKey # <<"RESERVATION", o, k, outcome>>
               /\ KeyKnown(d.idempotencyKey, o, after)
    <2>1. PICK j \in DOMAIN row.reservations :
            \/ d.idempotencyKey = <<"RESERVATION", o, j, "RESERVE">>
            \/ /\ row.reservations[j].status # "ACTIVE"
               /\ d.idempotencyKey = <<"RESERVATION", o, j, row.reservations[j].status>>
      BY DEF OrderTold, KeyKnown
    <2>2. CASE d.idempotencyKey = <<"RESERVATION", o, j, "RESERVE">>
      <3>1. outcome # "RESERVE"
        BY <1>0
      <3>2. KeyKnown(d.idempotencyKey, o, after)
        BY <1>1, <1>2, <2>2 DEF KeyKnown
      <3> QED
        BY <2>2, <3>1, <3>2
    <2>3. CASE /\ row.reservations[j].status # "ACTIVE"
               /\ d.idempotencyKey = <<"RESERVATION", o, j, row.reservations[j].status>>
      <3>1. j # k /\ after.reservations[j] = row.reservations[j]
        BY <1>2, <2>3
      <3>2. KeyKnown(d.idempotencyKey, o, after)
        BY <1>1, <1>2, <2>3, <3>1 DEF KeyKnown
      <3> QED
        BY <2>3, <3>1, <3>2
    <2> QED
      BY <2>1, <2>2, <2>3
  <1>4. KeyKnown(e.idempotencyKey, o, after)
    BY <1>0, <1>1, <1>2 DEF KeyKnown
  <1>5. e \notin U
    BY <1>0, <1>3
  <1>6. PICK less : less = Units(o, k, q)
    OBVIOUS
  <1>7. IsFiniteSet(less) /\ Cardinality(less) = q
    BY <1>6, UnitsCounted
  <1>8. PICK had : had = HeldOf(row, o, b)
    OBVIOUS
  <1>9. IsFiniteSet(had) /\ ReservedSum(At(U, b)) = Cardinality(had)
    BY <1>8 DEF OrderTold
  <1>10. HeldOf(after, o, b) = had \ less /\ less \subseteq had
    BY <1>6, <1>8, HeldAfterRelease
  <1>11. IsFiniteSet(had \ less) /\ Cardinality(had \ less) = Cardinality(had) - q
    BY <1>7, <1>9, <1>10, RemoveUnits
  <1>12. At(U, b) # {}
    <2>1. had # {}
      BY <1>7, <1>10, FS_EmptySet
    <2>2. Cardinality(had) # 0
      BY <1>9, <2>1, FS_EmptySet
    <2>3. ReservedSum({}) = 0
      BY LedgerSums
    <2> QED
      BY <1>9, <2>2, <2>3
  <1>13. ASSUME NEW c \in Bucket
         PROVE  /\ IsFiniteSet(HeldOf(after, o, c))
                /\ ReservedSum(At(U \cup {e}, c)) = Cardinality(HeldOf(after, o, c))
    <2>1. CASE c = b
      <3>1. ReservedSum(At(U \cup {e}, c)) = ReservedSum(At(U, c)) - q
        <4>1. Entries(U) /\ IsEntry(e) /\ e \notin U /\ c = e.inventoryId
          BY <1>0, <1>5, <2>1
        <4>2. ReservedSum(At(U \cup {e}, c)) = ReservedSum(At(U, c)) + e.reservedDelta
          BY <4>1, OneMore, Zenon
        <4>3. ReservedSum(At(U, c)) \in Int
          BY <4>1, OneMore, Zenon
        <4>4. PICK delta \in Int : delta = e.reservedDelta /\ delta = -q
          BY <1>0
        <4> QED
          BY <4>2, <4>3, <4>4
      <3> QED
        BY <1>9, <1>10, <1>11, <2>1, <3>1
    <2>2. CASE c # b
      <3>1. HeldOf(after, o, c) = HeldOf(row, o, c)
        BY <2>2, HeldAfterRelease
      <3>2. At(U \cup {e}, c) = At(U, c)
        BY <1>0, <1>5, <2>2, OneMore
      <3> QED
        BY <3>1, <3>2 DEF OrderTold
    <2> QED
      BY <2>1, <2>2
  <1>14. LeftTold(o, U \cup {e}, after)
    <2>1. LeftTold(o, U, row)
      BY DEF OrderTold
    <2> QED
      BY <1>0, <1>5, <2>1, LeftAfterReturn
  <1> QED
    BY <1>0, <1>3, <1>4, <1>12, <1>13, <1>14 DEF OrderTold

\* POST /orders
LEMMA CreateOrderErp ==
  ASSUME ErpInv, NEW t \in Txn, NEW o \in Order, NEW form \in OrderForms,
         NEW now, CreateOrder(t, o, form, now)
  PROVE  ErpInv'
  <1>1. o \in Docs /\ o \in Document /\ StockTypeOK
    BY DocKinds, DocRows DEF ErpInv
  <1>2. PICK lines : lines = [l \in DOMAIN form |->
                       [item |-> form[l].item, location |-> form[l].location,
                        quantity |-> form[l].quantity, reservedQty |-> 0]]
    OBVIOUS
  <1>3. PICK row : row = [status |-> "DRAFT", lines |-> lines, reservations |-> <<>>]
    OBVIOUS
  <1>4. /\ form \in Seq([item : Item, location : Location, quantity : Nat \ {0}])
        /\ form # <<>>
    BY OrdersAssumption
  <1>5. lines \in [DOMAIN form -> OrderLine]
    <2>1. ASSUME NEW l \in DOMAIN form
          PROVE  lines[l] \in OrderLine
      <3>1. form[l] \in [item : Item, location : Location, quantity : Nat \ {0}]
        <4>1. PICK Line : Line = [item : Item, location : Location,
                                  quantity : Nat \ {0}]
          OBVIOUS
        <4>2. form \in Seq(Line)
          BY <1>4, <4>1
        <4>3. form[l] \in Line
          BY <4>2, ElementOfSeq, LenProperties
        <4> QED
          BY <4>1, <4>3
      <3>2. lines[l] = [item |-> form[l].item, location |-> form[l].location,
                        quantity |-> form[l].quantity, reservedQty |-> 0]
        BY <1>2
      <3> QED
        BY <3>1, <3>2 DEF OrderLine
    <2> QED
      BY <1>2, <2>1
  <1>6. lines \in Seq(OrderLine)
    BY <1>4, <1>5, FunctionIsSeq
  <1>7. row \in OrderRow /\ row.reservations = <<>> /\ row.lines = lines
    <2>1. <<>> \in Seq(Reservation)
      OBVIOUS
    <2> QED
      BY <1>3, <1>6, <2>1 DEF OrderRow, OrderStatus
  <1>8. row # Absent
    BY <1>7, OrdersAssumption
  <1>9. 1 \in DOMAIN lines
    BY <1>2, <1>4, LenProperties, EmptySeq
  <1>10. /\ InsertDocument(t, o, row)
         /\ \/ Proceed(t, "reserve", "find", o, 1)
            \/ Proceed(t, "create", "commit", o, 0)
    BY <1>2, <1>3 DEF CreateOrder
  <1>11. /\ tx' \in [Txn -> TxRow] /\ \A u \in Txn \ {t} : tx'[u] = tx[u]
         /\ tx'[t].step # "idle" /\ tx'[t].doc = o /\ tx'[t].op # "receipt"
         /\ tx'[t].step \in {"find", "take"} => tx'[t].line = 1
    <2>1. tx \in [Txn -> TxRow]
      BY <1>1 DEF StockTypeOK
    <2>2. CASE Proceed(t, "reserve", "find", o, 1)
      BY <1>1, <2>1, <2>2, Proceeds
    <2>3. CASE Proceed(t, "create", "commit", o, 0)
      BY <1>1, <2>1, <2>3, Proceeds
    <2> QED
      BY <1>10, <2>2, <2>3
  <1>12. Told(o, Of(ledger, o), Absent) /\ working'[o] = row
    BY <1>1, <1>10, InsertFacts
  <1>13. OrderTold(o, Of(ledger, o), row)
    BY <1>7, <1>12, DraftTold DEF Told
  <1>14. Told(o, Of(ledger, o), row)
    BY <1>13, OrderToldOnly
  <1>15. OrderAt(t, o)'
    BY <1>7, <1>9, <1>11, <1>12 DEF OrderAt
  <1>16. Placed(t, o)'
    BY <1>15, OrderPlaced
  <1> QED
    BY <1>1, <1>8, <1>10, <1>11, <1>14, <1>16, InsertErp

\* An outstanding line is a line.
LEMMA OutstandingLine ==
  ASSUME NEW row \in OrderRow, Outstanding(row) # {}, NEW m, m = Min(Outstanding(row))
  PROVE  m \in DOMAIN row.lines /\ m \in Nat
  <1>1. DOMAIN row.lines \subseteq Nat
    BY OrderParts, LenProperties
  <1>2. m \in Outstanding(row)
    BY <1>1, MinIsLeast DEF Outstanding
  <1> QED
    BY <1>1, <1>2 DEF Outstanding

\* POST /orders/:id/reserve
LEMMA BeginReserveErp ==
  ASSUME ErpInv, NEW t \in Txn, NEW o \in Order, BeginReserve(t, o)
  PROVE  ErpInv'
  <1>1. o \in Docs /\ o \in Document /\ StockTypeOK
    BY DocKinds, DocRows DEF ErpInv
  <1>2. PICK m : m = Min(Outstanding(committed[o]))
    OBVIOUS
  <1>3. /\ LockDocument(t, o) /\ Outstanding(committed[o]) # {}
        /\ Proceed(t, "reserve", "find", o, m)
    BY <1>2 DEF BeginReserve
  <1>4. /\ working' = working /\ working[o] = committed[o] /\ committed[o] # Absent
        /\ Told(o, Of(ledger, o), committed[o])
    BY <1>1, <1>3, LockFacts
  <1>5. committed[o] \in OrderRow
    BY <1>4 DEF Told, OrderTold
  <1>6. m \in DOMAIN committed[o].lines /\ m \in Nat
    BY <1>2, <1>3, <1>5, OutstandingLine
  <1>7. /\ tx' \in [Txn -> TxRow] /\ \A u \in Txn \ {t} : tx'[u] = tx[u]
        /\ tx'[t].step # "idle" /\ tx'[t].doc = o /\ tx'[t].op # "receipt"
        /\ tx'[t].line = m
    BY <1>1, <1>3, <1>6, Proceeds DEF StockTypeOK
  <1>8. OrderAt(t, o)'
    BY <1>4, <1>6, <1>7 DEF OrderAt
  <1>9. Placed(t, o)'
    BY <1>8, OrderPlaced
  <1> QED
    BY <1>1, <1>3, <1>7, <1>9, LockErp

\* POST /orders/:id/cancel and POST /orders/:id/fulfil
LEMMA BeginReleaseErp ==
  ASSUME ErpInv, NEW t \in Txn, NEW o \in Order, BeginCancel(t, o) \/ BeginFulfil(t, o)
  PROVE  ErpInv'
  <1>1. o \in Docs /\ o \in Document /\ StockTypeOK
    BY DocKinds, DocRows DEF ErpInv
  <1>2. PICK op \in {"cancel", "fulfil"} :
          LockDocument(t, o) /\ Proceed(t, op, "release", o, 0)
    BY DEF BeginCancel, BeginFulfil
  <1>3. /\ tx' \in [Txn -> TxRow] /\ \A u \in Txn \ {t} : tx'[u] = tx[u]
        /\ tx'[t].step = "release" /\ tx'[t].doc = o /\ tx'[t].op # "receipt"
    BY <1>1, <1>2, Proceeds DEF StockTypeOK
  <1>4. OrderAt(t, o)'
    BY <1>3 DEF OrderAt
  <1>5. Placed(t, o)'
    BY <1>4, OrderPlaced
  <1> QED
    BY <1>1, <1>2, <1>3, <1>5, LockErp

\* The unlocked read of reserveLine.
LEMMA FindBucketsErp ==
  ASSUME ErpInv, NEW t \in Txn, NEW o \in Order, o = tx[t].doc, FindBuckets(t)
  PROVE  ErpInv'
  <1>1. /\ o \in Docs /\ working[o] \in OrderRow /\ working[o] # Absent
        /\ OrderAt(t, o) /\ tx[t].op # "receipt"
        /\ OrderTold(o, Of(ledger \cup pending[t], o), working[o])
    BY OrderHas
  <1>2. StockTypeOK /\ o \in Row
    BY <1>1, DocRows DEF ErpInv
  <1>3. PICK line : line = working[o].lines[tx[t].line]
    OBVIOUS
  <1>4. PICK n : n = line.quantity - line.reservedQty
    OBVIOUS
  <1>5. PICK found : found = AvailableBuckets(t, line.item, line.location)
    OBVIOUS
  <1>6. /\ tx[t].step = "find"
        /\ tx' = [tx EXCEPT ![t].step = "take", ![t].remaining = n, ![t].todo = found]
        /\ committed' = committed /\ working' = working /\ holder' = holder
        /\ ledger' = ledger /\ pending' = pending
    BY <1>3, <1>4, <1>5 DEF FindBuckets, rows
  <1>7. tx[t].line \in DOMAIN working[o].lines
    BY <1>1, <1>6 DEF OrderAt
  <1>8. n \in Int /\ found \in SUBSET Bucket
    <2>1. line \in OrderLine
      BY <1>1, <1>3, <1>7, OrderParts
    <2> QED
      BY <1>4, <1>5, <2>1 DEF OrderLine, AvailableBuckets, BucketsOf
  <1>9. /\ tx' \in [Txn -> TxRow] /\ \A u \in Txn \ {t} : tx'[u] = tx[u]
        /\ tx'[t].step = "take" /\ tx'[t].op = tx[t].op /\ tx'[t].doc = o
        /\ tx'[t].line = tx[t].line
    <2>1. Loops(t, n, found)
      BY <1>6 DEF Loops
    <2> QED
      BY <1>1, <1>2, <1>8, <2>1, LoopRecord
  <1>10. OrderAt(t, o)'
    BY <1>6, <1>7, <1>9 DEF OrderAt
  <1>11. Placed(t, o)'
    BY <1>10, OrderPlaced
  <1>12. Told(o, Of(ledger \cup pending[t], o), working'[o])
    BY <1>1, <1>6, OrderToldOnly
  <1>13. DOMAIN working' = Row /\ \A r \in Row \ {o} : working'[r] = working[r]
    BY <1>2, <1>6 DEF StockTypeOK
  <1> QED
    BY <1>1, <1>6, <1>9, <1>11, <1>12, <1>13, DocStillErp

\* The end of reserveLine.
LEMMA FinishLineErp ==
  ASSUME ErpInv, NEW t \in Txn, NEW o \in Order, o = tx[t].doc, FinishLine(t)
  PROVE  ErpInv'
  <1>1. /\ o \in Docs /\ o \in Document /\ working[o] \in OrderRow
        /\ OrderAt(t, o) /\ OrderTold(o, Of(ledger \cup pending[t], o), working[o])
    BY OrderHas
  <1>2. StockTypeOK /\ o \in Row
    BY <1>1, DocRows DEF ErpInv
  <1>3. tx[t].step = "take"
    BY DEF FinishLine
  <1>4. PICK row \in OrderRow : row = working[o]
    BY <1>1
  <1>5. PICK l \in DOMAIN row.lines : l = tx[t].line
    BY <1>1, <1>3, <1>4 DEF OrderAt
  <1>6. PICK q \in Int : q = row.lines[l].reservedQty
                              + (row.lines[l].quantity - row.lines[l].reservedQty)
    BY OrderParts DEF OrderLine
  <1>7. PICK after : after = [row EXCEPT !.lines[l].reservedQty = q]
    OBVIOUS
  <1>8. after \in OrderRow /\ after.reservations = row.reservations
    BY <1>7, LineUpdated
  <1>9. after = [working[o] EXCEPT !.lines[l].reservedQty =
                                     @ + (working[o].lines[l].quantity - @)]
    BY <1>4, <1>6, <1>7
  <1>10. /\ committed' = committed /\ holder' = holder
         /\ ledger' = ledger /\ pending' = pending
    BY DEF FinishLine
  <1>11. PICK order \in OrderRow :
           /\ order.reservations = row.reservations
           /\ working' = [working EXCEPT ![o] = order]
           /\ \/ \E m \in DOMAIN order.lines :
                   m \in Nat /\ Proceed(t, "reserve", "find", o, m)
              \/ Proceed(t, "reserve", "commit", o, 0)
    <2>1. /\ Outstanding(after) # {} =>
               /\ working' = [working EXCEPT ![o] = after]
               /\ Proceed(t, "reserve", "find", o, Min(Outstanding(after)))
          /\ Outstanding(after) = {} =>
               /\ working' = [working EXCEPT ![o] = [after EXCEPT !.status = "RESERVED"]]
               /\ Proceed(t, "reserve", "commit", o, 0)
      BY <1>5, <1>9 DEF FinishLine
    <2>2. CASE Outstanding(after) # {}
      <3>1. PICK m : m = Min(Outstanding(after))
        OBVIOUS
      <3>2. m \in DOMAIN after.lines /\ m \in Nat
        BY <1>8, <2>2, <3>1, OutstandingLine
      <3> QED
        BY <1>8, <2>1, <2>2, <3>1, <3>2
    <2>3. CASE Outstanding(after) = {}
      <3>1. PICK done : done = [after EXCEPT !.status = "RESERVED"]
        OBVIOUS
      <3>2. done \in OrderRow /\ done.reservations = after.reservations
        BY <1>8, <3>1 DEF OrderRow, OrderStatus
      <3> QED
        BY <1>8, <2>1, <2>3, <3>1, <3>2
    <2> QED
      BY <2>2, <2>3
  <1>12. /\ DOMAIN working' = Row /\ working'[o] = order
         /\ \A r \in Row \ {o} : working'[r] = working[r]
    BY <1>2, <1>11 DEF StockTypeOK
  <1>13. /\ tx' \in [Txn -> TxRow] /\ \A u \in Txn \ {t} : tx'[u] = tx[u]
         /\ tx'[t].step # "idle" /\ tx'[t].doc = o /\ tx'[t].op # "receipt"
         /\ tx'[t].step \in {"find", "take"} => tx'[t].line \in DOMAIN order.lines
    <2>1. tx \in [Txn -> TxRow]
      BY <1>2 DEF StockTypeOK
    <2>2. ASSUME NEW m \in DOMAIN order.lines, m \in Nat,
                 Proceed(t, "reserve", "find", o, m)
          PROVE  /\ tx' \in [Txn -> TxRow] /\ \A u \in Txn \ {t} : tx'[u] = tx[u]
                 /\ tx'[t].step # "idle" /\ tx'[t].doc = o /\ tx'[t].op # "receipt"
                 /\ tx'[t].line = m
      BY <1>1, <2>1, <2>2, Proceeds
    <2>3. CASE Proceed(t, "reserve", "commit", o, 0)
      BY <1>1, <2>1, <2>3, Proceeds
    <2> QED
      BY <1>11, <2>2, <2>3
  <1>14. OrderAt(t, o)'
    BY <1>12, <1>13 DEF OrderAt
  <1>15. Placed(t, o)'
    BY <1>14, OrderPlaced
  <1>16. OrderTold(o, Of(ledger \cup pending[t], o), order)
    BY <1>1, <1>4, <1>11, SameTold
  <1>17. Told(o, Of(ledger \cup pending[t], o), working'[o]) /\ working'[o] # Absent
    BY <1>12, <1>16, OrderToldOnly, OrdersAssumption
  <1> QED
    BY <1>1, <1>10, <1>12, <1>13, <1>15, <1>17, DocStillErp

\* The end of cancel and fulfil.
LEMMA FinishReleaseErp ==
  ASSUME ErpInv, NEW t \in Txn, NEW o \in Order, o = tx[t].doc, FinishRelease(t)
  PROVE  ErpInv'
  <1>1. /\ o \in Docs /\ o \in Document /\ working[o] \in OrderRow
        /\ tx[t].op # "receipt"
        /\ OrderTold(o, Of(ledger \cup pending[t], o), working[o])
    BY OrderHas
  <1>2. StockTypeOK /\ o \in Row
    BY <1>1, DocRows DEF ErpInv
  <1>3. PICK status \in OrderStatus :
          status = IF tx[t].op = "fulfil" THEN "FULFILLED" ELSE "CANCELLED"
    BY DEF OrderStatus
  <1>4. PICK order : order = Closed(working[o], status)
    OBVIOUS
  <1>5. order \in OrderRow /\ order.reservations = working[o].reservations
    BY <1>1, <1>4, ClosedOrder
  <1>6. /\ working' = [working EXCEPT ![o] = order]
        /\ Proceed(t, tx[t].op, "commit", o, 0)
        /\ committed' = committed /\ holder' = holder
        /\ ledger' = ledger /\ pending' = pending
    BY <1>3, <1>4 DEF FinishRelease
  <1>7. /\ DOMAIN working' = Row /\ working'[o] = order
        /\ \A r \in Row \ {o} : working'[r] = working[r]
    BY <1>2, <1>6 DEF StockTypeOK
  <1>8. tx[t].op \in {"none", "create", "reserve", "cancel", "fulfil", "start",
                      "complete", "dispatch", "receive", "receipt", "adjustment"}
    BY <1>2, RecordType
  <1>9. /\ tx' \in [Txn -> TxRow] /\ \A u \in Txn \ {t} : tx'[u] = tx[u]
        /\ tx'[t].step = "commit" /\ tx'[t].op = tx[t].op /\ tx'[t].doc = o
    BY <1>1, <1>2, <1>6, <1>8, Proceeds DEF StockTypeOK
  <1>10. OrderAt(t, o)'
    BY <1>9 DEF OrderAt
  <1>11. Placed(t, o)'
    BY <1>10, OrderPlaced
  <1>12. OrderTold(o, Of(ledger \cup pending[t], o), order)
    BY <1>1, <1>5, SameTold
  <1>13. Told(o, Of(ledger \cup pending[t], o), working'[o]) /\ working'[o] # Absent
    BY <1>5, <1>7, <1>12, OrderToldOnly, OrdersAssumption
  <1> QED
    BY <1>1, <1>6, <1>7, <1>9, <1>11, <1>13, DocStillErp

\* The row of the order o once TakeBucket has held something for it.
LEMMA HeldRow ==
  ASSUME StockTypeOK, NEW t \in Txn, NEW o \in Order, NEW b \in Bucket,
         NEW take \in Nat \ {0}, NEW row \in OrderRow, row = working[o],
         NEW held, held = [line |-> tx[t].line, inventoryId |-> b,
                           quantity |-> take, status |-> "ACTIVE"],
         HoldsUnits(t, o, b, take)
  PROVE  /\ held \in Reservation
         /\ working'[o] \in OrderRow
         /\ working'[o].reservations = Append(row.reservations, held)
         /\ working'[o].lines = row.lines
         /\ DOMAIN working' = Row /\ working'[b] = Moved(working[b], 0, take)
         /\ \A r \in Row \ {b, o} : working'[r] = working[r]
  <1>1. held \in Reservation
    BY RecordType DEF Reservation, ReservationStatus
  <1>2. b \in Row /\ o \in Row /\ b # o
    BY DocKinds, DocRows DEF Row
  <1>3. PICK list : list = Append(row.reservations, held)
    OBVIOUS
  <1>4. list \in Seq(Reservation)
    BY <1>1, <1>3, OrderParts, AppendProperties
  <1>5. PICK after : after = [row EXCEPT !.reservations = list]
    OBVIOUS
  <1>6. after \in OrderRow /\ after.reservations = list /\ after.lines = row.lines
    BY <1>4, <1>5 DEF OrderRow
  <1>7. /\ DOMAIN working' = Row /\ working'[b] = Moved(working[b], 0, take)
        /\ working'[o] = after
        /\ \A r \in Row \ {b, o} : working'[r] = working[r]
    <2>1. working' = [working EXCEPT ![b] = Moved(@, 0, take),
                                     ![o].reservations = Append(@, held)]
      BY DEF HoldsUnits
    <2> QED
      BY <1>2, <1>3, <1>5, <2>1 DEF StockTypeOK
  <1> QED
    BY <1>1, <1>3, <1>6, <1>7

\* A turn of reserveLine's loop that holds units.
LEMMA HoldErp ==
  ASSUME ErpInv, NEW t \in Txn, NEW o \in Order, o = tx[t].doc,
         NEW b \in Bucket, NEW take \in Nat \ {0}, HoldsUnits(t, o, b, take),
         tx[t].step = "take", CanLock(t, b), holder' = [holder EXCEPT ![b] = t],
         committed' = committed, ledger' = ledger
  PROVE  ErpInv'
  <1>1. /\ o \in Docs /\ working[o] \in OrderRow /\ working[o] # Absent
        /\ OrderAt(t, o) /\ tx[t].op # "receipt"
        /\ OrderTold(o, Of(ledger \cup pending[t], o), working[o])
    BY OrderHas
  <1>2. /\ StockTypeOK /\ o \in Row /\ o \notin Bucket
        /\ Entries(Of(ledger \cup pending[t], o))
    BY <1>1, DocHas DEF ErpInv
  <1>3. PICK row \in OrderRow : row = working[o]
    BY <1>1
  <1>4. PICK held : held = [line |-> tx[t].line, inventoryId |-> b,
                            quantity |-> take, status |-> "ACTIVE"]
    OBVIOUS
  <1>6. /\ held \in Reservation
        /\ working'[o] \in OrderRow
        /\ working'[o].reservations = Append(row.reservations, held)
        /\ working'[o].lines = row.lines
        /\ DOMAIN working' = Row /\ working'[b] = Moved(working[b], 0, take)
        /\ \A r \in Row \ {b, o} : working'[r] = working[r]
    BY <1>2, <1>3, <1>4, HeldRow
  <1>7. PICK after \in OrderRow : after = working'[o]
    BY <1>6
  <1>8. PICK k : k = Len(row.reservations) + 1
    OBVIOUS
  <1>9. PICK key : key = <<"RESERVATION", o, k, "RESERVE">>
    OBVIOUS
  <1>10. Book(t, key, b, 0, take, o)
    BY <1>3, <1>8, <1>9 DEF HoldsUnits
  <1>11. PICK e : e = Entry(key, b, 0, take, o)
    OBVIOUS
  <1>12. /\ IsEntry(e) /\ e.idempotencyKey = key /\ e.inventoryId = b
         /\ e.reservedDelta = take /\ e.physicalDelta = 0
    BY <1>11, EntryIs
  <1>13. PICK U : U = Of(ledger \cup pending[t], o)
    OBVIOUS
  <1>14. (\A d \in U : d.idempotencyKey # key) /\ OrderTold(o, U \cup {e}, after)
    <2>1. held.status = "ACTIVE" /\ held.inventoryId = b /\ held.quantity = take
      BY <1>4
    <2>2. Entries(U) /\ OrderTold(o, U, row)
      BY <1>1, <1>2, <1>3, <1>13
    <2>3. after.reservations = Append(row.reservations, held)
      BY <1>6, <1>7
    <2>4. /\ e.idempotencyKey = <<"RESERVATION", o, k, "RESERVE">>
          /\ e.inventoryId = held.inventoryId /\ e.reservedDelta = held.quantity
          /\ held \in Reservation /\ IsEntry(e) /\ e.physicalDelta = 0
      BY <1>6, <1>9, <1>12, <2>1
    <2>5. /\ \A d \in U : d.idempotencyKey # <<"RESERVATION", o, k, "RESERVE">>
          /\ OrderTold(o, U \cup {e}, after)
      BY <1>8, <2>1, <2>2, <2>3, <2>4, OrderHolds, ZenonT(60)
    <2> QED
      BY <1>9, <2>5
  <1>15. Told(o, Of(ledger \cup pending[t], o) \cup {Entry(key, b, 0, take, o)}, working'[o])
    BY <1>7, <1>11, <1>13, <1>14, OrderToldOnly
  <1>16. /\ tx' \in [Txn -> TxRow] /\ \A u \in Txn \ {t} : tx'[u] = tx[u]
         /\ tx'[t].step = "take" /\ tx'[t].op = tx[t].op /\ tx'[t].doc = o
         /\ tx'[t].line = tx[t].line
    <2>1. tx[t].todo \in SUBSET Bucket /\ tx[t].remaining \in Int
      BY <1>2, RecordType
    <2>2. PICK n \in Int : n = tx[t].remaining - take
      BY <2>1
    <2>3. PICK S \in SUBSET Bucket : S = tx[t].todo \ {b}
      BY <2>1
    <2>4. tx' = [tx EXCEPT ![t].todo = @ \ {b}, ![t].remaining = @ - take]
      BY DEF HoldsUnits
    <2>5. Loops(t, n, S)
      BY <1>2, <2>2, <2>3, <2>4 DEF StockTypeOK, Loops
    <2> QED
      BY <1>2, <2>5, LoopRecord
  <1>17. tx[t].line \in DOMAIN working'[o].lines
    BY <1>1, <1>3, <1>6 DEF OrderAt
  <1>18. OrderAt(t, o)'
    BY <1>16, <1>17 DEF OrderAt
  <1>19. Placed(t, o)'
    BY <1>18, OrderPlaced
  <1>20. take <= AvailableQty(working[b])
    BY DEF HoldsUnits
  <1>21. working[b] # Absent
    BY <1>20 DEF AvailableQty, Quantities
  <1>22. Quantities(working[b]).reservedQty + take <= Quantities(working[b]).physicalQty + 0
    <2>1. Quantities(working[b]) \in BucketRow
      BY <1>2, QuantitiesType DEF StockTypeOK
    <2> QED
      BY <1>20, <2>1 DEF AvailableQty, BucketRow
  <1>23. key[1] \notin {"RECEIPT", "NULL"} /\ key[2] = o /\ 0 \in Int /\ take \in Int
    BY <1>9
  <1>24. /\ \A d \in Of(ledger \cup pending[t], o) : d.idempotencyKey # key
         /\ working'[o] # Absent /\ tx'[t].op # "receipt" /\ tx'[t].step # "idle"
    BY <1>1, <1>6, <1>13, <1>14, <1>16, OrdersAssumption
  <1>25. \A r \in Row \ {b, o} : working'[r] = working[r]
    BY <1>6
  <1> QED
    BY <1>1, <1>6, <1>10, <1>15, <1>16, <1>19, <1>21, <1>22, <1>23, <1>24, <1>25,
       DocMoveErp

\* One turn of reserveLine's loop.
LEMMA TakeBucketErp ==
  ASSUME ErpInv, NEW t \in Txn, NEW o \in Order, o = tx[t].doc, TakeBucket(t)
  PROVE  ErpInv'
  <1>1. /\ o \in Docs /\ working[o] \in OrderRow /\ working[o] # Absent
        /\ OrderAt(t, o) /\ tx[t].op # "receipt"
        /\ OrderTold(o, Of(ledger \cup pending[t], o), working[o])
    BY OrderHas
  <1>2. StockTypeOK /\ o \in Row /\ o \notin Bucket
    BY <1>1, DocHas DEF ErpInv
  <1>3. /\ tx[t].step = "take" /\ tx[t].remaining > 0 /\ tx[t].todo # {}
        /\ committed' = committed /\ ledger' = ledger
    BY DEF TakeBucket
  <1>4. tx[t].todo \in SUBSET Bucket /\ tx[t].remaining \in Int
    BY <1>2, RecordType
  <1>5. PICK b \in Bucket : b = FirstExpiring(tx[t].todo)
    BY <1>3, <1>4, FirstExpiringIn
  <1>6. b \in Row
    BY DEF Row
  <1>7. PICK available : available = AvailableQty(working[b])
    OBVIOUS
  <1>8. PICK take : take = IF tx[t].remaining <= available THEN tx[t].remaining
                                                            ELSE available
    OBVIOUS
  <1>9. PICK k : k = Len(working[o].reservations) + 1
    OBVIOUS
  <1>10. available \in Int
    <2>1. Quantities(working[b]) \in BucketRow
      BY <1>2, QuantitiesType DEF StockTypeOK
    <2> QED
      BY <1>7, <2>1 DEF AvailableQty, BucketRow
  <1>11. CanLock(t, b) /\ holder' = [holder EXCEPT ![b] = t]
    BY <1>5 DEF TakeBucket
  <1>12. \/ /\ available <= 0
            /\ tx' = [tx EXCEPT ![t].todo = @ \ {b}]
            /\ UNCHANGED <<working, pending>>
         \/ /\ available > 0
            /\ working' =
                 [working EXCEPT
                    ![b] = Moved(@, 0, take),
                    ![o].reservations =
                       Append(@, [line |-> tx[t].line, inventoryId |-> b,
                                  quantity |-> take, status |-> "ACTIVE"])]
            /\ Book(t, <<"RESERVATION", o, k, "RESERVE">>, b, 0, take, o)
            /\ tx' = [tx EXCEPT ![t].todo = @ \ {b},
                                ![t].remaining = @ - take]
    BY <1>5, <1>7, <1>8, <1>9, Zenon DEF TakeBucket
  <1>13. CASE /\ tx' = [tx EXCEPT ![t].todo = @ \ {b}]
              /\ UNCHANGED <<working, pending>>
    <2>1. /\ tx' \in [Txn -> TxRow] /\ \A u \in Txn \ {t} : tx'[u] = tx[u]
          /\ tx'[t].step = "take" /\ tx'[t].op = tx[t].op /\ tx'[t].doc = o
          /\ tx'[t].line = tx[t].line
      BY <1>2, <1>3, <1>4, <1>13 DEF StockTypeOK, TxRow
    <2>2. OrderAt(t, o)'
      BY <1>1, <1>3, <1>13, <2>1 DEF OrderAt
    <2>3. Placed(t, o)'
      BY <2>2, OrderPlaced
    <2>4. Told(o, Of(ledger \cup pending[t], o), working'[o])
      BY <1>1, <1>13, OrderToldOnly
    <2>5. /\ DOMAIN working' = Row /\ holder' \in [Row -> Txn \cup {None}]
          /\ \A r \in Row : holder'[r] = IF r \in {b} THEN t ELSE holder[r]
          /\ \A r \in Row \ {o} : working'[r] = working[r]
          /\ {b} \in SUBSET Bucket /\ \A c \in {b} : CanLock(t, c)
      BY <1>2, <1>6, <1>11, <1>13 DEF StockTypeOK
    <2> QED
      BY <1>1, <1>3, <1>13, <2>1, <2>3, <2>4, <2>5, DocLocalErp
  <1>14. ASSUME available > 0,
                working' =
                 [working EXCEPT
                    ![b] = Moved(@, 0, take),
                    ![o].reservations =
                       Append(@, [line |-> tx[t].line, inventoryId |-> b,
                                  quantity |-> take, status |-> "ACTIVE"])],
                Book(t, <<"RESERVATION", o, k, "RESERVE">>, b, 0, take, o),
                tx' = [tx EXCEPT ![t].todo = @ \ {b}, ![t].remaining = @ - take]
         PROVE  ErpInv'
    <2>1. /\ take \in Nat \ {0} /\ 0 < take /\ take <= available
          /\ take <= tx[t].remaining /\ (take = available \/ take = tx[t].remaining)
      BY <1>3, <1>4, <1>8, <1>10, <1>14
    <2>2. HoldsUnits(t, o, b, take)
      BY <1>7, <1>9, <1>14, <2>1, Zenon DEF HoldsUnits
    <2> QED
      BY <1>3, <1>11, <2>1, <2>2, HoldErp
  <1> QED
    BY <1>12, <1>13, <1>14

\* ReleaseReservation, about the reservation k of the order o.
Returns(t, o, b, k, q, shipped) ==
    /\ o = tx[t].doc /\ tx[t].step = "release"
    /\ CanLock(t, b) /\ holder' = [holder EXCEPT ![b] = t]
    /\ committed' = committed /\ ledger' = ledger /\ tx' = tx
    /\ working' = [working EXCEPT ![b] = Moved(@, -shipped, -q),
                                  ![o].reservations[k].status = Outcome(t)]
    /\ Book(t, <<"RESERVATION", o, k, Outcome(t)>>, b, -shipped, -q, o)

\* The row of the order after that.
LEMMA ReturnedRow ==
  ASSUME StockTypeOK, NEW t \in Txn, NEW o \in Order, NEW b \in Bucket,
         NEW q \in Nat \ {0}, NEW shipped \in Nat, NEW row \in OrderRow,
         row = working[o], NEW k \in ActiveReservations(row),
         row.reservations[k].inventoryId = b, row.reservations[k].quantity = q,
         Returns(t, o, b, k, q, shipped)
  PROVE  /\ working'[o] \in OrderRow
         /\ GivesBack(row, working'[o], k, b, q)
         /\ working'[o].reservations[k].status = Outcome(t)
         /\ working'[o].reservations[k].inventoryId = b
         /\ working'[o].reservations[k].quantity = q
         /\ working'[o].lines = row.lines
         /\ DOMAIN working' = Row /\ working'[b] = Moved(working[b], -shipped, -q)
         /\ \A r \in Row \ {b, o} : working'[r] = working[r]
  <1>1. k \in DOMAIN row.reservations
    BY DEF ActiveReservations
  <1>2. PICK old \in Reservation : old = row.reservations[k]
    BY <1>1, OrderParts
  <1>3. PICK outcome \in {"RELEASED", "CONSUMED"} : outcome = Outcome(t)
    BY DEF Outcome
  <1>4. PICK new : new = [old EXCEPT !.status = outcome]
    OBVIOUS
  <1>5. /\ new \in Reservation /\ new.status = outcome
        /\ new.inventoryId = b /\ new.quantity = q
    BY <1>2, <1>4 DEF Reservation, ReservationStatus
  <1>6. PICK list : list = [row.reservations EXCEPT ![k] = new]
    OBVIOUS
  <1>7. /\ list \in Seq(Reservation) /\ DOMAIN list = DOMAIN row.reservations
        /\ list[k] = new
        /\ \A j \in DOMAIN row.reservations \ {k} : list[j] = row.reservations[j]
    <2>1. row.reservations \in Seq(Reservation)
      BY OrderParts
    <2> QED
      BY <1>1, <1>5, <1>6, <2>1, ExceptSeq, LenProperties
  <1>8. PICK after : after = [row EXCEPT !.reservations = list]
    OBVIOUS
  <1>9. after \in OrderRow /\ after.reservations = list /\ after.lines = row.lines
    BY <1>7, <1>8 DEF OrderRow
  <1>10. b \in Row /\ o \in Row /\ b # o
    BY DocKinds, DocRows DEF Row
  <1>11. /\ DOMAIN working' = Row /\ working'[b] = Moved(working[b], -shipped, -q)
         /\ working'[o] = after
         /\ \A r \in Row \ {b, o} : working'[r] = working[r]
    <2>1. working' = [working EXCEPT ![b] = Moved(@, -shipped, -q),
                                     ![o].reservations[k].status = outcome]
      BY <1>3 DEF Returns
    <2>2. DOMAIN working = Row
      BY DEF StockTypeOK
    <2>3. working'[o] = [working[o] EXCEPT !.reservations[k].status = outcome]
      BY <1>10, <2>1, <2>2
    <2>4. after = [row EXCEPT !.reservations[k].status = outcome]
      BY <1>2, <1>4, <1>6, <1>8
    <2> QED
      BY <1>10, <2>1, <2>2, <2>3, <2>4
  <1>12. GivesBack(row, after, k, b, q)
    BY <1>3, <1>5, <1>7, <1>9 DEF GivesBack
  <1> QED
    BY <1>3, <1>5, <1>7, <1>9, <1>11, <1>12

\* A turn of releaseActiveReservations for a reservation of the bucket b.
LEMMA ReturnErp ==
  ASSUME ErpInv, NEW t \in Txn, NEW o \in Order,
         NEW b \in Bucket, NEW q \in Nat \ {0}, NEW shipped \in Nat,
         NEW k \in ActiveReservations(working[o]),
         working[o].reservations[k].inventoryId = b,
         working[o].reservations[k].quantity = q,
         shipped = Shipped(t, q), Returns(t, o, b, k, q, shipped)
  PROVE  ErpInv'
  <1>0. o = tx[t].doc /\ tx[t].step = "release"
    BY DEF Returns
  <1>1. /\ o \in Docs /\ working[o] \in OrderRow /\ working[o] # Absent
        /\ tx[t].op # "receipt"
        /\ OrderTold(o, Of(ledger \cup pending[t], o), working[o])
    BY <1>0, OrderHas
  <1>2. /\ StockTypeOK /\ ShelvesOK /\ o \in Row /\ o \notin Bucket
        /\ Entries(Of(ledger \cup pending[t], o))
    BY <1>0, <1>1, DocHas DEF ErpInv
  <1>3. PICK row \in OrderRow : row = working[o]
    BY <1>1
  <1>4. /\ working'[o] \in OrderRow
        /\ GivesBack(row, working'[o], k, b, q)
        /\ working'[o].reservations[k].status = Outcome(t)
        /\ working'[o].reservations[k].inventoryId = b
        /\ working'[o].reservations[k].quantity = q
        /\ DOMAIN working' = Row /\ working'[b] = Moved(working[b], -shipped, -q)
        /\ \A r \in Row \ {b, o} : working'[r] = working[r]
    BY <1>2, <1>3, ReturnedRow
  <1>5. PICK after \in OrderRow : after = working'[o]
    BY <1>4
  <1>6. PICK outcome \in {"RELEASED", "CONSUMED"} : outcome = Outcome(t)
    BY DEF Outcome
  <1>7. PICK key : key = <<"RESERVATION", o, k, outcome>>
    OBVIOUS
  <1>8. PICK p \in Int, r \in Int :
          /\ p = -shipped /\ r = -q /\ shipped <= q
          /\ p = IF outcome = "CONSUMED" THEN -q ELSE 0
    <2>1. shipped = IF outcome = "CONSUMED" THEN q ELSE 0
      BY <1>6 DEF Outcome, Shipped
    <2> QED
      BY <2>1
  <1>9. /\ CanLock(t, b) /\ holder' = [holder EXCEPT ![b] = t]
        /\ committed' = committed /\ ledger' = ledger /\ tx' = tx
        /\ Book(t, key, b, p, r, o)
    BY <1>6, <1>7, <1>8 DEF Returns
  <1>10. PICK e : e = Entry(key, b, p, r, o)
    OBVIOUS
  <1>11. /\ IsEntry(e) /\ e.idempotencyKey = key /\ e.inventoryId = b
         /\ e.reservedDelta = -q /\ e.physicalDelta = p
    BY <1>8, <1>10, EntryIs
  <1>12. PICK U : U = Of(ledger \cup pending[t], o)
    OBVIOUS
  <1>13. /\ \A d \in U : d.idempotencyKey # key
         /\ At(U, b) # {} /\ OrderTold(o, U \cup {e}, after)
    <2>1. Entries(U) /\ OrderTold(o, U, row)
      BY <1>1, <1>2, <1>3, <1>12
    <2>2. /\ GivesBack(row, after, k, b, q) /\ after.reservations[k].status = outcome
          /\ after.reservations[k].inventoryId = b /\ after.reservations[k].quantity = q
      BY <1>4, <1>5, <1>6
    <2>3. TakesBack(e, o, k, b, q, outcome)
      BY <1>7, <1>8, <1>11 DEF TakesBack
    <2>4. /\ \A d \in U : d.idempotencyKey # e.idempotencyKey
          /\ At(U, b) # {}
          /\ OrderTold(o, U \cup {e}, after)
      BY <2>1, <2>2, <2>3, OrderReturns
    <2> QED
      BY <1>11, <2>4
  <1>14. Told(o, Of(ledger \cup pending[t], o) \cup {Entry(key, b, p, r, o)}, working'[o])
    BY <1>5, <1>10, <1>12, <1>13, OrderToldOnly
  <1>15. /\ tx' \in [Txn -> TxRow] /\ \A u \in Txn \ {t} : tx'[u] = tx[u]
         /\ tx'[t].step = "release" /\ tx'[t].doc = o /\ tx'[t].op # "receipt"
    BY <1>0, <1>1, <1>2, <1>9 DEF StockTypeOK
  <1>16. OrderAt(t, o)'
    BY <1>15 DEF OrderAt
  <1>17. Placed(t, o)'
    BY <1>16, OrderPlaced
  <1>18. working[b] # Absent
    <2>1. PICK d : d \in ledger \cup pending[t] /\ d.inventoryId = b
      BY <1>12, <1>13 DEF At, Of
    <2> QED
      BY <1>2, <2>1 DEF ShelvesOK
  <1>19. Quantities(working[b]).reservedQty + r <= Quantities(working[b]).physicalQty + p
    <2>1. Quantities(working[b]) \in BucketRow /\ Covered(working[b])
      BY <1>2, QuantitiesType DEF StockTypeOK, ShelvesOK
    <2> QED
      BY <1>8, <2>1 DEF Covered, BucketRow
  <1>20. key[1] \notin {"RECEIPT", "NULL"} /\ key[2] = o
    BY <1>7
  <1>21. /\ \A d \in Of(ledger \cup pending[t], o) : d.idempotencyKey # key
         /\ working'[o] # Absent /\ tx'[t].step # "idle"
         /\ working'[b] = Moved(working[b], p, r)
    BY <1>4, <1>8, <1>12, <1>13, <1>15, OrdersAssumption
  <1>22. DOMAIN working' = Row /\ \A x \in Row \ {b, o} : working'[x] = working[x]
    BY <1>4
  <1> QED
    BY <1>0, <1>1, <1>9, <1>14, <1>15, <1>17, <1>18, <1>19, <1>20, <1>21, <1>22, DocMoveErp

\* One turn of releaseActiveReservations.
LEMMA ReleaseErp ==
  ASSUME ErpInv, NEW t \in Txn, NEW o \in Order, o = tx[t].doc, ReleaseReservation(t)
  PROVE  ErpInv'
  <1>1. working[o] \in OrderRow
    BY OrderHas
  <1>2. PICK b : b = NextReserved(working[o])
    OBVIOUS
  <1>3. PICK k \in ActiveReservations(working[o]) :
          LET q == working[o].reservations[k].quantity
              shipped == Shipped(t, q)
          IN  /\ working[o].reservations[k].inventoryId = b
              /\ working' = [working EXCEPT
                               ![b] = Moved(@, -shipped, -q),
                               ![o].reservations[k].status = Outcome(t)]
              /\ Book(t, <<"RESERVATION", o, k, Outcome(t)>>,
                      b, -shipped, -q, o)
    BY <1>2 DEF ReleaseReservation
  <1>4. /\ CanLock(t, b) /\ holder' = [holder EXCEPT ![b] = t]
        /\ committed' = committed /\ ledger' = ledger /\ tx' = tx
        /\ tx[t].step = "release"
    BY <1>2 DEF ReleaseReservation
  <1>5. working[o].reservations[k] \in Reservation
    BY <1>1, <1>3, OrderParts DEF ActiveReservations
  <1>6. PICK q \in Nat \ {0} : q = working[o].reservations[k].quantity
    BY <1>5 DEF Reservation
  <1>7. PICK shipped \in {0, q} : shipped = Shipped(t, q)
    BY DEF Shipped
  <1>8. b \in Bucket /\ shipped \in Nat /\ shipped <= q
    <2>1. b = working[o].reservations[k].inventoryId
      BY <1>3
    <2>2. b \in Bucket
      BY <1>5, <2>1 DEF Reservation
    <2> QED
      BY <1>7, <2>2
  <1>9. Returns(t, o, b, k, q, shipped)
    BY <1>3, <1>4, <1>6, <1>7 DEF Returns, Book
  <1> QED
    BY <1>3, <1>4, <1>6, <1>7, <1>8, <1>9, ReturnErp

\* The whole of OrdersService.
LEMMA OrderErp ==
  ASSUME ErpInv, NEW t \in Txn, OrderStep(t)
  PROVE  ErpInv'
  <1>1. CASE OrderRequest(t)
    BY <1>1, CreateOrderErp, BeginReserveErp, BeginReleaseErp DEF OrderRequest
  <1>2. CASE OrderLocalStep(t) \/ OrderLockStep(t)
    <2>1. PICK o \in Order : o = tx[t].doc
      BY <1>2 DEF OrderLocalStep, OrderLockStep
    <2>2. \/ FindBuckets(t) \/ FinishLine(t) \/ FinishRelease(t)
          \/ TakeBucket(t) \/ ReleaseReservation(t) \/ Rollback(t)
          \/ tx[t].step = "commit" /\ Commit(t)
      BY <1>2 DEF OrderLocalStep, OrderLockStep, RefuseShortage, OrderCommit
    <2> QED
      BY <2>1, <2>2, FindBucketsErp, FinishLineErp, FinishReleaseErp, TakeBucketErp,
         ReleaseErp, RollbackErp, CommitErp
  <1> QED
    BY <1>1, <1>2 DEF OrderStep

-----------------------------------------------------------------------------
\* At the start.
LEMMA InitErp == Init => ErpInv
  <1> SUFFICES ASSUME Init
               PROVE  ErpInv
    OBVIOUS
  <1>1. StockTypeOK /\ LocksOK /\ LedgerInv
    <2>1. StockTypeOK
      BY StockAssumption DEF Init, StockTypeOK, Row, TxRow, Idle, BucketRow
    <2> QED
      BY <2>1, InitLedger DEF Init, LocksOK
  <1>2. /\ ledger = {} /\ \A t \in Txn : pending[t] = {}
        /\ \A t \in Txn : tx[t] = Idle
        /\ \A r \in Row : holder[r] = None
        /\ working = committed
    BY DEF Init
  <1>3. \A b \in Bucket : b \in Row /\ committed[b] = InitialStock[b]
    BY DEF Init, Row
  <1>4. \A r \in Docs : r \in Row /\ committed[r] = Absent
    BY DocRows DEF Init
  <1>5. ShelvesOK
    <2>1. \A b \in Bucket : Covered(InitialStock[b])
      BY StockAssumption DEF Covered, Quantities
    <2> QED
      BY <1>2, <1>3, <2>1 DEF ShelvesOK
  <1>6. \A r \in Docs : Of(ledger, r) = {}
    BY <1>2 DEF Of
  <1>7. \A b : At({}, b) = {}
    BY DEF At
  <1>8. ReservedSum({}) = 0 /\ PhysicalSum({}) = 0
    BY LedgerSums
  <1>9. ASSUME NEW r \in Docs
        PROVE  Told(r, {}, Absent) /\ WorkOrderSettled(r, {}, Absent)
    <2>1. OrderTold(r, {}, Absent)
      BY <1>7, <1>8, FS_EmptySet DEF OrderTold, LeftTold, HeldOf, ShippedOf
    <2>2. WorkOrderTold(r, {}, Absent) /\ WorkOrderSettled(r, {}, Absent)
      BY <1>7, <1>8 DEF WorkOrderTold, WorkOrderSettled
    <2>3. TransferTold(r, {}, Absent)
      BY <1>8 DEF TransferTold, Underway
    <2> QED
      BY <2>1, <2>2, <2>3 DEF Told
  <1>10. DocsOK
    BY <1>2, <1>4, <1>6, <1>9, StockAssumption DEF DocsOK
  <1>11. ASSUME NEW t \in Txn
         PROVE  Control(t)
    <2>1. tx[t].doc = None /\ tx[t].op = "none" /\ None \notin Docs
      BY <1>2, DocRows DEF Idle
    <2>2. \A r \in Docs : holder[r] # t
      BY <1>2, <1>4, StockAssumption
    <2>3. OwnDoc(t) /\ ReceiptAt(t)
      BY <1>2, <2>1, <2>2 DEF OwnDoc, ReceiptAt
    <2> QED
      BY <2>1, <2>3 DEF Control, Docs
  <1>12. KeysUnique
    BY <1>2 DEF KeysUnique
  <1> QED
    BY <1>1, <1>5, <1>10, <1>11, <1>12 DEF ErpInv

\* Every step of the backend keeps the invariant.
LEMMA StepErp == ErpInv /\ [Next]_vars => ErpInv'
  <1> SUFFICES ASSUME ErpInv, [Next]_vars
               PROVE  ErpInv'
    OBVIOUS
  <1>1. ASSUME NEW t \in Txn, Step(t) \/ DeadlockVictim(NextLock, t) \/ Lost(t)
        PROVE  ErpInv'
    <2>1. CASE OrderStep(t)
      BY <2>1, OrderErp
    <2>2. CASE WorkOrderStep(t)
      BY <2>2, WorkOrderErp
    <2>3. CASE TransferStep(t)
      BY <2>3, TransferErp
    <2>4. CASE InventoryStep(t)
      BY <2>4, InventoryErp
    <2>5. CASE DeadlockVictim(NextLock, t)
      <3>1. Rollback(t)
        BY <2>5 DEF DeadlockVictim
      <3> QED
        BY <3>1, RollbackErp
    <2>6. CASE Lost(t)
      BY <2>6, RollbackErp DEF Lost
    <2> QED
      BY <1>1, <2>1, <2>2, <2>3, <2>4, <2>5, <2>6 DEF Step
  <1>2. CASE UNCHANGED vars
    <2>1. StockTypeOK' /\ LocksOK' /\ LedgerInv' /\ KeysUnique'
      BY <1>2 DEF ErpInv, vars, StockTypeOK, LocksOK, LedgerInv, EntriesOK,
                     BooksOK, IsIdle, KeysUnique
    <2>2. ShelvesOK' /\ DocsOK'
      <3>1. ShelvesOK'
        BY <1>2 DEF ErpInv, vars, ShelvesOK
      <3>2. DocsOK'
        BY <1>2 DEF ErpInv, vars, DocsOK, Unsaved
      <3> QED
        BY <3>1, <3>2
    <2>3. \A t \in Txn : Control(t)'
      BY <1>2 DEF ErpInv, vars, Control, OwnDoc, ReceiptAt, OrderAt, WorkOrderAt,
                     TransferAt, Saved
    <2> QED
      BY <2>1, <2>2, <2>3 DEF ErpInv
  <1> QED
    BY <1>1, <1>2 DEF Next

\* Whatever the services do at the same time, and whichever transactions end
\* early: the ledger tells what every document's row shows, no bucket is promised
\* more than it has, and a transaction holds the rows its next statement needs.
THEOREM BackendIsSound == Spec => []ErpInv
  BY InitErp, StepErp, PTL DEF Spec

-----------------------------------------------------------------------------
(***************************************************************************)
(* The consequences.  First, sums.                                         *)
(***************************************************************************)

Group(S, k, r) == {x \in S : k[x] = r}

\* A sum, taken group by group: k names the group of x, and g sums each one.
LEMMA SumByGroup ==
  ASSUME NEW S, IsFiniteSet(S), NEW R, IsFiniteSet(R), NEW f, NEW k, NEW g,
         \A x \in S : f[x] \in Int /\ k[x] \in R,
         \A r \in R : g[r] = SumOf(f, Group(S, k, r))
  PROVE  SumOf(f, S) = SumOf(g, R)
  <1> DEFINE In(Q) == {x \in S : k[x] \in Q}
             Fails(Q) == SumOf(f, In(Q)) # SumOf(g, Q)
  <1> SUFFICES ASSUME Fails(R) PROVE FALSE
    <2>1. In(R) = S
      OBVIOUS
    <2> QED
      BY <2>1
  <1> DEFINE C == {Q \in SUBSET R : Fails(Q)}
  <1>1. C # {} /\ C \in SUBSET (SUBSET R)
    OBVIOUS
  <1>2. PICK Q \in C : \A U \in C : U \subseteq Q => U = Q
    <2> HIDE DEF C
    <2> QED
      BY <1>1, MinimalSubset
  <1>3. IsFiniteSet(Q) /\ Q \subseteq R
    BY <1>1, <1>2, FS_Subset
  <1>4. \A r \in R : IsFiniteSet(In({r})) /\ In({r}) = Group(S, k, r)
    BY FS_Subset DEF Group
  <1>5. ASSUME NEW r \in R
        PROVE  g[r] \in Int
    <2> DEFINE T == Group(S, k, r)
    <2>1. IsFiniteSet(T) /\ \A x \in T : f[x] \in Int
      BY FS_Subset DEF Group
    <2>2. g[r] = SumOf(f, T)
      OBVIOUS
    <2> HIDE DEF T
    <2> QED
      BY <2>1, <2>2, SumOfInt
  <1>6. PICK r \in Q : TRUE
    <2>1. ASSUME Q = {}
          PROVE  FALSE
      <3>1. In({}) = {} /\ Fails({})
        BY <1>2, <2>1
      <3>2. SumOf(f, {}) = 0 /\ SumOf(g, {}) = 0
        BY <1>3, <2>1, SumOfStep
      <3> QED
        BY <3>1, <3>2
    <2> QED
      BY <2>1
  <1>7. ~ Fails(Q \ {r})
    BY <1>2, <1>3, <1>6
  <1>8. SumOf(g, Q) = g[r] + SumOf(g, Q \ {r})
    BY <1>3, <1>5, SumOfRemove
  <1>9. /\ In(Q) = In({r}) \cup In(Q \ {r}) /\ In({r}) \cap In(Q \ {r}) = {}
        /\ IsFiniteSet(In({r})) /\ IsFiniteSet(In(Q \ {r}))
        /\ \A x \in In({r}) \cup In(Q \ {r}) : f[x] \in Int
    <2>1. In({r}) \subseteq S /\ In(Q \ {r}) \subseteq S
      OBVIOUS
    <2> QED
      BY <1>6, <2>1, FS_Subset
  <1>10. SumOf(f, In(Q)) = g[r] + SumOf(f, In(Q \ {r}))
    <2>1. g[r] = SumOf(f, In({r}))
      BY <1>3, <1>4
    <2> DEFINE A == In({r})
               B == In(Q \ {r})
    <2>2. /\ IsFiniteSet(A) /\ IsFiniteSet(B) /\ A \cap B = {}
          /\ \A x \in A \cup B : f[x] \in Int
      BY <1>9
    <2>3. In(Q) = A \cup B
      BY <1>9
    <2> HIDE DEF In, A, B
    <2>4. SumOf(f, A \cup B) = SumOf(f, A) + SumOf(f, B)
      BY <2>2, SumOfUnion
    <2> QED
      BY <2>1, <2>3, <2>4 DEF A, B
  <1>11. Fails(Q)
    BY <1>2
  <1> HIDE DEF In
  <1> QED
    BY <1>7, <1>8, <1>10, <1>11

\* A sum of nothing but zeros.
LEMMA SumOfZeros ==
  ASSUME NEW S, IsFiniteSet(S), NEW f, \A x \in S : f[x] = 0
  PROVE  SumOf(f, S) = 0
  <1>1. SumOf(f, S) = SumOf(f, S) - SumOf(f, S)
    BY SumOfMinus
  <1>2. SumOf(f, S) \in Int
    BY SumOfInt
  <1> QED
    BY <1>1, <1>2

\* Documents are finitely many.
LEMMA FiniteDocs ==
  /\ IsFiniteSet(Order) /\ IsFiniteSet(WorkOrder) /\ IsFiniteSet(Transfer)
  /\ IsFiniteSet(Order \cup WorkOrder) /\ IsFiniteSet(Docs)
  <1>1. IsFiniteSet(Order) /\ IsFiniteSet(WorkOrder) /\ IsFiniteSet(Transfer)
    BY ErpAssumption, TransfersAssumption
  <1> QED
    BY <1>1, FS_Union DEF Docs

\* A sum over the documents, kind by kind.
LEMMA SumOfDocs ==
  ASSUME NEW f, \A r \in Docs : f[r] \in Int
  PROVE  SumOf(f, Docs) = SumOf(f, Order) + SumOf(f, WorkOrder) + SumOf(f, Transfer)
  <1>1. (Order \cup WorkOrder) \cap Transfer = {} /\ Order \cap WorkOrder = {}
    BY ErpAssumption
  <1>2. SumOf(f, Docs) = SumOf(f, Order \cup WorkOrder) + SumOf(f, Transfer)
    BY <1>1, FiniteDocs, SumOfUnion DEF Docs
  <1>3. SumOf(f, Order \cup WorkOrder) = SumOf(f, Order) + SumOf(f, WorkOrder)
    BY <1>1, FiniteDocs, SumOfUnion DEF Docs
  <1> QED
    BY <1>2, <1>3

-----------------------------------------------------------------------------
\* What the movements S reserve of a bucket, document by document.
LEMMA ReservedByDocument ==
  ASSUME NEW S, Entries(S), \A e \in S : Named(e), NEW b, NEW h,
         \A r \in Docs : h[r] = ReservedSum(At(Of(S, r), b))
  PROVE  /\ \A r \in Docs : h[r] \in Int
         /\ ReservedSum(At(S, b)) = SumOf(h, Docs)
  <1> DEFINE A == At(S, b)
             N == {e \in A : e.refId \in Docs}
             Z == {e \in A : e.refId \notin Docs}
             f == [e \in A |-> e.reservedDelta]
             k == [e \in A |-> e.refId]
  <1>1. A \subseteq S /\ N \subseteq S /\ Z \subseteq S
    BY DEF At
  <1>2. /\ Entries(A) /\ Entries(N) /\ Entries(Z) /\ IsFiniteSet(N)
        /\ N \cap Z = {} /\ A = N \cup Z
    BY <1>1, FS_Subset DEF Entries
  <1>3. ReservedSum(A) = ReservedSum(N) + ReservedSum(Z)
    BY <1>2, LedgerSums
  <1>4. ReservedSum(Z) = 0
    <2>1. \A e \in Z : f[e] = e.reservedDelta /\ f[e] = 0
      BY <1>1 DEF Named
    <2>2. IsFiniteSet(Z)
      BY <1>2 DEF Entries
    <2> HIDE DEF Z, f
    <2> QED
      BY <2>1, <2>2, ReservedSumIs, SumOfZeros
  <1>5. \A e \in N : f[e] = e.reservedDelta /\ f[e] \in Int /\ k[e] \in Docs
    BY <1>2 DEF Entries, IsEntry
  <1>6. ReservedSum(N) = SumOf(f, N)
    <2> HIDE DEF N, f
    <2> QED
      BY <1>2, <1>5, ReservedSumIs
  <1>7. ASSUME NEW r \in Docs
        PROVE  /\ At(Of(S, r), b) = Group(N, k, r)
               /\ h[r] \in Int /\ h[r] = SumOf(f, Group(N, k, r))
    <2> DEFINE T == At(Of(S, r), b)
    <2>1. T = Group(N, k, r) /\ T \subseteq N
      BY DEF At, Of, Group
    <2>2. Entries(T) /\ IsFiniteSet(T) /\ \A e \in T : f[e] = e.reservedDelta
      BY <1>2, <1>5, <2>1, FS_Subset DEF Entries
    <2> HIDE DEF T, f, k, N
    <2>3. ReservedSum(T) = SumOf(f, T) /\ ReservedSum(T) \in Int
      BY <2>2, ReservedSumIs, LedgerSums
    <2> QED
      BY <2>1, <2>3 DEF T
  <1>8. SumOf(f, N) = SumOf(h, Docs)
    <2>1. \A r \in Docs : h[r] = SumOf(f, Group(N, k, r))
      BY <1>7
    <2>2. \A e \in N : f[e] \in Int /\ k[e] \in Docs
      BY <1>5
    <2>3. IsFiniteSet(N) /\ IsFiniteSet(Docs)
      BY <1>2, FiniteDocs
    <2> HIDE DEF N, f, k
    <2> QED
      BY <2>1, <2>2, <2>3, SumByGroup
  <1>9. \A r \in Docs : h[r] \in Int
    BY <1>7
  <1>10. SumOf(h, Docs) \in Int
    BY <1>9, FiniteDocs, SumOfInt
  <1>11. ReservedSum(A) = SumOf(h, Docs)
    <2> HIDE DEF A, N, Z, f, k
    <2> QED
      BY <1>3, <1>4, <1>6, <1>8, <1>10
  <1> QED
    BY <1>9, <1>11

\* A document never holds less than nothing, and a transfer holds nothing.
LEMMA ShareOf ==
  ASSUME NEW r \in Docs, NEW S, Entries(S), NEW row, Told(r, S, row), NEW b \in Bucket
  PROVE  /\ ReservedSum(At(S, b)) \in Nat
         /\ r \in Transfer => ReservedSum(At(S, b)) = 0
  <1>1. ReservedSum(At(S, b)) \in Int
    BY RowsAt, LedgerSums
  <1>2. CASE r \in Order
    <2>1. IsFiniteSet(HeldOf(row, r, b))
          /\ ReservedSum(At(S, b)) = Cardinality(HeldOf(row, r, b))
      BY <1>2 DEF Told, OrderTold
    <2> QED
      BY <1>2, <2>1, FS_CardinalityType, ErpAssumption
  <1>3. CASE r \in WorkOrder
    BY <1>1, <1>3, ErpAssumption DEF Told, WorkOrderTold
  <1>4. CASE r \in Transfer
    <2> DEFINE f == [e \in At(S, b) |-> 0]
    <2>1. \A e \in At(S, b) : e.reservedDelta = 0
      BY <1>4 DEF Told, TransferTold, At
    <2>2. IsFiniteSet(At(S, b)) /\ \A e \in At(S, b) : f[e] = e.reservedDelta /\ f[e] = 0
      BY <2>1, RowsAt DEF Entries
    <2> HIDE DEF f
    <2> QED
      BY <2>2, ReservedSumIs, SumOfZeros
  <1> QED
    BY <1>2, <1>3, <1>4 DEF Docs

\* What the movements S of all the documents reserve of a bucket is not less
\* than nothing.
LEMMA ReservedIsNat ==
  ASSUME NEW S, Entries(S), \A e \in S : Named(e), NEW b \in Bucket,
         \A r \in Docs : ReservedSum(At(Of(S, r), b)) \in Nat
  PROVE  ReservedSum(At(S, b)) \in Nat
  <1> DEFINE h == [r \in Docs |-> ReservedSum(At(Of(S, r), b))]
  <1>1. \A r \in Docs : h[r] = ReservedSum(At(Of(S, r), b)) /\ h[r] \in Nat
    OBVIOUS
  <1> HIDE DEF h
  <1>2. ReservedSum(At(S, b)) = SumOf(h, Docs)
    BY <1>1, ReservedByDocument
  <1>3. SumOf(h, Docs) \in Nat
    BY <1>1, FiniteDocs, SumOfNat
  <1> QED
    BY <1>2, <1>3

\* What is committed of a document, and what its transaction has made of it.
LEMMA CommittedShare ==
  ASSUME ErpInv, NEW r \in Docs, NEW b \in Bucket
  PROVE  /\ ReservedSum(At(Of(ledger, r), b)) \in Nat
         /\ r \in Transfer => ReservedSum(At(Of(ledger, r), b)) = 0
  <1>1. Entries(Of(ledger, r)) /\ Told(r, Of(ledger, r), committed[r])
    BY OfEntries DEF ErpInv, LedgerInv, EntriesOK, DocsOK
  <1> QED
    BY <1>1, ShareOf

LEMMA WorkingShare ==
  ASSUME ErpInv, NEW t \in Txn, NEW r \in Docs, NEW b \in Bucket
  PROVE  ReservedSum(At(Of(ledger \cup pending[t], r), b)) \in Nat
  <1> DEFINE V == ledger \cup pending[t]
  <1>1. Entries(V)
    BY FS_Union DEF ErpInv, LedgerInv, EntriesOK, Entries
  <1>2. CASE holder[r] = t
    <2>1. Entries(Of(V, r)) /\ \E row : Told(r, Of(V, r), row)
      BY <1>1, <1>2, OfEntries, AlwaysTold
    <2> HIDE DEF V
    <2> QED
      BY <2>1, ShareOf DEF V
  <1>3. CASE holder[r] # t
    <2>1. Of(pending[t], r) = {}
      BY <1>3, BookedForDoc, DocRows DEF Of
    <2>2. Of(V, r) = Of(ledger, r)
      BY <2>1, OfNothing
    <2> QED
      BY <2>2, CommittedShare
  <1> QED
    BY <1>2, <1>3

\* A reserved quantity is never less than nothing.
LEMMA NotLessThanNothing ==
  ASSUME ErpInv, NEW b \in Bucket
  PROVE  /\ Quantities(committed[b]).reservedQty >= 0
         /\ Quantities(working[b]).reservedQty >= 0
  <1>1. Quantities(committed[b]).reservedQty = ReservedSum(At(ledger, b))
    <2>1. Explains(At(ledger, b), InitialStock[b], committed[b])
      BY DEF ErpInv, LedgerInv, BooksOK
    <2>2. ReservedSum(At(ledger, b)) \in Int
      BY RowsAt, LedgerSums DEF ErpInv, LedgerInv, EntriesOK
    <2> QED
      BY <2>1, <2>2, InitialQuantities DEF Explains
  <1>2. ReservedSum(At(ledger, b)) \in Nat
    <2>1. Entries(ledger) /\ \A e \in ledger : Named(e)
      BY DEF ErpInv, LedgerInv, EntriesOK, ShelvesOK
    <2> QED
      BY <2>1, CommittedShare, ReservedIsNat
  <1>3. CASE holder[b] = None
    <2>1. working[b] = committed[b]
      BY <1>3 DEF ErpInv, LocksOK, Row
    <2> QED
      BY <1>1, <1>2, <2>1
  <1>4. ASSUME NEW t \in Txn, holder[b] = t
        PROVE  Quantities(working[b]).reservedQty >= 0
    <2> DEFINE V == ledger \cup pending[t]
    <2>1. Entries(V) /\ \A e \in V : Named(e)
      BY FS_Union DEF ErpInv, LedgerInv, EntriesOK, Entries, ShelvesOK
    <2>2. ReservedSum(At(V, b)) \in Nat
      BY <2>1, WorkingShare, ReservedIsNat
    <2>3. /\ At(V, b) = At(ledger, b) \cup At(pending[t], b)
          /\ At(ledger, b) \cap At(pending[t], b) = {}
      BY DEF At, ErpInv, LedgerInv, EntriesOK
    <2>4. Entries(At(ledger, b)) /\ Entries(At(pending[t], b))
      BY RowsAt DEF ErpInv, LedgerInv, EntriesOK
    <2>5. ReservedSum(At(V, b))
            = ReservedSum(At(ledger, b)) + ReservedSum(At(pending[t], b))
      BY <2>3, <2>4, LedgerSums
    <2>6. Quantities(working[b]).reservedQty
            = Quantities(committed[b]).reservedQty + ReservedSum(At(pending[t], b))
      BY <1>4 DEF ErpInv, LedgerInv, BooksOK, Explains
    <2> HIDE DEF V
    <2> QED
      BY <1>1, <2>2, <2>5, <2>6
  <1>5. holder[b] \in Txn \cup {None}
    BY DEF ErpInv, StockTypeOK, Row
  <1> QED
    BY <1>1, <1>2, <1>3, <1>4, <1>5

\* Whichever documents of the services contend for a bucket, in what order
\* their statements come, and whoever fails: nobody promises or ships a unit
\* that is not there (applyMovement's guard, stock.service.ts).
THEOREM BackendNeverOversells == Spec => []NeverOversold
  <1>1. ErpInv => NeverOversold
    <2> SUFFICES ASSUME ErpInv, NEW b \in Bucket
                 PROVE  WithinStock(committed[b]) /\ WithinStock(working[b])
      BY DEF NeverOversold
    <2>1. Covered(committed[b]) /\ Covered(working[b])
      BY DEF ErpInv, ShelvesOK
    <2> QED
      BY <2>1, NotLessThanNothing DEF Covered, WithinStock
  <1> QED
    BY <1>1, BackendIsSound, PTL

\* The ledger of the whole backend explains the committed stock (invariants (a)
\* and (b) of GET /inventory/reconcile).
THEOREM BackendExplainsStock == Spec => []LedgerExplainsStock
  <1>1. ErpInv => LedgerExplainsStock
    BY LedgerInvExplains DEF ErpInv
  <1> QED
    BY <1>1, BackendIsSound, PTL

\* No movement is booked twice, whichever services run at the same time: the
\* idempotency_key of an order's, a work order's or a transfer's movement is new
\* when it is booked, and a receipt of a booked reference is refused.
THEOREM BackendBooksOnce == Spec => []KeysUnique
  <1>1. ErpInv => KeysUnique
    BY DEF ErpInv
  <1> QED
    BY <1>1, BackendIsSound, PTL

-----------------------------------------------------------------------------
\* The units that orders hold in a bucket are counted order by order.
LEMMA HeldUnitsCounted ==
  ASSUME NEW version, NEW b, NEW h,
         \A o \in Order : /\ version[o] \in OrderRow \cup {Absent}
                          /\ IsFiniteSet(HeldOf(version[o], o, b))
                          /\ h[o] = Cardinality(HeldOf(version[o], o, b))
  PROVE  Cardinality(HeldUnits(version, b)) = SumOf(h, Order)
  <1> DEFINE U == [o \in Order |-> HeldOf(version[o], o, b)]
  <1>1. \A o \in Order : IsFiniteSet(U[o]) /\ h[o] = Cardinality(U[o])
    OBVIOUS
  <1>2. ASSUME NEW o \in Order, NEW x \in U[o]
        PROVE  x[1][1] = o
    <2>1. PICK row : row = version[o]
      OBVIOUS
    <2>2. x \in HeldOf(row, o, b)
      BY <2>1
    <2>3. row # Absent
      BY <2>2 DEF HeldOf
    <2>4. PICK k : x \in Units(o, k, row.reservations[k].quantity)
      BY <2>2, <2>3, HeldElements
    <2> QED
      BY <2>4 DEF Units
  <1>3. \A o, p \in Order : o # p => U[o] \cap U[p] = {}
    BY <1>2
  <1>4. HeldUnits(version, b) = UNION {U[o] : o \in Order}
    BY DEF HeldUnits
  <1> HIDE DEF U
  <1>5. IsFiniteSet(Order)
    BY FiniteDocs
  <1>6. Cardinality(UNION {U[o] : o \in Order}) = SumOf(h, Order)
    BY <1>1, <1>3, <1>5, SumOfSizes, Zenon
  <1> QED
    BY <1>4, <1>6

\* The sum over the work orders is a sum of a function.
LEMMA NetTotalIs ==
  ASSUME NEW S, NEW b, NEW f, \A w \in WorkOrder : f[w] = NetReserved(S, w, b)
  PROVE  MapThenSumSet(LAMBDA w : NetReserved(S, w, b), WorkOrder) = SumOf(f, WorkOrder)
  <1> DEFINE Folds(g) == g = [T \in SUBSET WorkOrder |->
                                IF T = {} THEN 0
                                ELSE LET w == CHOOSE w \in T : TRUE
                                     IN  NetReserved(S, w, b) + g[T \ {w}]]
             iter == CHOOSE g : Folds(g)
  <1>1. MapThenSumSet(LAMBDA w : NetReserved(S, w, b), WorkOrder) = iter[WorkOrder]
    BY DEF MapThenSumSet, MapThenFoldSet
  <1>2. ASSUME NEW g
        PROVE  Folds(g) <=> IsSum(g, f, WorkOrder)
    BY DEF IsSum, PickOf
  <1>3. \E g : IsSum(g, f, WorkOrder)
    BY FiniteDocs, SumExists
  <1> HIDE DEF Folds
  <1>4. Folds(iter)
    BY <1>2, <1>3
  <1> HIDE DEF iter
  <1> QED
    BY <1>1, <1>2, <1>3, <1>4, FiniteDocs, SumUnique DEF SumOf

\* reserved_qty is exactly what somebody holds, whatever the services do to a
\* bucket at the same time: a hold of an order that is ACTIVE, or open material
\* of a work order.  No hold is lost, leaked or counted twice.
THEOREM ReservedIsAllHeld == Spec => []ReservedIsHeldByAll
  <1>1. ErpInv => ReservedIsHeldByAll
    <2> SUFFICES ASSUME ErpInv, NEW b \in Bucket
                 PROVE  Quantities(committed[b]).reservedQty =
                          Cardinality(HeldUnits(committed, b))
                            + MapThenSumSet(LAMBDA w : NetReserved(ledger, w, b), WorkOrder)
      BY DEF ReservedIsHeldByAll
    <2> DEFINE h == [r \in Docs |-> ReservedSum(At(Of(ledger, r), b))]
    <2>1. /\ Order \subseteq Docs /\ WorkOrder \subseteq Docs /\ Transfer \subseteq Docs
          /\ \A r \in Docs : h[r] = ReservedSum(At(Of(ledger, r), b)) /\ h[r] \in Nat
          /\ \A r \in Transfer : h[r] = 0
      BY CommittedShare DEF Docs
    <2> HIDE DEF h
    <2>2. Quantities(committed[b]).reservedQty = ReservedSum(At(ledger, b))
      BY LedgerInvExplains DEF ErpInv, LedgerExplainsStock, ReservedSum, At
    <2>3. ReservedSum(At(ledger, b)) = SumOf(h, Docs)
      <3>1. Entries(ledger) /\ \A e \in ledger : Named(e)
        BY DEF ErpInv, LedgerInv, EntriesOK, ShelvesOK
      <3> QED
        BY <2>1, <3>1, ReservedByDocument
    <2>4. /\ SumOf(h, Docs) = SumOf(h, Order) + SumOf(h, WorkOrder) + SumOf(h, Transfer)
          /\ SumOf(h, Order) \in Int /\ SumOf(h, WorkOrder) \in Int
      BY <2>1, SumOfDocs, SumOfInt, FiniteDocs
    <2>5. SumOf(h, Transfer) = 0
      BY <2>1, SumOfZeros, FiniteDocs
    <2>6. Cardinality(HeldUnits(committed, b)) = SumOf(h, Order)
      <3>1. ASSUME NEW o \in Order
            PROVE  /\ committed[o] \in OrderRow \cup {Absent}
                   /\ IsFiniteSet(HeldOf(committed[o], o, b))
                   /\ h[o] = Cardinality(HeldOf(committed[o], o, b))
        BY <2>1 DEF ErpInv, DocsOK, Told, OrderTold
      <3> QED
        BY <3>1, HeldUnitsCounted
    <2>7. MapThenSumSet(LAMBDA w : NetReserved(ledger, w, b), WorkOrder)
            = SumOf(h, WorkOrder)
      <3>1. \A w \in WorkOrder : h[w] = NetReserved(ledger, w, b)
        BY <2>1, NetIsSum
      <3> QED
        BY <3>1, NetTotalIs
    <2> QED
      BY <2>2, <2>3, <2>4, <2>5, <2>6, <2>7
  <1> QED
    BY <1>1, BackendIsSound, PTL

\* What the ledger says of each order is what its reservations hold and what it
\* has taken away, bucket by bucket, whatever the other services book there.
\* Added up over the orders this is invariant (c) of reconcile.
THEOREM ReservationsAreExplained == Spec => []LedgerExplainsReservations
  <1>1. ErpInv => LedgerExplainsReservations
    <2> SUFFICES ASSUME ErpInv, NEW o \in Order, NEW b \in Bucket
                 PROVE  LET booked == {e \in ledger : e.inventoryId = b /\ e.refId = o}
                        IN  /\ SumOver(booked, LAMBDA e : e.reservedDelta) =
                                 Cardinality(HeldOf(committed[o], o, b))
                            /\ SumOver(booked, LAMBDA e : e.physicalDelta) =
                                 -Cardinality(ShippedOf(committed[o], o, b))
      BY DEF LedgerExplainsReservations
    <2> DEFINE booked == {e \in ledger : e.inventoryId = b /\ e.refId = o}
    <2>1. booked = At(Of(ledger, o), b)
      BY DEF At, Of
    <2>2. OrderTold(o, Of(ledger, o), committed[o])
      BY DocKinds DEF ErpInv, DocsOK, Told
    <2> HIDE DEF booked
    <2>3. /\ ReservedSum(booked) = Cardinality(HeldOf(committed[o], o, b))
          /\ PhysicalSum(booked) = -Cardinality(ShippedOf(committed[o], o, b))
      BY <2>1, <2>2 DEF OrderTold, LeftTold
    <2> QED
      BY <2>3 DEF ReservedSum, PhysicalSum, booked
  <1> QED
    BY <1>1, BackendIsSound, PTL

\* The stock of the buckets S, and what is under way of the transfers S.
StockTotal(version, S) == MapThenSumSet(LAMBDA b : Quantities(version[b]).physicalQty, S)
TransitTotal(version, S) == MapThenSumSet(LAMBDA x : Underway(version[x]), S)

\* The sums are sums of functions.
LEMMA StockTotalIs ==
  ASSUME NEW version, NEW S, IsFiniteSet(S), NEW f,
         \A b \in S : f[b] = Quantities(version[b]).physicalQty
  PROVE  StockTotal(version, S) = SumOf(f, S)
  <1> DEFINE Folds(g) == g = [T \in SUBSET S |->
                                IF T = {} THEN 0
                                ELSE LET x == CHOOSE x \in T : TRUE
                                     IN  Quantities(version[x]).physicalQty
                                           + g[T \ {x}]]
             iter == CHOOSE g : Folds(g)
  <1>1. StockTotal(version, S) = iter[S]
    BY DEF StockTotal, MapThenSumSet, MapThenFoldSet
  <1>2. ASSUME NEW g
        PROVE  Folds(g) <=> IsSum(g, f, S)
    BY DEF IsSum, PickOf
  <1>3. \E g : IsSum(g, f, S)
    BY SumExists
  <1> HIDE DEF Folds
  <1>4. Folds(iter)
    BY <1>2, <1>3
  <1> HIDE DEF iter
  <1> QED
    BY <1>1, <1>2, <1>3, <1>4, SumUnique DEF SumOf

LEMMA TransitTotalIs ==
  ASSUME NEW version, NEW S, IsFiniteSet(S), NEW f,
         \A x \in S : f[x] = Underway(version[x])
  PROVE  TransitTotal(version, S) = SumOf(f, S)
  <1> DEFINE Folds(g) == g = [T \in SUBSET S |->
                                IF T = {} THEN 0
                                ELSE LET x == CHOOSE x \in T : TRUE
                                     IN  Underway(version[x]) + g[T \ {x}]]
             iter == CHOOSE g : Folds(g)
  <1>1. TransitTotal(version, S) = iter[S]
    BY DEF TransitTotal, MapThenSumSet, MapThenFoldSet
  <1>2. ASSUME NEW g
        PROVE  Folds(g) <=> IsSum(g, f, S)
    BY DEF IsSum, PickOf
  <1>3. \E g : IsSum(g, f, S)
    BY SumExists
  <1> HIDE DEF Folds
  <1>4. Folds(iter)
    BY <1>2, <1>3
  <1> HIDE DEF iter
  <1> QED
    BY <1>1, <1>2, <1>3, <1>4, SumUnique DEF SumOf

\* The movements S change the stock as their groups do.
LEMMA PhysicalByGroup ==
  ASSUME NEW S, Entries(S), NEW R, IsFiniteSet(R), NEW k, NEW g,
         \A e \in S : k[e] \in R,
         \A r \in R : g[r] = PhysicalSum(Group(S, k, r))
  PROVE  /\ PhysicalSum(S) = SumOf(g, R)
         /\ \A r \in R : g[r] \in Int
  <1> DEFINE f == [e \in S |-> e.physicalDelta]
  <1>1. \A e \in S : f[e] = e.physicalDelta /\ f[e] \in Int /\ k[e] \in R
    BY DEF Entries, IsEntry
  <1>2. IsFiniteSet(S)
    BY DEF Entries
  <1> HIDE DEF f
  <1>3. PhysicalSum(S) = SumOf(f, S)
    BY <1>1, <1>2, PhysicalSumIs
  <1>4. ASSUME NEW r \in R
        PROVE  g[r] = SumOf(f, Group(S, k, r)) /\ g[r] \in Int
    <2>1. Group(S, k, r) \subseteq S
      BY DEF Group
    <2>2. Entries(Group(S, k, r)) /\ IsFiniteSet(Group(S, k, r))
      BY <2>1, FS_Subset DEF Entries
    <2>3. \A e \in Group(S, k, r) : f[e] = e.physicalDelta
      BY <1>1, <2>1
    <2>4. PhysicalSum(Group(S, k, r)) = SumOf(f, Group(S, k, r))
      BY <2>2, <2>3, PhysicalSumIs
    <2> QED
      BY <2>2, <2>4, LedgerSums
  <1>5. SumOf(f, S) = SumOf(g, R)
    <2>1. \A r \in R : g[r] = SumOf(f, Group(S, k, r))
      BY <1>4
    <2>2. \A e \in S : f[e] \in Int /\ k[e] \in R
      BY <1>1
    <2> QED
      BY <1>2, <2>1, <2>2, SumByGroup
  <1> QED
    BY <1>3, <1>4, <1>5

-----------------------------------------------------------------------------
Places(d) == {d} \X Location
OfBatch(S, d) == {e \in S : e.inventoryId[1] = d}
MovedBy(d, R) == {e \in ledger : e.inventoryId[1] = d /\ e.refId \in R}

LEMMA BatchPlaces ==
  ASSUME NEW d \in Batch
  PROVE  IsFiniteSet(Places(d)) /\ Places(d) \subseteq Bucket
  <1>1. IsFiniteSet({d}) /\ IsFiniteSet(Location)
    BY FS_Singleton, TransfersAssumption
  <1> QED
    BY <1>1, FS_Product DEF Places, Bucket

\* What is at the places of a batch is what was there and what has moved.
LEMMA BatchStock ==
  ASSUME ErpInv, NEW d \in Batch
  PROVE  /\ StockTotal(committed, Places(d))
              = StockTotal(InitialStock, Places(d)) + PhysicalSum(OfBatch(ledger, d))
         /\ StockTotal(InitialStock, Places(d)) \in Int
  <1> DEFINE P == Places(d)
             now == [b \in P |-> Quantities(committed[b]).physicalQty]
             seed == [b \in P |-> Quantities(InitialStock[b]).physicalQty]
             moved == [b \in P |-> PhysicalSum(At(ledger, b))]
             S == OfBatch(ledger, d)
             k == [e \in S |-> e.inventoryId]
  <1>1. IsFiniteSet(P) /\ P \subseteq Bucket
    BY BatchPlaces
  <1>2. Entries(S)
    <2>1. S \subseteq ledger
      BY DEF OfBatch
    <2> QED
      BY <2>1, FS_Subset DEF ErpInv, LedgerInv, EntriesOK, Entries
  <1>3. \A e \in S : k[e] \in P
    BY <1>2 DEF Entries, IsEntry, OfBatch, Bucket, Places
  <1>4. ASSUME NEW b \in P
        PROVE  moved[b] = PhysicalSum(Group(S, k, b))
    <2>1. At(ledger, b) = Group(S, k, b)
      BY DEF At, Group, OfBatch, Places
    <2> QED
      BY <2>1
  <1>5. ASSUME NEW b \in P
        PROVE  /\ now[b] = Quantities(committed[b]).physicalQty
               /\ seed[b] = Quantities(InitialStock[b]).physicalQty
               /\ now[b] = seed[b] + moved[b] /\ now[b] \in Int /\ seed[b] \in Int
    <2>1. Explains(At(ledger, b), InitialStock[b], committed[b])
      BY <1>1 DEF ErpInv, LedgerInv, BooksOK
    <2>2. committed[b] \in BucketRow \cup {Absent}
      BY <1>1 DEF ErpInv, StockTypeOK
    <2>3. Quantities(committed[b]).physicalQty \in Int
      BY <2>2, QuantitiesType DEF BucketRow
    <2>4. Quantities(InitialStock[b]).physicalQty \in Int
      BY <1>1, InitialQuantities DEF BucketRow
    <2> QED
      BY <2>1, <2>3, <2>4 DEF Explains
  <1> HIDE DEF now, seed, moved, k, P, S
  <1>6. PhysicalSum(S) = SumOf(moved, P) /\ \A b \in P : moved[b] \in Int
    BY <1>1, <1>2, <1>3, <1>4, PhysicalByGroup
  <1>7. /\ StockTotal(committed, P) = SumOf(now, P)
        /\ StockTotal(InitialStock, P) = SumOf(seed, P)
    BY <1>1, <1>5, StockTotalIs
  <1>8. \A b \in P : /\ now[b] \in Int /\ moved[b] \in Int
                     /\ seed[b] = now[b] - moved[b]
    BY <1>5, <1>6
  <1>9. SumOf(seed, P) = SumOf(now, P) - SumOf(moved, P)
    BY <1>1, <1>8, SumOfMinus
  <1>10. SumOf(now, P) \in Int /\ SumOf(moved, P) \in Int /\ SumOf(seed, P) \in Int
    BY <1>1, <1>5, <1>8, SumOfInt
  <1> QED
    BY <1>6, <1>7, <1>9, <1>10 DEF P, S

\* What has moved of a batch, by what moved it.
LEMMA BatchMoves ==
  ASSUME ErpInv, NEW d \in Batch
  PROVE  /\ PhysicalSum(OfBatch(ledger, d))
              = PhysicalSum(MovedBy(d, {None})) + PhysicalSum(MovedBy(d, Order))
                  + PhysicalSum(MovedBy(d, WorkOrder))
                  + PhysicalSum(MovedBy(d, Transfer))
         /\ PhysicalSum(MovedBy(d, {None})) \in Int
         /\ PhysicalSum(MovedBy(d, Order)) \in Int
         /\ PhysicalSum(MovedBy(d, WorkOrder)) \in Int
         /\ PhysicalSum(MovedBy(d, Transfer)) \in Int
  <1> DEFINE A == MovedBy(d, {None})
             B == MovedBy(d, Order)
             C == MovedBy(d, WorkOrder)
             D == MovedBy(d, Transfer)
  <1>1. ASSUME NEW R
        PROVE  Entries(MovedBy(d, R))
    <2>1. MovedBy(d, R) \subseteq ledger
      BY DEF MovedBy
    <2> QED
      BY <2>1, FS_Subset DEF ErpInv, LedgerInv, EntriesOK, Entries
  <1>2. Entries(A) /\ Entries(B) /\ Entries(C) /\ Entries(D)
    BY <1>1
  <1>3. OfBatch(ledger, d) = ((A \cup B) \cup C) \cup D
    BY DEF MovedBy, OfBatch, ErpInv, ShelvesOK, Named, Docs
  <1>4. A \cap B = {} /\ (A \cup B) \cap C = {} /\ ((A \cup B) \cup C) \cap D = {}
    BY ErpAssumption, DocRows DEF MovedBy, Docs
  <1> HIDE DEF A, B, C, D
  <1>5. Entries(A \cup B) /\ Entries((A \cup B) \cup C)
    BY <1>2, FS_Union DEF Entries
  <1>6. PhysicalSum(A \cup B) = PhysicalSum(A) + PhysicalSum(B)
    BY <1>2, <1>4, LedgerSums
  <1>7. PhysicalSum((A \cup B) \cup C) = PhysicalSum(A \cup B) + PhysicalSum(C)
    BY <1>2, <1>4, <1>5, LedgerSums
  <1>8. PhysicalSum(((A \cup B) \cup C) \cup D)
          = PhysicalSum((A \cup B) \cup C) + PhysicalSum(D)
    BY <1>2, <1>4, <1>5, LedgerSums
  <1>9. /\ PhysicalSum(A) \in Int /\ PhysicalSum(B) \in Int
        /\ PhysicalSum(C) \in Int /\ PhysicalSum(D) \in Int
    BY <1>2, LedgerSums
  <1> QED
    BY <1>3, <1>6, <1>7, <1>8, <1>9 DEF A, B, C, D

\* The transfers of a batch have moved what is under way, and no more.
TransfersOf(d) == {x \in Transfer : committed[x] # Absent /\ committed[x].batch = d}

LEMMA BatchTransit ==
  ASSUME ErpInv, NEW d \in Batch
  PROVE  /\ PhysicalSum(MovedBy(d, Transfer)) = -TransitTotal(committed, TransfersOf(d))
         /\ TransitTotal(committed, TransfersOf(d)) \in Int
  <1> DEFINE R == TransfersOf(d)
             S == MovedBy(d, Transfer)
             k == [e \in S |-> e.refId]
             g == [x \in R |-> PhysicalSum(Of(ledger, x))]
             u == [x \in R |-> Underway(committed[x])]
             zero == [x \in R |-> 0]
  <1>1. IsFiniteSet(R)
    <2>1. R \subseteq Transfer
      BY DEF TransfersOf
    <2> QED
      BY <2>1, FiniteDocs, FS_Subset
  <1>2. Entries(S)
    <2>1. S \subseteq ledger
      BY DEF MovedBy
    <2> QED
      BY <2>1, FS_Subset DEF ErpInv, LedgerInv, EntriesOK, Entries
  <1>3. \A x \in Transfer : TransferTold(x, Of(ledger, x), committed[x])
    BY DEF ErpInv, DocsOK, Told, Docs
  <1>4. ASSUME NEW e \in S
        PROVE  k[e] \in R
    <2>1. PICK x : x = e.refId
      OBVIOUS
    <2>2. e \in Of(ledger, x) /\ x \in Transfer /\ e.inventoryId[1] = d
      BY <2>1 DEF Of, MovedBy
    <2>3. committed[x] # Absent /\ e.inventoryId[1] = committed[x].batch
      BY <1>3, <2>2 DEF TransferTold
    <2> QED
      BY <2>1, <2>2, <2>3 DEF TransfersOf
  <1>5. ASSUME NEW x \in R
        PROVE  g[x] = PhysicalSum(Group(S, k, x))
    <2>1. Of(ledger, x) \subseteq S
      BY <1>3 DEF TransfersOf, MovedBy, Of, TransferTold
    <2>2. Group(S, k, x) = Of(ledger, x)
      BY <2>1 DEF Group, Of, MovedBy
    <2> QED
      BY <2>2
  <1>6. ASSUME NEW x \in R
        PROVE  g[x] = -Underway(committed[x]) /\ u[x] = Underway(committed[x])
    BY <1>3 DEF TransfersOf, TransferTold
  <1>7. ASSUME NEW x \in R
        PROVE  Underway(committed[x]) \in Int
    <2>1. committed[x] \in TransferRow
      BY <1>3 DEF TransfersOf, TransferTold
    <2> QED
      BY <2>1 DEF Underway, OutstandingQty, TransferRow
  <1>8. \A x \in R : zero[x] = 0
    OBVIOUS
  <1> HIDE DEF R, S, k, g, u, zero
  <1>9. PhysicalSum(S) = SumOf(g, R)
    BY <1>1, <1>2, <1>4, <1>5, PhysicalByGroup
  <1>10. TransitTotal(committed, R) = SumOf(u, R)
    BY <1>1, <1>6, TransitTotalIs
  <1>11. \A x \in R : zero[x] \in Int /\ u[x] \in Int /\ g[x] = zero[x] - u[x]
    BY <1>6, <1>7, <1>8
  <1>12. SumOf(g, R) = SumOf(zero, R) - SumOf(u, R)
    BY <1>1, <1>11, SumOfMinus
  <1>13. SumOf(zero, R) = 0 /\ SumOf(u, R) \in Int
    BY <1>1, <1>8, <1>11, SumOfZeros, SumOfInt
  <1> QED
    BY <1>9, <1>10, <1>12, <1>13 DEF R, S

\* Whatever the services do to a batch at the same time, every unit of it is
\* accounted for: seeded, received or adjusted units are at a location, in
\* transit, shipped with an order or consumed by a work order.
THEOREM NoUnitUnaccounted == Spec => []EveryUnitAccounted
  <1>1. ErpInv => EveryUnitAccounted
    <2> SUFFICES ASSUME ErpInv, NEW d \in Batch
                 PROVE  StockTotal(committed, Places(d))
                          + TransitTotal(committed, TransfersOf(d))
                        = StockTotal(InitialStock, Places(d))
                            + PhysicalSum(MovedBy(d, {None}))
                            + PhysicalSum(MovedBy(d, Order))
                            + PhysicalSum(MovedBy(d, WorkOrder))
      BY DEF EveryUnitAccounted, StockTotal, TransitTotal, PhysicalSum, Places,
             TransfersOf, MovedBy, PhysicalOf, InTransit, Underway
    <2>1. /\ StockTotal(committed, Places(d))
               = StockTotal(InitialStock, Places(d)) + PhysicalSum(OfBatch(ledger, d))
          /\ StockTotal(InitialStock, Places(d)) \in Int
      BY BatchStock
    <2>2. /\ PhysicalSum(OfBatch(ledger, d))
              = PhysicalSum(MovedBy(d, {None})) + PhysicalSum(MovedBy(d, Order))
                  + PhysicalSum(MovedBy(d, WorkOrder))
                  + PhysicalSum(MovedBy(d, Transfer))
          /\ PhysicalSum(MovedBy(d, {None})) \in Int
          /\ PhysicalSum(MovedBy(d, Order)) \in Int
          /\ PhysicalSum(MovedBy(d, WorkOrder)) \in Int
          /\ PhysicalSum(MovedBy(d, Transfer)) \in Int
      BY BatchMoves
    <2>3. /\ PhysicalSum(MovedBy(d, Transfer)) = -TransitTotal(committed, TransfersOf(d))
          /\ TransitTotal(committed, TransfersOf(d)) \in Int
      BY BatchTransit
    <2> QED
      BY <2>1, <2>2, <2>3
  <1> QED
    BY <1>1, BackendIsSound, PTL
=============================================================================
