---------------------------- MODULE StockService ----------------------------
(***************************************************************************)
(* The inventory buckets, their ledger, and the PostgreSQL transactions    *)
(* that every service of the backend runs its operations in.               *)
(*                                                                         *)
(* src/backend/src/inventory/stock.service.ts is the only code that writes *)
(* a bucket: a caller locks the bucket's row (SELECT ... FOR UPDATE),      *)
(* decides, and books a movement, which inserts a ledger row and updates   *)
(* the bucket.  All of it happens in the caller's transaction, so this     *)
(* module also says what a transaction is at READ COMMITTED: which version *)
(* of a row a statement sees, who holds a row lock, and what commit and    *)
(* rollback do.  The services extend it with their own documents.          *)
(***************************************************************************)
EXTENDS Integers, FiniteSets, FiniteSetsExt

CONSTANTS
    Txn,            \* database transactions that may run at the same time
    Batch,          \* batches of items
    Location,       \* places that hold stock
    ItemOf,         \* the item a batch is a batch of
    FefoRank,       \* position of a batch in "ORDER BY expiry_date, code, id"
    UuidRank,       \* position of a bucket in "ORDER BY inventory_id"
    InitialStock,   \* the seeded bucket rows, Absent where none was seeded
    Document,       \* what a request may name besides a bucket: orders, work
                    \* orders, transfers, delivery references
    None,           \* no transaction, no document
    Absent          \* the value of a row that does not exist

\* One row of the inventory table per batch and location, created on demand.
Bucket == Batch \X Location
Row == Bucket \cup Document
BucketRow == [physicalQty : Int, reservedQty : Int]

\* What a transaction is doing: the operation, the statement it is at, the
\* document it is about, and the local variables of its loops.
TxRow ==
    [op : {"none", "create", "reserve", "cancel", "fulfil", "start", "complete",
           "dispatch", "receive", "receipt", "adjustment"},
     step : {"idle", "find", "take", "release", "consume", "debit",
             "sent", "seek", "insert", "book", "stored", "commit"},
     doc : Document \cup {None},
     line : Nat, remaining : Int, todo : SUBSET Bucket]

ASSUME StockAssumption ==
    /\ None \notin Txn
    /\ None \notin Document
    /\ Bucket \cap Document = {}
    /\ Absent \notin BucketRow
    /\ FefoRank \in [Batch -> Nat]
    /\ \A c, d \in Batch : FefoRank[c] = FefoRank[d] => c = d
    /\ UuidRank \in [Bucket -> Nat]
    /\ \A b, c \in Bucket : UuidRank[b] = UuidRank[c] => b = c
    /\ InitialStock \in [Bucket -> {Absent} \cup
                           [physicalQty : Nat, reservedQty : {0}]]

VARIABLES
    committed,      \* the last committed version of every row
    working,        \* the newest version, written by the holder of its lock
    holder,         \* who holds the row lock of FOR UPDATE, INSERT or UPDATE
    ledger,         \* the committed rows of inventory_transactions
    pending,        \* the ledger rows a transaction has inserted so far
    tx              \* what every transaction is doing

vars == <<committed, working, holder, ledger, pending, tx>>
rows == <<committed, working, holder>>

-----------------------------------------------------------------------------
(* Transactions.                                                           *)

Idle == [op |-> "none", step |-> "idle", doc |-> None,
         line |-> 0, remaining |-> 0, todo |-> {}]

IsIdle(t) == tx[t].step = "idle"

\* What a plain SELECT of t sees: its own writes, else the committed version.
View(t, r) == IF holder[r] = t THEN working[r] ELSE committed[r]

\* Mutant: FOR UPDATE is left out of the query.
GrantAlways(t, r) == TRUE

\* The lock a FOR UPDATE asks for is granted at once; otherwise t waits.
CanLock(t, r) == holder[r] \in {None, t}

\* Mutant: the connection goes back to the pool with its locks.
FinishKeepsLocks(t) ==
    /\ pending' = [pending EXCEPT ![t] = {}]
    /\ tx' = [tx EXCEPT ![t] = Idle]
    /\ UNCHANGED holder

Finish(t) ==
    /\ holder' = [r \in Row |-> IF holder[r] = t THEN None ELSE holder[r]]
    /\ pending' = [pending EXCEPT ![t] = {}]
    /\ tx' = [tx EXCEPT ![t] = Idle]

Commit(t) ==
    /\ committed' = [r \in Row |->
                       IF holder[r] = t THEN working[r] ELSE committed[r]]
    /\ ledger' = ledger \cup pending[t]
    /\ UNCHANGED working
    /\ Finish(t)

\* Mutant: the ledger row is inserted through a connection of its own.
RollbackKeepsLedger(t) ==
    /\ working' = [r \in Row |->
                     IF holder[r] = t THEN committed[r] ELSE working[r]]
    /\ ledger' = ledger \cup pending[t]
    /\ UNCHANGED committed
    /\ Finish(t)

\* Mutant: the statements of an operation share no transaction.
RollbackKeepsWrites(t) ==
    /\ committed' = [r \in Row |->
                       IF holder[r] = t THEN working[r] ELSE committed[r]]
    /\ UNCHANGED <<working, ledger>>
    /\ Finish(t)

\* ROLLBACK: an exception in the callback, or the server ending the session.
Rollback(t) ==
    /\ working' = [r \in Row |->
                     IF holder[r] = t THEN committed[r] ELSE working[r]]
    /\ UNCHANGED <<committed, ledger>>
    /\ Finish(t)

\* The process dies, the connection is lost, or a statement times out, in the
\* middle of a transaction: the database rolls it back.
Lost(t) == ~IsIdle(t) /\ Rollback(t)

\* The transactions of S wait for each other in a circle.  NextLock(t) is the row
\* that the next statement of t locks, None when it locks none.
WaitCycle(NextLock(_), S) ==
    /\ S # {}
    /\ \A t \in S : NextLock(t) # None /\ ~CanLock(t, NextLock(t))
    /\ {holder[NextLock(t)] : t \in S} = S

\* PostgreSQL's deadlock detector (SQLSTATE 40P01) ends one of the waiters.
DeadlockVictim(NextLock(_), t) ==
    /\ \E S \in SUBSET Txn : t \in S /\ WaitCycle(NextLock, S)
    /\ Rollback(t)

-----------------------------------------------------------------------------
(* Buckets.                                                                *)

Quantities(row) ==
    IF row = Absent THEN [physicalQty |-> 0, reservedQty |-> 0] ELSE row

\* Mutant: what is reserved counts as available.
PhysicalQty(row) == Quantities(row).physicalQty

\* The generated column available_qty.
AvailableQty(row) ==
    Quantities(row).physicalQty - Quantities(row).reservedQty

BucketsOf(item, location) ==
    {b \in Bucket : ItemOf[b[1]] = item /\ b[2] = location}

\* The SELECT of findAvailableBuckets; the order is FirstExpiring's.
AvailableBuckets(t, item, location) ==
    {b \in BucketsOf(item, location) : AvailableQty(View(t, b)) > 0}

\* The first of a list that the code sorts by inventory_id (also a mutant of
\* FirstExpiring: the ORDER BY is forgotten).
FirstByUuid(S) == CHOOSE b \in S : \A c \in S : UuidRank[b] <= UuidRank[c]

FirstExpiring(S) ==
    CHOOSE b \in S : \A c \in S : FefoRank[b[1]] <= FefoRank[c[1]]

\* Mutant: a delta that is not given is not taken for 0; NULL makes the sum NULL.
MovedByNull(row, physicalDelta, reservedDelta) ==
    [physicalQty |-> IF physicalDelta = 0 THEN None
                     ELSE row.physicalQty + physicalDelta,
     reservedQty |-> IF reservedDelta = 0 THEN None
                     ELSE row.reservedQty + reservedDelta]

\* Mutant: goods that leave go on being reserved.
MovedHoldKept(row, physicalDelta, reservedDelta) ==
    [physicalQty |-> row.physicalQty + physicalDelta,
     reservedQty |-> row.reservedQty
                       + (IF physicalDelta = 0 THEN reservedDelta ELSE 0)]

\* The UPDATE of applyMovement.  Its CHECK constraint is not a guard here:
\* NeverOversold says that no movement ever meets it.
Moved(row, physicalDelta, reservedDelta) ==
    [physicalQty |-> row.physicalQty + physicalDelta,
     reservedQty |-> row.reservedQty + reservedDelta]

\* Mutant: the ledger row leaves the reserved quantity at its default.
BookPhysicalOnly(t, key, b, physicalDelta, reservedDelta, ref) ==
    pending' = [pending EXCEPT ![t] = @ \cup
                  {[idempotencyKey |-> key, inventoryId |-> b,
                    physicalDelta |-> physicalDelta, reservedDelta |-> 0,
                    refId |-> ref]}]

\* Mutant: the last part of the idempotency key is forgotten.
BookShortKey(t, key, b, physicalDelta, reservedDelta, ref) ==
    pending' = [pending EXCEPT ![t] = @ \cup
                  {[idempotencyKey |-> <<key[1], key[2], key[3]>>,
                    inventoryId |-> b, physicalDelta |-> physicalDelta,
                    reservedDelta |-> reservedDelta, refId |-> ref]}]

\* The INSERT of applyMovement into the append-only ledger.
Book(t, key, b, physicalDelta, reservedDelta, ref) ==
    pending' = [pending EXCEPT ![t] = @ \cup
                  {[idempotencyKey |-> key, inventoryId |-> b,
                    physicalDelta |-> physicalDelta,
                    reservedDelta |-> reservedDelta, refId |-> ref]}]

\* A transaction that begins, and what it does next.
Proceed(t, op, step, doc, line) ==
    tx' = [tx EXCEPT ![t] = [Idle EXCEPT !.op = op, !.step = step,
                                         !.doc = doc, !.line = line]]

\* Begin with SELECT ... FOR UPDATE on the row of a document.
LockDocument(t, d) ==
    /\ IsIdle(t)
    /\ CanLock(t, d)
    /\ committed[d] # Absent
    /\ holder' = [holder EXCEPT ![d] = t]
    /\ UNCHANGED <<committed, working, ledger, pending>>

\* Begin with the INSERT of a new document.
InsertDocument(t, d, row) ==
    /\ IsIdle(t)
    /\ CanLock(t, d)
    /\ committed[d] = Absent
    /\ holder' = [holder EXCEPT ![d] = t]
    /\ working' = [working EXCEPT ![d] = row]
    /\ UNCHANGED <<committed, ledger, pending>>

-----------------------------------------------------------------------------
(* lockOrCreateBucket for the bucket b, createIfMissing being set.         *)

\* Mutant: a column has no default.
BucketOfNulls == [physicalQty |-> 0, reservedQty |-> None]

EmptyBucket == [physicalQty |-> 0, reservedQty |-> 0]

\* SELECT ... FOR UPDATE by item, location and batch.  It does not see a row
\* that another transaction has inserted and not committed.
SeekBucket(t, b) ==
    /\ tx[t].step = "seek"
    /\ \/ /\ View(t, b) = Absent
          /\ tx' = [tx EXCEPT ![t].step = "insert"]
          /\ UNCHANGED holder
       \/ /\ View(t, b) # Absent
          /\ CanLock(t, b)
          /\ holder' = [holder EXCEPT ![b] = t]
          /\ tx' = [tx EXCEPT ![t].step = "book"]
    /\ UNCHANGED <<committed, working, ledger, pending>>

\* Mutant: the bucket is inserted in a transaction of its own.
InsertBucketAtOnce(t, b) ==
    /\ tx[t].step = "insert"
    /\ CanLock(t, b)
    /\ working[b] = Absent
    /\ holder' = [holder EXCEPT ![b] = t]
    /\ working' = [working EXCEPT ![b] = EmptyBucket]
    /\ committed' = [committed EXCEPT ![b] = EmptyBucket]
    /\ tx' = [tx EXCEPT ![t].step = "book"]
    /\ UNCHANGED <<ledger, pending>>

\* INSERT of an empty bucket.  It waits while another transaction's insert of
\* the same key is undecided, and succeeds if that one is rolled back.
InsertBucket(t, b) ==
    /\ tx[t].step = "insert"
    /\ CanLock(t, b)
    /\ working[b] = Absent
    /\ holder' = [holder EXCEPT ![b] = t]
    /\ working' = [working EXCEPT ![b] = EmptyBucket]
    /\ tx' = [tx EXCEPT ![t].step = "book"]
    /\ UNCHANGED <<committed, ledger, pending>>

\* The other insert was committed: SQLSTATE 23505.  PostgreSQL then fails every
\* further statement of the transaction (25P02), the re-read in the catch block
\* included, and the request ends as a 500.
InsertBucketRaced(t, b) ==
    /\ tx[t].step = "insert"
    /\ CanLock(t, b)
    /\ working[b] # Absent
    /\ Rollback(t)

-----------------------------------------------------------------------------
Init ==
    /\ committed = [r \in Row |-> IF r \in Bucket THEN InitialStock[r]
                                                  ELSE Absent]
    /\ working = committed
    /\ holder = [r \in Row |-> None]
    /\ ledger = {}
    /\ pending = [t \in Txn |-> {}]
    /\ tx = [t \in Txn |-> Idle]

-----------------------------------------------------------------------------
(* Properties of the buckets that every service must keep.                 *)

StockTypeOK ==
    /\ DOMAIN committed = Row /\ DOMAIN working = Row
    /\ \A b \in Bucket : /\ committed[b] \in BucketRow \cup {Absent}
                         /\ working[b] \in BucketRow \cup {Absent}
    /\ holder \in [Row -> Txn \cup {None}]
    /\ DOMAIN pending = Txn
    /\ tx \in [Txn -> TxRow]

\* The row is within CHECK (0 <= reserved_qty <= physical_qty).
WithinStock(row) ==
    /\ 0 <= Quantities(row).reservedQty
    /\ Quantities(row).reservedQty <= Quantities(row).physicalQty

\* Nobody ever promises or ships a unit that is not there: not in what is
\* committed, nor in what a running transaction has written so far.  So the
\* "application-level guard was missed" branch of applyMovement is dead code.
NeverOversold ==
    \A b \in Bucket : WithinStock(committed[b]) /\ WithinStock(working[b])

\* No movement is booked twice: neither among the committed rows of the
\* ledger nor between two transactions that are still running.
KeysUnique ==
    /\ \A d, e \in ledger : d.idempotencyKey = e.idempotencyKey => d = e
    /\ \A t, u \in Txn : \A d \in pending[t] : \A e \in ledger \cup pending[u] :
         d.idempotencyKey = e.idempotencyKey => (t = u /\ d = e /\ e \notin ledger)

SumOver(entries, Delta(_)) == MapThenSumSet(Delta, entries)

\* The committed ledger explains the committed quantities of every bucket
\* (invariants (a) and (b) of GET /inventory/reconcile).
LedgerExplainsStock ==
    \A b \in Bucket :
      LET booked == {e \in ledger : e.inventoryId = b}
          seeded == Quantities(InitialStock[b])
          now == Quantities(committed[b])
      IN  /\ now.physicalQty = seeded.physicalQty
                                 + SumOver(booked, LAMBDA e : e.physicalDelta)
          /\ now.reservedQty = SumOver(booked, LAMBDA e : e.reservedDelta)

\* A bucket is created together with the goods that need it: no failure
\* between its INSERT and the movement leaves an empty bucket behind, and no
\* bucket ever disappears.
BucketsAppearStocked ==
    [][\A b \in Bucket :
         /\ committed[b] = Absent /\ committed'[b] # Absent
              => committed'[b].physicalQty > 0
         /\ committed[b] # Absent => committed'[b] # Absent]_vars
=============================================================================
