-------------------------- MODULE TransfersProofs --------------------------
(***************************************************************************)
(* Proofs about TransfersService, for every number of transactions,        *)
(* transfers, batches and locations.                                       *)
(*                                                                         *)
(* The inductive invariant says, of every transaction, exactly which rows  *)
(* it holds at each of its statements, which versions it has written and   *)
(* what it has booked (Phase).  What a COMMIT makes of the committed state *)
(* is then one of three steps of TransitBook (CommitOutcome), and the      *)
(* ledger, the conservation of goods and the refinement follow from those. *)
(***************************************************************************)
EXTENDS TransfersRefinement, StockProofs

\* The row that the INSERT of a transfer writes.
NewTransfer(form) ==
    [status |-> "REQUESTED", batch |-> form.batch, source |-> form.source,
     destination |-> form.destination, quantity |-> form.quantity,
     receivedQty |-> 0]

\* The row after its goods have left.
Gone(transfer) == [transfer EXCEPT !.status = "DISPATCHED"]

\* The ledger rows of a departure and of the arrival of q units.
Departure(x, transfer) ==
    [idempotencyKey |-> <<"TRANSFER", x, "DISPATCH">>,
     inventoryId |-> Source(transfer), physicalDelta |-> -transfer.quantity,
     reservedDelta |-> 0, refId |-> x]
Arrival(x, transfer, q) ==
    [idempotencyKey |-> <<"TRANSFER", x, "RECEIVE", transfer.receivedQty + q>>,
     inventoryId |-> Destination(transfer), physicalDelta |-> q,
     reservedDelta |-> 0, refId |-> x]

-----------------------------------------------------------------------------
(* What a transaction about the transfer x has done at each statement.     *)

Requesting(t, x) ==
    /\ tx[t].step = "commit" /\ pending[t] = {} /\ Holds(t) = {x}
    /\ committed[x] = Absent
    /\ \E form \in TransferForms : working[x] = NewTransfer(form)

Dispatching(t, x) ==
    /\ tx[t].step = "debit" /\ pending[t] = {} /\ Holds(t) = {x}
    /\ committed[x] # Absent /\ committed[x].status = "REQUESTED"
    /\ working[x] = committed[x]

\* The movement has been booked; the transfer is saved after it.
Dispatched(t, x) ==
    LET b == Source(committed[x])
        q == committed[x].quantity
    IN  /\ Holds(t) = {x, b}
        /\ committed[x] # Absent /\ committed[x].status = "REQUESTED"
        /\ \/ tx[t].step = "sent" /\ working[x] = committed[x]
           \/ tx[t].step = "commit" /\ working[x] = Gone(committed[x])
        /\ AvailableQty(committed[b]) >= q
        /\ working[b] = Moved(Quantities(committed[b]), -q, 0)
        /\ pending[t] = {Departure(x, committed[x])}

Outstanding(t, x) ==
    /\ committed[x] # Absent /\ committed[x].status = "DISPATCHED"
    /\ tx[t].remaining \in 1 .. OutstandingQty(committed[x])

Receiving(t, x) ==
    /\ tx[t].step \in {"seek", "insert"} /\ pending[t] = {} /\ Holds(t) = {x}
    /\ Outstanding(t, x)
    /\ working[x] = committed[x]

Stocking(t, x) ==
    LET b == Destination(committed[x])
    IN  /\ tx[t].step = "book" /\ pending[t] = {} /\ Holds(t) = {x, b}
        /\ Outstanding(t, x)
        /\ working[x] = committed[x]
        /\ working[b] = Quantities(committed[b])

Received(t, x) ==
    LET b == Destination(committed[x])
        q == tx[t].remaining
    IN  /\ Holds(t) = {x, b}
        /\ Outstanding(t, x)
        /\ \/ tx[t].step = "stored" /\ working[x] = committed[x]
           \/ tx[t].step = "commit" /\ working[x] = Arrived(committed[x], q)
        /\ working[b] = Moved(Quantities(committed[b]), q, 0)
        /\ pending[t] = {Arrival(x, committed[x], q)}

Resting(t) == IsIdle(t) /\ Holds(t) = {} /\ pending[t] = {}

Phase(t) ==
    \/ Resting(t)
    \/ \E x \in Transfer :
         /\ tx[t].doc = x
         /\ \/ Requesting(t, x) \/ Dispatching(t, x) \/ Dispatched(t, x)
            \/ Receiving(t, x) \/ Stocking(t, x) \/ Received(t, x)

\* A committed transfer is one that was asked for; it is received as far as
\* its status says.
Sound(transfer) ==
    /\ transfer \in TransferRow
    /\ \E form \in TransferForms :
         /\ transfer.batch = form.batch /\ transfer.source = form.source
         /\ transfer.destination = form.destination
         /\ transfer.quantity = form.quantity
    /\ transfer.receivedQty \in 0 .. transfer.quantity
    /\ transfer.status = "REQUESTED" => transfer.receivedQty = 0
    /\ transfer.status = "RECEIVED" <=> transfer.receivedQty = transfer.quantity

TransfersInv ==
    /\ StockTypeOK
    /\ Unlocked
    /\ \A t \in Txn : Phase(t)
    /\ \A x \in Transfer : committed[x] = Absent \/ Sound(committed[x])
    /\ \A b \in Bucket : WithinStock(committed[b])

-----------------------------------------------------------------------------
\* Rows of transfers and of buckets are different rows, and neither is Absent.
LEMMA TransferRows ==
  /\ \A x \in Transfer : x \in Row /\ x \notin Bucket
  /\ \A b \in Bucket : b \in Row
  /\ \A form \in TransferForms : /\ NewTransfer(form) \in TransferRow
                                 /\ Sound(NewTransfer(form))
                                 /\ form.quantity \in Nat \ {0}
                                 /\ Source(form) \in Bucket
                                 /\ Destination(form) \in Bucket
                                 /\ Source(form) # Destination(form)
  <1> USE StockAssumption, TransfersAssumption
  <1>1. /\ \A x \in Transfer : x \in Row /\ x \notin Bucket
        /\ \A b \in Bucket : b \in Row
    BY DEF Row
  <1>2. ASSUME NEW form \in TransferForms
        PROVE  /\ NewTransfer(form) \in TransferRow
               /\ form.quantity \in Nat \ {0}
               /\ Source(form) \in Bucket
               /\ Destination(form) \in Bucket
               /\ Source(form) # Destination(form)
    BY DEF NewTransfer, TransferRow, TransferStatus, Source, Destination, Bucket
  <1>3. ASSUME NEW form \in TransferForms
        PROVE  Sound(NewTransfer(form))
    <2>1. /\ NewTransfer(form).status = "REQUESTED"
          /\ NewTransfer(form).batch = form.batch
          /\ NewTransfer(form).source = form.source
          /\ NewTransfer(form).destination = form.destination
          /\ NewTransfer(form).quantity = form.quantity
          /\ NewTransfer(form).receivedQty = 0
      BY DEF NewTransfer
    <2>2. /\ NewTransfer(form) \in TransferRow
          /\ form.quantity \in Nat \ {0}
      BY <1>2
    <2> QED
      BY <2>1, <2>2 DEF Sound
  <1> QED
    BY <1>1, <1>2, <1>3

\* The places of a committed transfer.
LEMMA SoundPlaces ==
  ASSUME NEW transfer, Sound(transfer)
  PROVE  /\ Source(transfer) \in Bucket /\ Destination(transfer) \in Bucket
         /\ Source(transfer) # Destination(transfer)
         /\ transfer.quantity \in Nat \ {0} /\ transfer.receivedQty \in Nat
         /\ transfer.receivedQty <= transfer.quantity
         /\ OutstandingQty(transfer) \in Nat
  BY TransferRows DEF Sound, Source, Destination, OutstandingQty, TransferRow

\* Nothing has happened at the start.
LEMMA InitTransfers == Init => TransfersInv
  <1> SUFFICES ASSUME Init PROVE TransfersInv
    OBVIOUS
  <1> USE StockAssumption, TransfersAssumption
  <1>1. Idle \in TxRow
    BY DEF Idle, TxRow
  <1>2. StockTypeOK
    <2>1. \A b \in Bucket : committed[b] \in BucketRow \cup {Absent}
      BY DEF Init, Row, BucketRow
    <2> QED
      BY <1>1, <2>1 DEF Init, StockTypeOK
  <1>3. Unlocked
    BY DEF Init, Unlocked
  <1>4. \A t \in Txn : Phase(t)
    BY DEF Init, Phase, Resting, Holds, IsIdle, Idle
  <1>5. \A x \in Transfer : committed[x] = Absent
    BY TransferRows DEF Init
  <1>6. \A b \in Bucket : WithinStock(committed[b])
    <2>1. ASSUME NEW b \in Bucket
          PROVE  WithinStock(InitialStock[b])
      BY InitialQuantities DEF WithinStock
    <2> QED
      BY <2>1, TransferRows DEF Init
  <1> QED
    BY <1>2, <1>3, <1>4, <1>5, <1>6 DEF TransfersInv

\* What a step leaves alone keeps its phase.
LEMMA OthersKeepPhase ==
  ASSUME TransfersInv, NEW t \in Txn, LeavesAlone(t), NEW u \in Txn \ {t}
  PROVE  Phase(u)'
  <1>1. /\ tx'[u] = tx[u] /\ pending'[u] = pending[u] /\ Holds(u)' = Holds(u)
        /\ \A r \in Holds(u) : /\ working'[r] = working[r]
                               /\ committed'[r] = committed[r]
    BY DEF LeavesAlone
  <1>2. CASE Resting(u)
    BY <1>1, <1>2 DEF Phase, Resting, IsIdle
  <1>3. CASE \E x \in Transfer :
                /\ tx[u].doc = x
                /\ \/ Requesting(u, x) \/ Dispatching(u, x) \/ Dispatched(u, x)
                   \/ Receiving(u, x) \/ Stocking(u, x) \/ Received(u, x)
    <2>1. PICK x \in Transfer :
             /\ tx[u].doc = x
             /\ \/ Requesting(u, x) \/ Dispatching(u, x) \/ Dispatched(u, x)
                \/ Receiving(u, x) \/ Stocking(u, x) \/ Received(u, x)
      BY <1>3
    <2>2. x \in Holds(u) /\ committed'[x] = committed[x] /\ working'[x] = working[x]
      BY <1>1, <2>1 DEF Requesting, Dispatching, Dispatched, Receiving, Stocking,
                        Received
    <2>3. Requesting(u, x) => Requesting(u, x)'
      BY <1>1, <2>2 DEF Requesting
    <2>4. Dispatching(u, x) => Dispatching(u, x)'
      BY <1>1, <2>2 DEF Dispatching
    <2>5. Dispatched(u, x) => Dispatched(u, x)'
      BY <1>1, <2>2 DEF Dispatched
    <2>6. Receiving(u, x) => Receiving(u, x)'
      BY <1>1, <2>2 DEF Receiving, Outstanding
    <2>7. Stocking(u, x) => Stocking(u, x)'
      BY <1>1, <2>2 DEF Stocking, Outstanding
    <2>8. Received(u, x) => Received(u, x)'
      BY <1>1, <2>2 DEF Received, Outstanding
    <2> QED
      BY <1>1, <2>1, <2>3, <2>4, <2>5, <2>6, <2>7, <2>8 DEF Phase
  <1> QED
    BY <1>2, <1>3 DEF TransfersInv, Phase

\* A statement of t that commits and rolls back nothing keeps the invariant if
\* it disturbs nobody and t comes to a phase.
LEMMA StatementKeeps ==
  ASSUME TransfersInv, NEW t \in Txn, NEW S \in SUBSET Row, Touches(t, S),
         StockTypeOK', Phase(t)'
  PROVE  TransfersInv'
  <1>1. LeavesAlone(t) /\ Unlocked'
    BY TouchesAlone DEF TransfersInv
  <1>2. \A u \in Txn : Phase(u)'
    BY <1>1, OthersKeepPhase
  <1>3. UNCHANGED committed
    BY DEF Touches
  <1> QED
    BY <1>1, <1>2, <1>3 DEF TransfersInv

\* What a transaction that is about to begin holds.
LEMMA Begins ==
  ASSUME TransfersInv, NEW t \in Txn, IsIdle(t), NEW x \in Transfer, CanLock(t, x)
  PROVE  /\ Holds(t) = {} /\ pending[t] = {}
         /\ holder[x] = None /\ working[x] = committed[x]
  <1>1. Resting(t)
    BY DEF TransfersInv, Phase, IsIdle, Requesting, Dispatching, Dispatched,
           Receiving, Stocking, Received
  <1> QED
    BY <1>1, TransferRows DEF Resting, Holds, CanLock, TransfersInv, Unlocked

\* The INSERT of a new transfer.
LEMMA CreateKeeps ==
  ASSUME TransfersInv, NEW t \in Txn, NEW x \in Transfer,
         NEW form \in TransferForms, CreateTransfer(t, x, form)
  PROVE  TransfersInv'
  <1> USE StockAssumption, TransfersAssumption
  <1>1. /\ IsIdle(t) /\ CanLock(t, x) /\ committed[x] = Absent
        /\ holder' = [holder EXCEPT ![x] = t]
        /\ working' = [working EXCEPT ![x] = NewTransfer(form)]
        /\ UNCHANGED <<committed, ledger, pending>>
        /\ Proceed(t, "create", "commit", x, 0)
    BY DEF CreateTransfer, InsertDocument, NewTransfer
  <1>2. /\ Holds(t) = {} /\ pending[t] = {}
        /\ x \in Row /\ x \notin Bucket
    BY <1>1, Begins, TransferRows
  <1>3. StockTypeOK
    BY DEF TransfersInv
  <1>4. /\ tx' \in [Txn -> TxRow] /\ (\A u \in Txn \ {t} : tx'[u] = tx[u])
        /\ tx'[t].doc = x /\ tx'[t].step = "commit"
    BY <1>1, <1>3, Proceeds DEF StockTypeOK
  <1>5. Touches(t, {x})
    BY <1>1, <1>2, <1>3, <1>4 DEF Touches, StockTypeOK
  <1>6. StockTypeOK'
    BY <1>1, <1>2, <1>3, <1>4 DEF StockTypeOK
  <1>7. Phase(t)'
    <2>1. Holds(t)' = {x}
      BY <1>2, <1>5, TouchesAlone DEF TransfersInv
    <2>2. working'[x] = NewTransfer(form)
      BY <1>1, <1>2, <1>3 DEF StockTypeOK
    <2>3. Requesting(t, x)'
      BY <1>1, <1>2, <1>4, <2>1, <2>2 DEF Requesting
    <2> QED
      BY <1>4, <2>3 DEF Phase
  <1> QED
    BY <1>2, <1>5, <1>6, <1>7, StatementKeeps

\* SELECT ... FOR UPDATE on a transfer that is there.
LEMMA LockKeeps ==
  ASSUME TransfersInv, NEW t \in Txn, NEW x \in Transfer, LockDocument(t, x),
         tx' \in [Txn -> TxRow], \A u \in Txn \ {t} : tx'[u] = tx[u]
  PROVE  /\ Touches(t, {x}) /\ StockTypeOK'
         /\ Holds(t)' = {x} /\ pending'[t] = {}
         /\ Sound(committed[x]) /\ committed[x] # Absent
         /\ committed' = committed /\ working'[x] = committed[x]
  <1> USE StockAssumption, TransfersAssumption
  <1>1. /\ IsIdle(t) /\ CanLock(t, x) /\ committed[x] # Absent
        /\ holder' = [holder EXCEPT ![x] = t]
        /\ UNCHANGED <<committed, working, ledger, pending>>
    BY DEF LockDocument
  <1>2. /\ Holds(t) = {} /\ pending[t] = {} /\ working[x] = committed[x]
        /\ x \in Row
    BY <1>1, Begins, TransferRows
  <1>3. StockTypeOK
    BY DEF TransfersInv
  <1>4. Touches(t, {x})
    BY <1>1, <1>2, <1>3 DEF Touches, StockTypeOK
  <1>5. StockTypeOK'
    BY <1>1, <1>2, <1>3 DEF StockTypeOK
  <1>6. Holds(t)' = {x}
    BY <1>2, <1>4, TouchesAlone DEF TransfersInv
  <1> QED
    BY <1>1, <1>2, <1>4, <1>5, <1>6 DEF TransfersInv

\* The beginning of a dispatch.
LEMMA BeginDispatchKeeps ==
  ASSUME TransfersInv, NEW t \in Txn, NEW x \in Transfer, BeginDispatch(t, x)
  PROVE  TransfersInv'
  <1> USE StockAssumption, TransfersAssumption
  <1>1. /\ LockDocument(t, x) /\ committed[x].status = "REQUESTED"
        /\ Proceed(t, "dispatch", "debit", x, 0)
    BY DEF BeginDispatch
  <1>2. /\ tx' \in [Txn -> TxRow] /\ (\A u \in Txn \ {t} : tx'[u] = tx[u])
        /\ tx'[t].doc = x /\ tx'[t].step = "debit"
    BY <1>1, Proceeds DEF TransfersInv, StockTypeOK
  <1>3. /\ Touches(t, {x}) /\ StockTypeOK'
        /\ Holds(t)' = {x} /\ pending'[t] = {}
        /\ committed[x] # Absent
        /\ committed' = committed /\ working'[x] = committed[x]
    BY <1>1, <1>2, LockKeeps
  <1>4. Dispatching(t, x)'
    BY <1>1, <1>2, <1>3 DEF Dispatching
  <1>5. Phase(t)'
    BY <1>2, <1>4 DEF Phase
  <1> QED
    BY <1>3, <1>5, StatementKeeps, TransferRows

\* The beginning of a receipt.
LEMMA BeginReceiveKeeps ==
  ASSUME TransfersInv, NEW t \in Txn, NEW x \in Transfer, committed[x] # Absent,
         NEW q \in 1 .. committed[x].quantity, BeginReceive(t, x, q)
  PROVE  TransfersInv'
  <1> USE StockAssumption, TransfersAssumption
  <1> DEFINE row == [Idle EXCEPT !.op = "receive", !.step = "seek", !.doc = x,
                                 !.remaining = q]
  <1>1. /\ LockDocument(t, x) /\ committed[x].status = "DISPATCHED"
        /\ q <= OutstandingQty(committed[x])
        /\ tx' = [tx EXCEPT ![t] = row]
    BY DEF BeginReceive
  <1>2. Sound(committed[x]) /\ q \in Nat \ {0} /\ OutstandingQty(committed[x]) \in Nat
    BY SoundPlaces DEF TransfersInv
  <1>3. row \in TxRow /\ row.step = "seek" /\ row.doc = x /\ row.remaining = q
    <2>1. /\ row.op = "receive" /\ row.step = "seek" /\ row.doc = x /\ row.line = 0
          /\ row.remaining = q /\ row.todo = {}
          /\ row = [f \in {"op", "step", "doc", "line", "remaining", "todo"} |->
                      row[f]]
      BY DEF Idle
    <2> HIDE DEF row
    <2> QED
      BY <1>2, <2>1 DEF TxRow
  <1> HIDE DEF row
  <1>4. /\ tx' \in [Txn -> TxRow] /\ (\A u \in Txn \ {t} : tx'[u] = tx[u])
        /\ tx'[t] = row
    BY <1>1, <1>3 DEF TransfersInv, StockTypeOK
  <1>5. /\ Touches(t, {x}) /\ StockTypeOK'
        /\ Holds(t)' = {x} /\ pending'[t] = {}
        /\ committed[x] # Absent
        /\ committed' = committed /\ working'[x] = committed[x]
    BY <1>1, <1>4, LockKeeps
  <1>6. Receiving(t, x)'
    BY <1>1, <1>2, <1>3, <1>4, <1>5 DEF Receiving, Outstanding
  <1>7. Phase(t)'
    BY <1>3, <1>4, <1>6 DEF Phase
  <1> QED
    BY <1>5, <1>7, StatementKeeps, TransferRows

\* A transaction about the transfer x is at one of its phases.
LEMMA PhaseOf ==
  ASSUME TransfersInv, NEW t \in Txn, tx[t].doc \in Transfer, ~IsIdle(t)
  PROVE  LET x == tx[t].doc
         IN  \/ Requesting(t, x) \/ Dispatching(t, x) \/ Dispatched(t, x)
             \/ Receiving(t, x) \/ Stocking(t, x) \/ Received(t, x)
  BY DEF TransfersInv, Phase, Resting

\* A phase says that the transfer was raised, and is sound.
LEMMA RaisedIsSound ==
  ASSUME TransfersInv, NEW x \in Transfer, committed[x] # Absent
  PROVE  /\ Sound(committed[x])
         /\ Source(committed[x]) \in Bucket /\ Destination(committed[x]) \in Bucket
         /\ Source(committed[x]) # Destination(committed[x])
         /\ Source(committed[x]) # x /\ Destination(committed[x]) # x
         /\ committed[x].quantity \in Nat \ {0} /\ committed[x].receivedQty \in Nat
         /\ committed[x].receivedQty <= committed[x].quantity
         /\ OutstandingQty(committed[x]) \in Nat
  BY SoundPlaces, TransferRows DEF TransfersInv

\* A bucket that t sees and can lock: its newest version is the committed one.
LEMMA SeenBucket ==
  ASSUME TransfersInv, NEW t \in Txn, NEW b \in Bucket, b \notin Holds(t)
  PROVE  /\ View(t, b) = committed[b]
         /\ CanLock(t, b) => holder[b] = None /\ working[b] = committed[b]
         /\ b \in Row
  BY TransferRows DEF View, CanLock, Holds, TransfersInv, Unlocked

\* The goods leave the source, which had them.
LEMMA DebitKeeps ==
  ASSUME TransfersInv, NEW t \in Txn, tx[t].doc \in Transfer, DebitSource(t)
  PROVE  TransfersInv'
  <1> USE StockAssumption, TransfersAssumption
  <1> DEFINE x == tx[t].doc
             b == Source(committed[x])
             q == committed[x].quantity
  <1>1. Dispatching(t, x)
    BY PhaseOf DEF DebitSource, LockSource, IsIdle, Requesting, Dispatched,
                   Receiving, Stocking, Received
  <1>2. /\ pending[t] = {} /\ Holds(t) = {x} /\ committed[x] # Absent
        /\ committed[x].status = "REQUESTED" /\ working[x] = committed[x]
    BY <1>1 DEF Dispatching
  <1>3. /\ b \in Bucket /\ b # x /\ q \in Nat \ {0} /\ x \in Row /\ x \notin Bucket
        /\ b \in Row
    BY <1>2, RaisedIsSound, TransferRows
  <1>4. /\ View(t, b) # Absent => CanLock(t, b)
        /\ AvailableQty(View(t, b)) >= q
        /\ holder' = [holder EXCEPT ![b] = t]
        /\ working' = [working EXCEPT ![b] = Moved(@, -q, 0)]
        /\ Book(t, <<"TRANSFER", x, "DISPATCH">>, b, -q, 0, x)
        /\ tx' = [tx EXCEPT ![t].step = "sent"]
        /\ UNCHANGED <<committed, ledger>>
    BY <1>2 DEF DebitSource, LockSource
  <1>5. StockTypeOK
    BY DEF TransfersInv
  <1> HIDE DEF b, q
  <1>6. View(t, b) = committed[b]
    BY <1>2, <1>3, SeenBucket
  <1>7. committed[b] \in BucketRow
    BY <1>3, <1>4, <1>5, <1>6 DEF StockTypeOK, AvailableQty, Quantities
  <1>8. /\ holder[b] = None /\ working[b] = committed[b] /\ CanLock(t, b)
    BY <1>2, <1>3, <1>4, <1>6, <1>7, SeenBucket
  <1>9. /\ working'[b] = Moved(committed[b], -q, 0)
        /\ working'[x] = committed[x]
        /\ \A r \in Row \ {x, b} : working'[r] = working[r]
        /\ DOMAIN working' = Row
    BY <1>2, <1>3, <1>4, <1>5, <1>8 DEF StockTypeOK
  <1>10. /\ tx' \in [Txn -> TxRow] /\ (\A u \in Txn \ {t} : tx'[u] = tx[u])
         /\ tx'[t].doc = x /\ tx'[t].step = "sent"
    <2>1. tx \in [Txn -> TxRow]
      BY <1>5 DEF StockTypeOK
    <2> QED
      BY <1>4, <2>1 DEF TxRow
  <1>11. /\ pending'[t] = {Departure(x, committed[x])}
         /\ \A u \in Txn \ {t} : pending'[u] = pending[u]
         /\ DOMAIN pending' = Txn
    BY <1>2, <1>4, <1>5 DEF Book, Departure, StockTypeOK, b, q
  <1>12. Touches(t, {b})
    BY <1>2, <1>3, <1>4, <1>5, <1>8, <1>9, <1>10, <1>11
       DEF Touches, StockTypeOK, Holds
  <1>13. Moved(committed[b], -q, 0) \in BucketRow
    BY <1>3, <1>7 DEF Moved, BucketRow
  <1>14. StockTypeOK'
    <2>1. \A c \in Bucket : working'[c] \in BucketRow \cup {Absent}
      BY <1>3, <1>5, <1>9, <1>13 DEF StockTypeOK, Row
    <2> QED
      BY <1>4, <1>3, <1>5, <1>9, <1>10, <1>11, <2>1 DEF StockTypeOK
  <1>15. Dispatched(t, x)'
    <2>1. Holds(t)' = {x, b}
      BY <1>2, <1>3, <1>12, TouchesAlone DEF TransfersInv
    <2>2. Quantities(committed[b]) = committed[b]
      BY <1>7 DEF Quantities
    <2> QED
      BY <1>2, <1>4, <1>6, <1>9, <1>10, <1>11, <2>1, <2>2 DEF Dispatched, b, q
  <1>16. Phase(t)'
    BY <1>10, <1>15 DEF Phase
  <1> QED
    BY <1>3, <1>12, <1>14, <1>16, StatementKeeps

\* The destination's row is read, and locked if it is there.
LEMMA SeekKeeps ==
  ASSUME TransfersInv, NEW t \in Txn, tx[t].doc \in Transfer,
         SeekBucket(t, Destination(working[tx[t].doc]))
  PROVE  TransfersInv'
  <1> USE StockAssumption, TransfersAssumption
  <1> DEFINE x == tx[t].doc
             b == Destination(committed[x])
  <1>1. Receiving(t, x)
    BY PhaseOf DEF SeekBucket, IsIdle, Requesting, Dispatching, Dispatched,
                   Stocking, Received
  <1>2. /\ pending[t] = {} /\ Holds(t) = {x} /\ Outstanding(t, x)
        /\ committed[x] # Absent /\ working[x] = committed[x]
    BY <1>1 DEF Receiving, Outstanding
  <1>3. /\ b \in Bucket /\ b # x /\ x \in Row /\ b \in Row
    BY <1>2, RaisedIsSound, TransferRows
  <1>4. SeekBucket(t, b)
    BY <1>2
  <1>5. StockTypeOK
    BY DEF TransfersInv
  <1>6. tx \in [Txn -> TxRow]
    BY <1>5 DEF StockTypeOK
  <1> HIDE DEF b
  <1>7. CASE /\ View(t, b) = Absent
             /\ tx' = [tx EXCEPT ![t].step = "insert"]
             /\ UNCHANGED <<committed, working, holder, ledger, pending>>
    <2>1. /\ tx' \in [Txn -> TxRow] /\ (\A u \in Txn \ {t} : tx'[u] = tx[u])
          /\ tx'[t].doc = x /\ tx'[t].step = "insert"
          /\ tx'[t].remaining = tx[t].remaining
      BY <1>6, <1>7 DEF TxRow
    <2>2. Touches(t, {}) /\ StockTypeOK'
      BY <1>5, <1>7, <2>1 DEF Touches, StockTypeOK
    <2>3. Receiving(t, x)'
      BY <1>1, <1>7, <2>1 DEF Receiving, Outstanding, Holds
    <2>4. Phase(t)'
      BY <2>1, <2>3 DEF Phase
    <2> QED
      BY <2>2, <2>4, StatementKeeps
  <1>8. CASE /\ View(t, b) # Absent /\ CanLock(t, b)
             /\ holder' = [holder EXCEPT ![b] = t]
             /\ tx' = [tx EXCEPT ![t].step = "book"]
             /\ UNCHANGED <<committed, working, ledger, pending>>
    <2>1. /\ tx' \in [Txn -> TxRow] /\ (\A u \in Txn \ {t} : tx'[u] = tx[u])
          /\ tx'[t].doc = x /\ tx'[t].step = "book"
          /\ tx'[t].remaining = tx[t].remaining
      BY <1>6, <1>8 DEF TxRow
    <2>2. Touches(t, {b}) /\ StockTypeOK'
      BY <1>3, <1>5, <1>8, <2>1 DEF Touches, StockTypeOK
    <2>3. committed[b] # Absent /\ working[b] = committed[b]
      BY <1>2, <1>3, <1>8, SeenBucket
    <2>4. Holds(t)' = {x, b}
      BY <1>2, <1>3, <2>2, TouchesAlone DEF TransfersInv
    <2>5. Stocking(t, x)'
      BY <1>2, <1>8, <2>1, <2>3, <2>4
         DEF Stocking, Outstanding, Quantities, b
    <2>6. Phase(t)'
      BY <2>1, <2>5 DEF Phase
    <2> QED
      BY <1>3, <2>2, <2>6, StatementKeeps
  <1> QED
    BY <1>4, <1>7, <1>8 DEF SeekBucket

\* The destination's row is created.
LEMMA InsertKeeps ==
  ASSUME TransfersInv, NEW t \in Txn, tx[t].doc \in Transfer,
         InsertBucket(t, Destination(working[tx[t].doc]))
  PROVE  TransfersInv'
  <1> USE StockAssumption, TransfersAssumption
  <1> DEFINE x == tx[t].doc
             b == Destination(committed[x])
  <1>1. Receiving(t, x)
    BY PhaseOf DEF InsertBucket, IsIdle, Requesting, Dispatching, Dispatched,
                   Stocking, Received
  <1>2. /\ pending[t] = {} /\ Holds(t) = {x} /\ Outstanding(t, x)
        /\ committed[x] # Absent /\ working[x] = committed[x]
    BY <1>1 DEF Receiving, Outstanding
  <1>3. /\ b \in Bucket /\ b # x /\ x \in Row /\ b \in Row
    BY <1>2, RaisedIsSound, TransferRows
  <1>4. /\ CanLock(t, b) /\ working[b] = Absent
        /\ holder' = [holder EXCEPT ![b] = t]
        /\ working' = [working EXCEPT ![b] = EmptyBucket]
        /\ tx' = [tx EXCEPT ![t].step = "book"]
        /\ UNCHANGED <<committed, ledger, pending>>
    BY <1>2 DEF InsertBucket
  <1>5. StockTypeOK
    BY DEF TransfersInv
  <1>6. tx \in [Txn -> TxRow]
    BY <1>5 DEF StockTypeOK
  <1> HIDE DEF b
  <1>7. /\ tx' \in [Txn -> TxRow] /\ (\A u \in Txn \ {t} : tx'[u] = tx[u])
        /\ tx'[t].doc = x /\ tx'[t].step = "book"
        /\ tx'[t].remaining = tx[t].remaining
    BY <1>4, <1>6 DEF TxRow
  <1>8. EmptyBucket \in BucketRow
    BY DEF EmptyBucket, BucketRow
  <1>9. Touches(t, {b}) /\ StockTypeOK'
    BY <1>3, <1>4, <1>5, <1>7, <1>8 DEF Touches, StockTypeOK
  <1>10. committed[b] = Absent
    BY <1>2, <1>3, <1>4, SeenBucket
  <1>11. Holds(t)' = {x, b}
    BY <1>2, <1>3, <1>9, TouchesAlone DEF TransfersInv
  <1>12. working'[b] = EmptyBucket /\ working'[x] = committed[x]
    BY <1>2, <1>3, <1>4, <1>5 DEF StockTypeOK
  <1>13. Stocking(t, x)'
    BY <1>2, <1>4, <1>7, <1>10, <1>11, <1>12
       DEF Stocking, Outstanding, Quantities, EmptyBucket, b
  <1>14. Phase(t)'
    BY <1>7, <1>13 DEF Phase
  <1> QED
    BY <1>3, <1>9, <1>14, StatementKeeps

\* The goods reach the destination.
LEMMA CreditKeeps ==
  ASSUME TransfersInv, NEW t \in Txn, tx[t].doc \in Transfer, CreditDestination(t)
  PROVE  TransfersInv'
  <1> USE StockAssumption, TransfersAssumption
  <1> DEFINE x == tx[t].doc
             b == Destination(committed[x])
             q == tx[t].remaining
  <1>1. Stocking(t, x)
    BY PhaseOf DEF CreditDestination, IsIdle, Requesting, Dispatching, Dispatched,
                   Receiving, Received
  <1>2. /\ pending[t] = {} /\ Holds(t) = {x, b} /\ Outstanding(t, x)
        /\ committed[x] # Absent /\ working[x] = committed[x]
        /\ working[b] = Quantities(committed[b])
    BY <1>1 DEF Stocking, Outstanding
  <1>3. /\ b \in Bucket /\ b # x /\ x \in Row /\ b \in Row /\ x \notin Bucket
        /\ q \in Nat \ {0}
        /\ committed[x] \in TransferRow
    BY <1>2, RaisedIsSound, TransferRows DEF Outstanding, Sound
  <1>4. /\ working' = [working EXCEPT ![b] = Moved(@, q, 0)]
        /\ Book(t, <<"TRANSFER", x, "RECEIVE", working[x].receivedQty + q>>,
                b, q, 0, x)
        /\ tx' = [tx EXCEPT ![t].step = "stored"]
        /\ UNCHANGED <<committed, holder, ledger>>
    BY <1>2 DEF CreditDestination
  <1>5. StockTypeOK
    BY DEF TransfersInv
  <1>6. tx \in [Txn -> TxRow]
    BY <1>5 DEF StockTypeOK
  <1>7. /\ tx' \in [Txn -> TxRow] /\ (\A u \in Txn \ {t} : tx'[u] = tx[u])
        /\ tx'[t].doc = x /\ tx'[t].step = "stored"
        /\ tx'[t].remaining = q
    BY <1>4, <1>6 DEF TxRow
  <1>8. /\ pending'[t] = {Arrival(x, committed[x], q)}
        /\ \A u \in Txn \ {t} : pending'[u] = pending[u]
        /\ DOMAIN pending' = Txn
    BY <1>2, <1>4, <1>5 DEF Book, Arrival, StockTypeOK
  <1> HIDE DEF b, q
  <1>9. Quantities(committed[b]) \in BucketRow
    BY <1>3, <1>5, QuantitiesType DEF StockTypeOK
  <1>10. Moved(Quantities(committed[b]), q, 0) \in BucketRow
    BY <1>3, <1>9 DEF Moved, BucketRow
  <1>11. /\ working'[b] = Moved(Quantities(committed[b]), q, 0)
         /\ working'[x] = committed[x]
         /\ \A r \in Row \ {x, b} : working'[r] = working[r]
         /\ DOMAIN working' = Row
    BY <1>2, <1>3, <1>4, <1>5 DEF StockTypeOK
  <1>12. Touches(t, {})
    BY <1>2, <1>4, <1>5, <1>7, <1>8, <1>11 DEF Touches, StockTypeOK
  <1>13. StockTypeOK'
    <2>1. \A c \in Bucket : working'[c] \in BucketRow \cup {Absent}
      BY <1>3, <1>5, <1>10, <1>11 DEF StockTypeOK, Row
    <2> QED
      BY <1>4, <1>5, <1>7, <1>8, <1>11, <2>1 DEF StockTypeOK
  <1>14. Received(t, x)'
    <2>1. Holds(t)' = {x, b}
      BY <1>2, <1>4 DEF Holds
    <2> QED
      BY <1>2, <1>4, <1>7, <1>8, <1>11, <2>1 DEF Received, Outstanding, b, q
  <1>15. Phase(t)'
    BY <1>7, <1>14 DEF Phase
  <1> QED
    BY <1>12, <1>13, <1>15, StatementKeeps

\* A transfer is saved after its movement: the last statement before COMMIT.
LEMMA SaveKeeps ==
  ASSUME TransfersInv, NEW t \in Txn, tx[t].doc \in Transfer,
         SaveDispatched(t) \/ SaveReceived(t)
  PROVE  TransfersInv'
  <1> USE StockAssumption, TransfersAssumption
  <1> PICK x \in Transfer : tx[t].doc = x
    OBVIOUS
  <1>1. /\ SaveDispatched(t) => Dispatched(t, x) /\ tx[t].step = "sent"
        /\ SaveReceived(t) => Received(t, x) /\ tx[t].step = "stored"
    BY PhaseOf DEF SaveDispatched, SaveReceived, IsIdle, Requesting, Dispatching,
                   Dispatched, Receiving, Stocking, Received
  <1>2. /\ x \in Row /\ x \notin Bucket /\ x \in Holds(t)
        /\ working[x] = committed[x]
    BY <1>1, TransferRows DEF Dispatched, Received
  <1>3. /\ tx' = [tx EXCEPT ![t].step = "commit"]
        /\ UNCHANGED <<committed, holder, ledger, pending>>
    BY DEF SaveDispatched, SaveReceived
  <1>4. StockTypeOK
    BY DEF TransfersInv
  <1>5. tx \in [Txn -> TxRow]
    BY <1>4 DEF StockTypeOK
  <1>6. /\ tx' \in [Txn -> TxRow] /\ (\A u \in Txn \ {t} : tx'[u] = tx[u])
        /\ tx'[t].doc = x /\ tx'[t].step = "commit"
        /\ tx'[t].remaining = tx[t].remaining
    BY <1>3, <1>5 DEF TxRow
  <1>7. /\ SaveDispatched(t) => working'[x] = Gone(committed[x])
        /\ SaveReceived(t) => working'[x] = Arrived(committed[x], tx[t].remaining)
        /\ \A r \in Row \ {x} : working'[r] = working[r]
        /\ DOMAIN working' = Row
    BY <1>2, <1>4 DEF SaveDispatched, SaveReceived, StockTypeOK, Gone
  <1>8. Holds(t)' = Holds(t)
    BY <1>3 DEF Holds
  <1>9. Touches(t, {})
    BY <1>2, <1>3, <1>4, <1>6, <1>7 DEF Touches, StockTypeOK
  <1>10. StockTypeOK'
    <2>1. \A c \in Bucket : working'[c] \in BucketRow \cup {Absent}
      BY <1>2, <1>4, <1>7 DEF StockTypeOK, Row
    <2> QED
      BY <1>3, <1>4, <1>6, <1>7, <2>1 DEF StockTypeOK
  <1>11. CASE SaveDispatched(t)
    <2>1. /\ Source(committed[x]) \in Bucket /\ Source(committed[x]) # x
      BY <1>1, <1>11, RaisedIsSound DEF Dispatched
    <2>2. Dispatched(t, x)'
      BY <1>1, <1>3, <1>6, <1>7, <1>8, <1>11, <2>1, TransferRows DEF Dispatched
    <2>3. Phase(t)'
      BY <1>6, <2>2 DEF Phase
    <2> QED
      BY <1>9, <1>10, <2>3, StatementKeeps
  <1>12. CASE SaveReceived(t)
    <2>1. /\ Destination(committed[x]) \in Bucket /\ Destination(committed[x]) # x
      BY <1>1, <1>12, RaisedIsSound DEF Received, Outstanding
    <2>2. Received(t, x)'
      BY <1>1, <1>3, <1>6, <1>7, <1>8, <1>12, <2>1, TransferRows
         DEF Received, Outstanding
    <2>3. Phase(t)'
      BY <1>6, <2>2 DEF Phase
    <2> QED
      BY <1>9, <1>10, <2>3, StatementKeeps
  <1> QED
    BY <1>11, <1>12

\* A transaction that is rolled back has done nothing.
LEMMA RollbackKeeps ==
  ASSUME TransfersInv, NEW t \in Txn, Rollback(t)
  PROVE  TransfersInv' /\ UNCHANGED <<committed, ledger>>
  <1>1. /\ StockTypeOK' /\ Unlocked' /\ LeavesAlone(t)
        /\ Holds(t)' = {} /\ pending'[t] = {} /\ tx'[t] = Idle
        /\ UNCHANGED <<committed, ledger>>
    BY RollbackEffect DEF TransfersInv
  <1>2. Phase(t)'
    BY <1>1 DEF Phase, Resting, IsIdle, Idle
  <1>3. \A u \in Txn : Phase(u)'
    BY <1>1, <1>2, OthersKeepPhase
  <1> QED
    BY <1>1, <1>3 DEF TransfersInv

-----------------------------------------------------------------------------
(* What a COMMIT makes of the committed state: a transfer is raised, its   *)
(* goods leave, or some of them arrive.                                    *)

\* Only the rows of S are committed in another version.
CommitsOnly(S) ==
    /\ DOMAIN committed' = Row
    /\ \A r \in Row \ S : committed'[r] = committed[r]

IsRaised(x, form) ==
    /\ committed[x] = Absent
    /\ CommitsOnly({x})
    /\ committed'[x] = NewTransfer(form)
    /\ ledger' = ledger

HasLeft(x) ==
    LET b == Source(committed[x])
        q == committed[x].quantity
    IN  /\ committed[x] # Absent /\ committed[x].status = "REQUESTED"
        /\ AvailableQty(committed[b]) >= q
        /\ CommitsOnly({x, b})
        /\ committed'[x] = Gone(committed[x])
        /\ committed'[b] = Moved(Quantities(committed[b]), -q, 0)
        /\ ledger' = ledger \cup {Departure(x, committed[x])}

HasArrived(x, q) ==
    LET b == Destination(committed[x])
    IN  /\ committed[x] # Absent /\ committed[x].status = "DISPATCHED"
        /\ q \in 1 .. OutstandingQty(committed[x])
        /\ CommitsOnly({x, b})
        /\ committed'[x] = Arrived(committed[x], q)
        /\ committed'[b] = Moved(Quantities(committed[b]), q, 0)
        /\ ledger' = ledger \cup {Arrival(x, committed[x], q)}

Outcome ==
    \E x \in Transfer :
      \/ \E form \in TransferForms : IsRaised(x, form)
      \/ HasLeft(x)
      \/ \E q \in Nat : HasArrived(x, q)

\* The commit of a transfer is one of these three steps, and keeps every phase.
LEMMA CommitOutcome ==
  ASSUME TransfersInv, NEW t \in Txn, tx[t].doc \in Transfer, TransferCommit(t)
  PROVE  /\ Outcome
         /\ StockTypeOK' /\ Unlocked'
         /\ \A u \in Txn : Phase(u)'
  <1> DEFINE x == tx[t].doc
  <1>1. /\ StockTypeOK' /\ Unlocked' /\ LeavesAlone(t)
        /\ Holds(t)' = {} /\ pending'[t] = {} /\ tx'[t] = Idle
        /\ \A r \in Row : committed'[r] = IF r \in Holds(t) THEN working[r]
                                                            ELSE committed[r]
        /\ ledger' = ledger \cup pending[t]
        /\ DOMAIN committed' = Row
    BY CommitEffect DEF TransfersInv, TransferCommit, StockTypeOK
  <1>2. \A u \in Txn : Phase(u)'
    <2>1. Phase(t)'
      BY <1>1 DEF Phase, Resting, IsIdle, Idle
    <2> QED
      BY <1>1, <2>1, OthersKeepPhase
  <1>3. x \in Transfer /\ x \in Row /\ tx[t].step = "commit"
    BY TransferRows DEF TransferCommit
  <1> HIDE DEF x
  <1>4. CASE Requesting(t, x)
    <2>1. PICK form \in TransferForms : working[x] = NewTransfer(form)
      BY <1>4 DEF Requesting
    <2>2. IsRaised(x, form)
      BY <1>1, <1>3, <1>4, <2>1 DEF Requesting, IsRaised, CommitsOnly
    <2> QED
      BY <1>1, <1>2, <1>3, <2>2 DEF Outcome
  <1>5. CASE Dispatched(t, x)
    <2>1. Source(committed[x]) \in Row
      BY <1>3, <1>5, RaisedIsSound, TransferRows DEF Dispatched
    <2>2. HasLeft(x)
      BY <1>1, <1>3, <1>5, <2>1 DEF Dispatched, HasLeft, CommitsOnly
    <2> QED
      BY <1>1, <1>2, <1>3, <2>2 DEF Outcome
  <1>6. CASE Received(t, x)
    <2>1. Destination(committed[x]) \in Row /\ OutstandingQty(committed[x]) \in Nat
      BY <1>3, <1>6, RaisedIsSound, TransferRows DEF Received, Outstanding
    <2>2. HasArrived(x, tx[t].remaining) /\ tx[t].remaining \in Nat
      BY <1>1, <1>3, <1>6, <2>1 DEF Received, Outstanding, HasArrived, CommitsOnly
    <2> QED
      BY <1>1, <1>2, <1>3, <2>2 DEF Outcome
  <1>7. Requesting(t, x) \/ Dispatched(t, x) \/ Received(t, x)
    BY <1>3, PhaseOf DEF x, TransferCommit, IsIdle, Dispatching, Receiving, Stocking
  <1> QED
    BY <1>4, <1>5, <1>6, <1>7

\* A step of the system commits one of the three, or nothing.
LEMMA StepOutcome ==
  ASSUME TransfersInv, [TransfersNext]_vars
  PROVE  /\ UNCHANGED <<committed, ledger>> \/ Outcome
         /\ UNCHANGED <<committed, ledger>> => TransfersInv'
         /\ StockTypeOK' /\ Unlocked' /\ \A u \in Txn : Phase(u)'
  <1>1. CASE UNCHANGED vars
    BY <1>1 DEF vars, TransfersInv, StockTypeOK, Unlocked, Phase, Resting, IsIdle,
                Holds, Requesting, Dispatching, Dispatched, Receiving, Stocking,
                Received, Outstanding
  <1>2. ASSUME NEW t \in Txn, TransferStep(t) \/ Lost(t)
        PROVE  /\ UNCHANGED <<committed, ledger>> \/ Outcome
               /\ UNCHANGED <<committed, ledger>> => TransfersInv'
               /\ StockTypeOK' /\ Unlocked' /\ \A u \in Txn : Phase(u)'
    <2>1. CASE TransferRequest(t)
      <3>1. PICK x \in Transfer :
              \/ \E form \in TransferForms : CreateTransfer(t, x, form)
              \/ BeginDispatch(t, x)
              \/ /\ committed[x] # Absent
                 /\ \E q \in 1 .. committed[x].quantity : BeginReceive(t, x, q)
        BY <2>1 DEF TransferRequest
      <3>2. TransfersInv'
        BY <3>1, CreateKeeps, BeginDispatchKeeps, BeginReceiveKeeps
      <3>3. UNCHANGED <<committed, ledger>>
        BY <3>1 DEF CreateTransfer, InsertDocument, BeginDispatch, BeginReceive,
                    LockDocument
      <3> QED
        BY <3>2, <3>3 DEF TransfersInv
    <2>2. CASE Rollback(t)
      BY <2>2, RollbackKeeps DEF TransfersInv
    <2>3. CASE tx[t].doc \in Transfer /\ DebitSource(t)
      BY <2>3, DebitKeeps DEF TransfersInv, DebitSource
    <2>4. CASE tx[t].doc \in Transfer /\ SeekBucket(t, Destination(working[tx[t].doc]))
      BY <2>4, SeekKeeps DEF TransfersInv, SeekBucket
    <2>5. CASE tx[t].doc \in Transfer /\ InsertBucket(t, Destination(working[tx[t].doc]))
      BY <2>5, InsertKeeps DEF TransfersInv, InsertBucket
    <2>6. CASE tx[t].doc \in Transfer /\ CreditDestination(t)
      BY <2>6, CreditKeeps DEF TransfersInv, CreditDestination
    <2>7. CASE tx[t].doc \in Transfer /\ TransferCommit(t)
      BY <2>7, CommitOutcome DEF TransfersInv
    <2>8. CASE tx[t].doc \in Transfer /\ (SaveDispatched(t) \/ SaveReceived(t))
      BY <2>8, SaveKeeps DEF TransfersInv, SaveDispatched, SaveReceived
    <2> QED
      BY <1>2, <2>1, <2>2, <2>3, <2>4, <2>5, <2>6, <2>7, <2>8
         DEF TransferStep, TransferProgress, RefuseDispatch, InsertBucketRaced, Lost
  <1> QED
    BY <1>1, <1>2 DEF TransfersNext

\* What the two updates of a transfer's row leave of it.
LEMMA RowAfter ==
  ASSUME NEW transfer, Sound(transfer)
  PROVE  /\ transfer.status = "REQUESTED" =>
              /\ Sound(Gone(transfer))
              /\ Gone(transfer) = [status |-> "DISPATCHED", batch |-> transfer.batch,
                     source |-> transfer.source,
                     destination |-> transfer.destination,
                     quantity |-> transfer.quantity, receivedQty |-> 0]
              /\ Source(Gone(transfer)) = Source(transfer)
              /\ Destination(Gone(transfer)) = Destination(transfer)
         /\ \A q \in 1 .. OutstandingQty(transfer) :
              transfer.status = "DISPATCHED" =>
              /\ Sound(Arrived(transfer, q))
              /\ Arrived(transfer, q).status \in {"DISPATCHED", "RECEIVED"}
              /\ Arrived(transfer, q).quantity = transfer.quantity
              /\ Arrived(transfer, q).batch = transfer.batch
              /\ Arrived(transfer, q).receivedQty = transfer.receivedQty + q
              /\ Source(Arrived(transfer, q)) = Source(transfer)
              /\ Destination(Arrived(transfer, q)) = Destination(transfer)
  <1>1. transfer \in TransferRow
    BY DEF Sound
  <1>2. PICK form \in TransferForms :
          /\ transfer.batch = form.batch /\ transfer.source = form.source
          /\ transfer.destination = form.destination
          /\ transfer.quantity = form.quantity
    BY DEF Sound
  <1>3. ASSUME transfer.status = "REQUESTED"
        PROVE  /\ Sound(Gone(transfer))
               /\ Gone(transfer) = [status |-> "DISPATCHED", batch |-> transfer.batch,
                     source |-> transfer.source,
                     destination |-> transfer.destination,
                     quantity |-> transfer.quantity, receivedQty |-> 0]
               /\ Source(Gone(transfer)) = Source(transfer)
               /\ Destination(Gone(transfer)) = Destination(transfer)
    <2>1. transfer.receivedQty = 0 /\ transfer.quantity \in Nat \ {0}
      BY <1>1, <1>3 DEF Sound, TransferRow
    <2>2. Gone(transfer) = [status |-> "DISPATCHED", batch |-> transfer.batch,
                     source |-> transfer.source,
                     destination |-> transfer.destination,
                     quantity |-> transfer.quantity, receivedQty |-> 0]
      BY <1>1, <2>1 DEF Gone, TransferRow
    <2>3. Gone(transfer) \in TransferRow
      BY <1>1, <2>2 DEF TransferRow, TransferStatus
    <2>4. Sound(Gone(transfer))
      BY <1>2, <2>1, <2>2, <2>3 DEF Sound
    <2> QED
      BY <2>2, <2>4 DEF Source, Destination
  <1>4. ASSUME NEW q \in 1 .. OutstandingQty(transfer),
               transfer.status = "DISPATCHED"
        PROVE  /\ Sound(Arrived(transfer, q))
               /\ Arrived(transfer, q).status \in {"DISPATCHED", "RECEIVED"}
               /\ Arrived(transfer, q).quantity = transfer.quantity
               /\ Arrived(transfer, q).batch = transfer.batch
               /\ Arrived(transfer, q).receivedQty = transfer.receivedQty + q
               /\ Source(Arrived(transfer, q)) = Source(transfer)
               /\ Destination(Arrived(transfer, q)) = Destination(transfer)
    <2>1. /\ transfer.receivedQty \in Nat /\ transfer.quantity \in Nat \ {0}
          /\ q \in Nat \ {0} /\ transfer.receivedQty + q \in 1 .. transfer.quantity
      BY SoundPlaces DEF OutstandingQty
    <2>2. Arrived(transfer, q) =
            [status |-> IF transfer.receivedQty + q = transfer.quantity
                        THEN "RECEIVED" ELSE "DISPATCHED",
             batch |-> transfer.batch, source |-> transfer.source,
             destination |-> transfer.destination,
             quantity |-> transfer.quantity,
             receivedQty |-> transfer.receivedQty + q]
      <3>1. transfer = [status |-> "DISPATCHED", batch |-> transfer.batch,
                        source |-> transfer.source,
                        destination |-> transfer.destination,
                        quantity |-> transfer.quantity,
                        receivedQty |-> transfer.receivedQty]
        BY <1>1, <1>4 DEF TransferRow
      <3> DEFINE after == transfer.receivedQty + q
                 status == IF after = transfer.quantity THEN "RECEIVED"
                                                        ELSE "DISPATCHED"
      <3>2. Arrived(transfer, q) =
              [transfer EXCEPT !.receivedQty = after, !.status = status]
        BY <1>4 DEF Arrived
      <3> HIDE DEF after, status
      <3>3. Arrived(transfer, q) =
              [status |-> status, batch |-> transfer.batch,
               source |-> transfer.source, destination |-> transfer.destination,
               quantity |-> transfer.quantity, receivedQty |-> after]
        BY <3>1, <3>2
      <3> QED
        BY <3>3 DEF after, status
    <2>3. Arrived(transfer, q) \in TransferRow
      BY <1>1, <2>1, <2>2 DEF TransferRow, TransferStatus
    <2>4. Sound(Arrived(transfer, q))
      BY <1>2, <2>1, <2>2, <2>3 DEF Sound
    <2> QED
      BY <2>2, <2>4 DEF Source, Destination
  <1> QED
    BY <1>3, <1>4

\* The buckets after a commit are within their CHECK constraint.
LEMMA StockAfter ==
  ASSUME NEW row \in BucketRow \cup {Absent}, WithinStock(row), NEW q \in Nat
  PROVE  /\ Moved(Quantities(row), q, 0) \in BucketRow
         /\ WithinStock(Moved(Quantities(row), q, 0))
         /\ AvailableQty(row) >= q =>
              /\ Moved(Quantities(row), -q, 0) \in BucketRow
              /\ WithinStock(Moved(Quantities(row), -q, 0))
  <1> DEFINE old == Quantities(row)
  <1>1. old \in BucketRow /\ old.physicalQty \in Int /\ old.reservedQty \in Int
    BY QuantitiesType DEF BucketRow
  <1>2. /\ 0 <= old.reservedQty /\ old.reservedQty <= old.physicalQty
        /\ AvailableQty(row) = old.physicalQty - old.reservedQty
    BY DEF WithinStock, AvailableQty
  <1>3. ASSUME NEW d \in Int
        PROVE  /\ Moved(old, d, 0) \in BucketRow
               /\ Quantities(Moved(old, d, 0)).physicalQty = old.physicalQty + d
               /\ Quantities(Moved(old, d, 0)).reservedQty = old.reservedQty
    <2>1. Moved(old, d, 0) \in BucketRow
      BY <1>1 DEF Moved, BucketRow
    <2>2. Quantities(Moved(old, d, 0)) = Moved(old, d, 0)
      BY <2>1, StockAssumption DEF Quantities
    <2> QED
      BY <1>1, <2>1, <2>2 DEF Moved
  <1>4. WithinStock(Moved(old, q, 0))
    <2>1. /\ Quantities(Moved(old, q, 0)).physicalQty = old.physicalQty + q
          /\ Quantities(Moved(old, q, 0)).reservedQty = old.reservedQty
      BY <1>3
    <2> HIDE DEF old
    <2> QED
      BY <1>1, <1>2, <2>1 DEF WithinStock
  <1>5. AvailableQty(row) >= q => WithinStock(Moved(old, -q, 0))
    <2>1. /\ -q \in Int
          /\ Quantities(Moved(old, -q, 0)).physicalQty = old.physicalQty + (-q)
          /\ Quantities(Moved(old, -q, 0)).reservedQty = old.reservedQty
      BY <1>3
    <2> HIDE DEF old
    <2> QED
      BY <1>1, <1>2, <2>1 DEF WithinStock
  <1> QED
    BY <1>3, <1>4, <1>5

\* Moved adds to the physical quantity.
LEMMA StockMoved ==
  ASSUME NEW row \in BucketRow \cup {Absent}, NEW n \in Int
  PROVE  Quantities(Moved(Quantities(row), n, 0)).physicalQty
           = Quantities(row).physicalQty + n
  <1>1. Quantities(row) \in BucketRow
    BY QuantitiesType
  <1>2. Moved(Quantities(row), n, 0) \in BucketRow
    BY <1>1 DEF Moved, BucketRow
  <1>3. Quantities(Moved(Quantities(row), n, 0)) = Moved(Quantities(row), n, 0)
    BY <1>2, StockAssumption DEF Quantities
  <1> QED
    BY <1>3 DEF Moved

\* Each of the three steps leads to sound transfers and buckets.
LEMMA OutcomeSound ==
  ASSUME TransfersInv, Outcome
  PROVE  /\ \A x \in Transfer : committed'[x] = Absent \/ Sound(committed'[x])
         /\ \A b \in Bucket : WithinStock(committed'[b])
  <1>1. PICK x \in Transfer :
          \/ \E form \in TransferForms : IsRaised(x, form)
          \/ HasLeft(x)
          \/ \E q \in Nat : HasArrived(x, q)
    BY DEF Outcome
  <1>2. ASSUME NEW form \in TransferForms, IsRaised(x, form)
        PROVE  /\ \A y \in Transfer : committed'[y] = Absent \/ Sound(committed'[y])
               /\ \A b \in Bucket : WithinStock(committed'[b])
    BY <1>2, TransferRows DEF IsRaised, CommitsOnly, TransfersInv
  <1>3. CASE HasLeft(x)
    <2> DEFINE b == Source(committed[x])
               q == committed[x].quantity
    <2>1. /\ Sound(committed[x]) /\ b \in Bucket /\ q \in Nat /\ b # x
          /\ committed[x].status = "REQUESTED" /\ AvailableQty(committed[b]) >= q
          /\ CommitsOnly({x, b}) /\ committed'[x] = Gone(committed[x])
          /\ committed'[b] = Moved(Quantities(committed[b]), -q, 0)
      BY <1>3, RaisedIsSound DEF HasLeft
    <2> HIDE DEF b, q
    <2>2. Sound(committed'[x])
      BY <2>1, RowAfter
    <2>3. WithinStock(committed'[b])
      <3>1. committed[b] \in BucketRow \cup {Absent} /\ WithinStock(committed[b])
        BY <2>1 DEF TransfersInv, StockTypeOK
      <3> QED
        BY <2>1, <3>1, StockAfter
    <2> QED
      BY <2>1, <2>2, <2>3, TransferRows DEF CommitsOnly, TransfersInv
  <1>4. ASSUME NEW q \in Nat, HasArrived(x, q)
        PROVE  /\ \A y \in Transfer : committed'[y] = Absent \/ Sound(committed'[y])
               /\ \A b \in Bucket : WithinStock(committed'[b])
    <2> DEFINE b == Destination(committed[x])
    <2>1. /\ Sound(committed[x]) /\ b \in Bucket /\ b # x
          /\ committed[x].status = "DISPATCHED"
          /\ q \in 1 .. OutstandingQty(committed[x])
          /\ CommitsOnly({x, b}) /\ committed'[x] = Arrived(committed[x], q)
          /\ committed'[b] = Moved(Quantities(committed[b]), q, 0)
      BY <1>4, RaisedIsSound DEF HasArrived
    <2> HIDE DEF b
    <2>2. Sound(committed'[x])
      BY <2>1, RowAfter
    <2>3. WithinStock(committed'[b])
      <3>1. committed[b] \in BucketRow \cup {Absent} /\ WithinStock(committed[b])
        BY <2>1 DEF TransfersInv, StockTypeOK
      <3> QED
        BY <2>1, <3>1, StockAfter
    <2> QED
      BY <2>1, <2>2, <2>3, TransferRows DEF CommitsOnly, TransfersInv
  <1> QED
    BY <1>1, <1>2, <1>3, <1>4

\* Every step of the system keeps the invariant.
LEMMA StepTransfers == TransfersInv /\ [TransfersNext]_vars => TransfersInv'
  BY StepOutcome, OutcomeSound DEF TransfersInv

\* The statements of every transaction, and what it holds at each of them, are as
\* described in every reachable state.
THEOREM TransfersAreOrderly == TransfersSpec => []TransfersInv
  BY InitTransfers, StepTransfers, PTL DEF TransfersSpec

-----------------------------------------------------------------------------
\* What the variables hold has its type.
THEOREM TransfersTypes == TransfersSpec => []TransfersTypeOK
  <1>1. ASSUME TransfersInv, NEW x \in Transfer
        PROVE  /\ committed[x] \in TransferRow \cup {Absent}
               /\ working[x] \in TransferRow \cup {Absent}
    <2>1. committed[x] \in TransferRow \cup {Absent}
      BY <1>1 DEF TransfersInv, Sound
    <2>2. CASE holder[x] = None
      BY <1>1, <2>1, <2>2, TransferRows DEF TransfersInv, Unlocked
    <2>3. CASE holder[x] # None
      <3>1. PICK t \in Txn : x \in Holds(t)
        BY <1>1, <2>3, TransferRows DEF TransfersInv, StockTypeOK, Holds
      <3>2. PICK y \in Transfer :
              /\ tx[t].doc = y
              /\ \/ Requesting(t, y) \/ Dispatching(t, y) \/ Dispatched(t, y)
                 \/ Receiving(t, y) \/ Stocking(t, y) \/ Received(t, y)
        BY <1>1, <3>1 DEF TransfersInv, Phase, Resting
      <3>3. CASE Requesting(t, y)
        <4>1. x = y /\ \E form \in TransferForms : working[y] = NewTransfer(form)
          BY <3>1, <3>3 DEF Requesting
        <4> QED
          BY <2>1, <4>1, TransferRows
      <3>4. CASE ~Requesting(t, y)
        <4>1. committed[y] # Absent
          BY <3>2, <3>4 DEF Dispatching, Dispatched, Receiving, Stocking, Received,
                            Outstanding
        <4>2. x = y /\ Sound(committed[x])
          BY <1>1, <3>1, <3>2, <3>4, <4>1, RaisedIsSound, TransferRows
             DEF Dispatching, Dispatched, Receiving, Stocking, Received
        <4>3. \/ working[x] = committed[x]
              \/ working[x] = Gone(committed[x]) /\ committed[x].status = "REQUESTED"
              \/ /\ working[x] = Arrived(committed[x], tx[t].remaining)
                 /\ committed[x].status = "DISPATCHED"
                 /\ tx[t].remaining \in 1 .. OutstandingQty(committed[x])
          BY <3>2, <3>4, <4>2 DEF Dispatching, Dispatched, Receiving, Stocking,
                                  Received, Outstanding
        <4>4. Sound(working[x])
          BY <4>2, <4>3, RowAfter
        <4> QED
          BY <2>1, <4>4 DEF Sound
      <3> QED
        BY <2>1, <3>3, <3>4
    <2> QED
      BY <2>1, <2>2, <2>3
  <1>2. TransfersInv => TransfersTypeOK
    BY <1>1 DEF TransfersInv, TransfersTypeOK
  <1> QED
    BY <1>2, TransfersAreOrderly, PTL

\* Nobody ships a unit that is not there, in what is committed or in what a
\* running dispatch has written.
THEOREM TransfersNeverOversold == TransfersSpec => []NeverOversold
  <1>1. ASSUME TransfersInv, NEW b \in Bucket
        PROVE  WithinStock(committed[b]) /\ WithinStock(working[b])
    <2>1. WithinStock(committed[b]) /\ committed[b] \in BucketRow \cup {Absent}
      BY <1>1 DEF TransfersInv, StockTypeOK
    <2>2. CASE holder[b] = None
      BY <1>1, <2>1, <2>2, TransferRows DEF TransfersInv, Unlocked
    <2>3. CASE holder[b] # None
      <3>1. PICK t \in Txn : b \in Holds(t)
        BY <1>1, <2>3, TransferRows DEF TransfersInv, StockTypeOK, Holds
      <3>2. PICK x \in Transfer :
              /\ tx[t].doc = x
              /\ \/ Requesting(t, x) \/ Dispatching(t, x) \/ Dispatched(t, x)
                 \/ Receiving(t, x) \/ Stocking(t, x) \/ Received(t, x)
        BY <1>1, <3>1 DEF TransfersInv, Phase, Resting
      <3>3. b # x
        BY TransferRows
      <3>4. CASE Dispatched(t, x)
        <4>1. /\ committed[x].quantity \in Nat
              /\ AvailableQty(committed[b]) >= committed[x].quantity
              /\ working[b] = Moved(Quantities(committed[b]), -committed[x].quantity, 0)
          BY <1>1, <3>1, <3>3, <3>4, RaisedIsSound DEF Dispatched
        <4> QED
          BY <2>1, <4>1, StockAfter
      <3>5. CASE Stocking(t, x)
        <4>1. working[b] = Quantities(committed[b])
          BY <3>1, <3>3, <3>5 DEF Stocking
        <4>2. Quantities(working[b]) = Quantities(committed[b])
          <5>1. Quantities(committed[b]) \in BucketRow
            BY <2>1, QuantitiesType
          <5>2. working[b] # Absent
            BY <4>1, <5>1, StockAssumption
          <5> QED
            BY <4>1, <5>2 DEF Quantities
        <4> QED
          BY <2>1, <4>2 DEF WithinStock
      <3>6. CASE Received(t, x)
        <4>1. /\ tx[t].remaining \in Nat
              /\ working[b] = Moved(Quantities(committed[b]), tx[t].remaining, 0)
          BY <1>1, <3>1, <3>3, <3>6, RaisedIsSound DEF Received, Outstanding
        <4> QED
          BY <2>1, <4>1, StockAfter
      <3> QED
        BY <3>1, <3>2, <3>3, <3>4, <3>5, <3>6
           DEF Requesting, Dispatching, Receiving
    <2> QED
      BY <2>1, <2>2, <2>3
  <1>2. TransfersInv => NeverOversold
    BY <1>1 DEF NeverOversold
  <1> QED
    BY <1>2, TransfersAreOrderly, PTL

-----------------------------------------------------------------------------
(* The refinement: what is committed is a behaviour of TransitBook.        *)

\* How a committed transfer is seen.
LEMMA SeenTransfer ==
  ASSUME NEW transfer, Sound(transfer)
  PROVE  /\ TransferSeen(transfer) =
               [form |-> Route(transfer), left |-> transfer.status # "REQUESTED",
                arrived |-> transfer.receivedQty]
         /\ TransferSeen(transfer) # Absent
         /\ Route(transfer).from = Source(transfer)
         /\ Route(transfer).to = Destination(transfer)
         /\ Route(transfer).quantity = transfer.quantity
  <1>1. transfer # Absent
    BY TransfersAssumption DEF Sound
  <1>2. /\ Source(transfer) \in Bucket /\ Destination(transfer) \in Bucket
        /\ transfer.quantity \in Nat /\ transfer.receivedQty \in Int
    BY SoundPlaces
  <1>3. TransferSeen(transfer) =
          [form |-> Route(transfer), left |-> transfer.status # "REQUESTED",
           arrived |-> transfer.receivedQty]
    BY <1>1 DEF TransferSeen
  <1>4. Route(transfer) \in [from : Bucket, to : Bucket, quantity : Nat]
    BY <1>2 DEF Route
  <1>5. (transfer.status # "REQUESTED") \in BOOLEAN
    OBVIOUS
  <1>6. TransferSeen(transfer) \in [form : [from : Bucket, to : Bucket, quantity : Nat],
                                    left : BOOLEAN, arrived : Int]
    BY <1>2, <1>3, <1>4, <1>5
  <1> QED
    BY <1>3, <1>6, RaisedAssumption DEF Route

\* The book opens with the initial stock and no transfer.
LEMMA InitRefines == Init => Transit!Init
  <1> SUFFICES ASSUME Init PROVE Transit!Init
    OBVIOUS
  <1>1. \A b \in Bucket : committed[b] = InitialStock[b]
    BY TransferRows DEF Init
  <1>2. \A x \in Transfer : committed[x] = Absent
    BY TransferRows DEF Init
  <1>3. Stocked(committed) = Stocked(InitialStock)
    BY <1>1 DEF Stocked
  <1> QED
    BY <1>2, <1>3 DEF Transit!Init, TransferSeen

\* A transfer is raised.
LEMMA RaisedRefines ==
  ASSUME TransfersInv, NEW x \in Transfer, NEW form \in TransferForms,
         IsRaised(x, form)
  PROVE  Transit!Next
  <1>1. /\ committed[x] = Absent /\ committed'[x] = NewTransfer(form)
        /\ \A y \in Transfer \ {x} : committed'[y] = committed[y]
        /\ \A b \in Bucket : committed'[b] = committed[b]
    BY TransferRows DEF IsRaised, CommitsOnly
  <1>2. Stocked(committed') = Stocked(committed)
    BY <1>1 DEF Stocked
  <1>3. TransferSeen(committed'[x]) =
          [form |-> Route(form), left |-> FALSE, arrived |-> 0]
    <2>1. Sound(NewTransfer(form))
      BY TransferRows
    <2>2. /\ Route(NewTransfer(form)) = Route(form)
          /\ (NewTransfer(form).status # "REQUESTED") = FALSE
          /\ NewTransfer(form).receivedQty = 0
      BY DEF Route, NewTransfer, Source, Destination
    <2> QED
      BY <1>1, <2>1, <2>2, SeenTransfer
  <1>4. Transit!Raise(x, Route(form))
    <2>1. x \notin Transit!Raised
      BY <1>1 DEF Transit!Raised, TransferSeen
    <2>2. [y \in Transfer |-> TransferSeen(committed'[y])] =
            [[y \in Transfer |-> TransferSeen(committed[y])] EXCEPT ![x] =
               [form |-> Route(form), left |-> FALSE, arrived |-> 0]]
      BY <1>1, <1>3
    <2> QED
      BY <1>2, <2>1, <2>2 DEF Transit!Raise
  <1> QED
    BY <1>4 DEF Transit!Next

\* The goods of a transfer leave their source, where they are.
LEMMA LeftRefines ==
  ASSUME TransfersInv, NEW x \in Transfer, HasLeft(x)
  PROVE  Transit!Next
  <1> DEFINE old == committed[x]
             b == Source(old)
             q == old.quantity
             seen == TransferSeen(old)
             map == [y \in Transfer |-> TransferSeen(committed[y])]
             stock == Stocked(committed)
  <1>1. /\ Sound(old) /\ b \in Bucket /\ q \in Nat \ {0} /\ b # x
        /\ old # Absent /\ old.status = "REQUESTED"
        /\ AvailableQty(committed[b]) >= q
        /\ CommitsOnly({x, b})
        /\ committed'[x] = Gone(old)
        /\ committed'[b] = Moved(Quantities(committed[b]), -q, 0)
    BY RaisedIsSound DEF HasLeft
  <1> HIDE DEF old, b, q
  <1>2. /\ \A y \in Transfer \ {x} : committed'[y] = committed[y]
        /\ \A c \in Bucket \ {b} : committed'[c] = committed[c]
    BY <1>1, TransferRows DEF CommitsOnly
  <1>3. /\ Quantities(committed'[b]).physicalQty = stock[b] - q
        /\ stock[b] >= q
    <2>1. committed[b] \in BucketRow \cup {Absent} /\ WithinStock(committed[b])
      BY <1>1 DEF TransfersInv, StockTypeOK
    <2>2. /\ Quantities(committed[b]) \in BucketRow
          /\ stock[b] = Quantities(committed[b]).physicalQty
      BY <1>1, <2>1, QuantitiesType DEF Stocked
    <2>3. committed'[b] \in BucketRow /\ Quantities(committed'[b]) = committed'[b]
      BY <1>1, <2>1, StockAfter, StockAssumption DEF Quantities
    <2>4. committed'[b].physicalQty = Quantities(committed[b]).physicalQty + (-q)
      BY <1>1, <2>2 DEF Moved
    <2>5. Quantities(committed[b]).physicalQty >= q
      BY <1>1, <2>1, <2>2 DEF AvailableQty, WithinStock, BucketRow
    <2> QED
      BY <1>1, <2>2, <2>3, <2>4, <2>5 DEF BucketRow
  <1>4. Stocked(committed') = [stock EXCEPT ![b] = @ - q]
    BY <1>1, <1>2, <1>3 DEF Stocked
  <1>5. /\ seen = [form |-> Route(old), left |-> FALSE, arrived |-> old.receivedQty]
        /\ seen # Absent /\ seen.form.from = b /\ seen.form.quantity = q
        /\ seen.left = FALSE
    <2>1. (old.status # "REQUESTED") = FALSE
      BY <1>1
    <2>2. /\ seen = [form |-> Route(old), left |-> FALSE,
                     arrived |-> old.receivedQty]
          /\ seen # Absent
          /\ Route(old).from = b /\ Route(old).quantity = q
      BY <1>1, <2>1, SeenTransfer DEF b, q
    <2> HIDE DEF seen
    <2> QED
      BY <2>2
  <1>6. TransferSeen(committed'[x]) =
          [form |-> Route(old), left |-> TRUE, arrived |-> old.receivedQty]
    <2>1. /\ Sound(Gone(old))
          /\ Route(Gone(old)) = Route(old)
          /\ (Gone(old).status # "REQUESTED") = TRUE
          /\ Gone(old).receivedQty = old.receivedQty
      BY <1>1, RowAfter DEF Route, Sound
    <2> QED
      BY <1>1, <2>1, SeenTransfer
  <1>7. Transit!Leave(x)
    <2>1. map[x] = seen
      BY DEF old
    <2>2. x \in Transit!Raised
      BY <1>5, <2>1 DEF Transit!Raised, old
    <2>3. [y \in Transfer |-> TransferSeen(committed'[y])] =
            [map EXCEPT ![x].left = TRUE]
      <3>1. [map[x] EXCEPT !.left = TRUE] =
              [form |-> Route(old), left |-> TRUE, arrived |-> old.receivedQty]
        <4>2. map[x] = [form |-> Route(old), left |-> FALSE,
                        arrived |-> old.receivedQty]
          BY <1>5, <2>1
        <4>3. PICK r, form, arrived, l, t :
                /\ r = map[x] /\ form = Route(old) /\ arrived = old.receivedQty
                /\ l = FALSE /\ t = TRUE
          OBVIOUS
        <4> HIDE DEF map
        <4>4. [r EXCEPT !.left = t] =
                [form |-> form, left |-> t, arrived |-> arrived]
          <5>1. r = [form |-> form, left |-> l, arrived |-> arrived]
            BY <4>2, <4>3
          <5> QED
            BY <5>1
        <4> QED
          BY <4>3, <4>4
      <3> QED
        BY <1>2, <1>6, <3>1
    <2> HIDE DEF seen, map, stock
    <2> QED
      BY <1>3, <1>4, <1>5, <2>1, <2>2, <2>3 DEF Transit!Leave, map, stock
  <1> QED
    BY <1>7 DEF Transit!Next

\* Some of the goods of a transfer arrive, no more than left.
LEMMA ArrivedRefines ==
  ASSUME TransfersInv, NEW x \in Transfer, NEW q \in Nat, HasArrived(x, q)
  PROVE  Transit!Next
  <1> DEFINE old == committed[x]
             b == Destination(old)
             seen == TransferSeen(old)
             map == [y \in Transfer |-> TransferSeen(committed[y])]
             stock == Stocked(committed)
  <1>1. /\ Sound(old) /\ b \in Bucket /\ b # x
        /\ old # Absent /\ old.status = "DISPATCHED"
        /\ q \in 1 .. OutstandingQty(old)
        /\ CommitsOnly({x, b})
        /\ committed'[x] = Arrived(old, q)
        /\ committed'[b] = Moved(Quantities(committed[b]), q, 0)
        /\ old.quantity \in Nat /\ old.receivedQty \in Nat
        /\ OutstandingQty(old) \in Nat
    BY RaisedIsSound DEF HasArrived
  <1> HIDE DEF old, b
  <1>2. /\ \A y \in Transfer \ {x} : committed'[y] = committed[y]
        /\ \A c \in Bucket \ {b} : committed'[c] = committed[c]
    BY <1>1, TransferRows DEF CommitsOnly
  <1>3. Quantities(committed'[b]).physicalQty = stock[b] + q
    <2>1. committed[b] \in BucketRow \cup {Absent} /\ WithinStock(committed[b])
      BY <1>1 DEF TransfersInv, StockTypeOK
    <2>2. /\ Quantities(committed[b]) \in BucketRow
          /\ stock[b] = Quantities(committed[b]).physicalQty
      BY <1>1, <2>1, QuantitiesType DEF Stocked
    <2>3. committed'[b] \in BucketRow /\ Quantities(committed'[b]) = committed'[b]
      BY <1>1, <2>1, StockAfter, StockAssumption DEF Quantities
    <2>4. committed'[b].physicalQty = Quantities(committed[b]).physicalQty + q
      BY <1>1, <2>2 DEF Moved
    <2> QED
      BY <2>2, <2>3, <2>4
  <1>4. Stocked(committed') = [stock EXCEPT ![b] = @ + q]
    BY <1>1, <1>2, <1>3 DEF Stocked
  <1>5. /\ seen = [form |-> Route(old), left |-> TRUE, arrived |-> old.receivedQty]
        /\ seen # Absent /\ seen.form.to = b /\ seen.form.quantity = old.quantity
        /\ seen.left = TRUE /\ seen.arrived = old.receivedQty
    <2>1. (old.status # "REQUESTED") = TRUE
      BY <1>1
    <2>2. /\ seen = [form |-> Route(old), left |-> TRUE,
                     arrived |-> old.receivedQty]
          /\ seen # Absent
          /\ Route(old).to = b /\ Route(old).quantity = old.quantity
      BY <1>1, <2>1, SeenTransfer DEF b
    <2> HIDE DEF seen
    <2> QED
      BY <2>2
  <1>6. TransferSeen(committed'[x]) =
          [form |-> Route(old), left |-> TRUE, arrived |-> old.receivedQty + q]
    <2>1. /\ Sound(Arrived(old, q))
          /\ Route(Arrived(old, q)) = Route(old)
          /\ (Arrived(old, q).status # "REQUESTED") = TRUE
          /\ Arrived(old, q).receivedQty = old.receivedQty + q
      BY <1>1, RowAfter DEF Route
    <2> QED
      BY <1>1, <2>1, SeenTransfer
  <1>7. /\ q \in 1 .. old.quantity
        /\ old.receivedQty + q <= old.quantity
    BY <1>1 DEF OutstandingQty
  <1>8. Transit!Arrive(x, q) /\ x \in Transit!Raised /\ q \in 1 .. map[x].form.quantity
    <2>1. map[x] = seen
      BY DEF old
    <2>2. x \in Transit!Raised
      BY <1>5, <2>1 DEF Transit!Raised, old
    <2>3. [y \in Transfer |-> TransferSeen(committed'[y])] =
            [map EXCEPT ![x].arrived = @ + q]
      <3>1. [map[x] EXCEPT !.arrived = old.receivedQty + q] =
              [form |-> Route(old), left |-> TRUE, arrived |-> old.receivedQty + q]
        <4>1. map[x] = [form |-> Route(old), left |-> TRUE,
                        arrived |-> old.receivedQty]
          BY <1>5, <2>1
        <4>3. PICK r, form, arrived, l, after :
                /\ r = map[x] /\ form = Route(old) /\ arrived = old.receivedQty
                /\ l = TRUE /\ after = old.receivedQty + q
          OBVIOUS
        <4> HIDE DEF map
        <4>4. [r EXCEPT !.arrived = after] =
                [form |-> form, left |-> l, arrived |-> after]
          <5>1. r = [form |-> form, left |-> l, arrived |-> arrived]
            BY <4>1, <4>3
          <5> QED
            BY <5>1
        <4> QED
          BY <4>3, <4>4
      <3>2. map[x].arrived = old.receivedQty
        BY <1>5, <2>1
      <3>3. [map EXCEPT ![x].arrived = @ + q] =
              [map EXCEPT ![x] = [map[x] EXCEPT !.arrived = old.receivedQty + q]]
        BY <3>2
      <3> QED
        BY <1>2, <1>6, <3>1, <3>3
    <2> HIDE DEF seen, map, stock
    <2>4. Transit!Arrive(x, q)
      BY <1>4, <1>5, <1>7, <2>1, <2>2, <2>3 DEF Transit!Arrive, map, stock
    <2> QED
      BY <1>5, <1>7, <2>1, <2>2, <2>4
  <1> QED
    BY <1>8 DEF Transit!Next

\* Every committed step of the transfers is one step of TransitBook: a transfer is
\* raised, its goods leave a place that has them, or some of them arrive.
THEOREM TransfersImplementTransit == TransfersSpec => TransfersAreAtomic
  <1>1. Init => Transit!Init
    BY InitRefines
  <1>2. TransfersInv /\ [TransfersNext]_vars =>
          [Transit!Next]_<<Stocked(committed),
                           [x \in Transfer |-> TransferSeen(committed[x])]>>
    <2> SUFFICES ASSUME TransfersInv, [TransfersNext]_vars
                 PROVE  [Transit!Next]_<<Stocked(committed),
                           [x \in Transfer |-> TransferSeen(committed[x])]>>
      OBVIOUS
    <2>1. CASE UNCHANGED <<committed, ledger>>
      BY <2>1
    <2>2. CASE Outcome
      BY <2>2, RaisedRefines, LeftRefines, ArrivedRefines DEF Outcome
    <2> QED
      BY <2>1, <2>2, StepOutcome
  <1> QED
    BY <1>1, <1>2, TransfersAreOrderly, PTL
       DEF TransfersSpec, TransfersAreAtomic, Transit!Spec

-----------------------------------------------------------------------------
(* The ledger against transfers and buckets.                               *)

\* The rows S holds about the transfer x and the bucket b.
Booked(S, x, b) == {e \in S : e.refId = x /\ e.inventoryId = b}

\* A row of the ledger names a transfer that was raised, and says once that its
\* goods left, or once how many of them had arrived by then.
Recorded(e) ==
    LET x == e.refId
    IN  /\ x \in Transfer /\ committed[x] # Absent
        /\ \/ /\ e.idempotencyKey = <<"TRANSFER", x, "DISPATCH">>
              /\ committed[x].status # "REQUESTED"
           \/ \E n \in 1 .. committed[x].receivedQty :
                e.idempotencyKey = <<"TRANSFER", x, "RECEIVE", n>>

\* The sums of the rows of a transfer.
Accounted(x) ==
    LET transfer == committed[x]
    IN  /\ PhysicalSum(Booked(ledger, x, Source(transfer))) =
             IF transfer.status = "REQUESTED" THEN 0 ELSE -transfer.quantity
        /\ PhysicalSum(Booked(ledger, x, Destination(transfer))) =
             transfer.receivedQty

TransferBooks ==
    /\ Entries(ledger)
    /\ \A e \in ledger : Recorded(e)
    /\ \A d, e \in ledger : d.idempotencyKey = e.idempotencyKey => d = e
    /\ \A b \in Bucket : Explains(At(ledger, b), InitialStock[b], committed[b])
    /\ \A x \in Transfer : committed[x] # Absent => Accounted(x)

\* One more row in the sums over the rows of a bucket.
LEMMA OneMoreAt ==
  ASSUME NEW S, Entries(S), NEW e, IsEntry(e), e \notin S, NEW b
  PROVE  /\ e.inventoryId = b =>
              /\ PhysicalSum(At(S \cup {e}, b)) = PhysicalSum(At(S, b)) + e.physicalDelta
              /\ ReservedSum(At(S \cup {e}, b)) = ReservedSum(At(S, b)) + e.reservedDelta
         /\ e.inventoryId # b => At(S \cup {e}, b) = At(S, b)
         /\ PhysicalSum(At(S, b)) \in Int /\ ReservedSum(At(S, b)) \in Int
  <1>1. Entries(At(S, b)) /\ e \notin At(S, b)
    BY RowsAt DEF At
  <1>2. e.inventoryId = b => At(S \cup {e}, b) = At(S, b) \cup {e}
    BY DEF At
  <1>3. e.inventoryId # b => At(S \cup {e}, b) = At(S, b)
    BY DEF At
  <1> QED
    BY <1>1, <1>2, <1>3, LedgerSums

\* One more row in the sum over the rows of a transfer and a bucket.
LEMMA OneMoreBooked ==
  ASSUME NEW S, Entries(S), NEW e, IsEntry(e), e \notin S, NEW b, NEW x
  PROVE  /\ e.inventoryId = b /\ e.refId = x =>
              PhysicalSum(Booked(S \cup {e}, x, b))
                = PhysicalSum(Booked(S, x, b)) + e.physicalDelta
         /\ e.inventoryId # b \/ e.refId # x =>
              Booked(S \cup {e}, x, b) = Booked(S, x, b)
  <1>1. Entries(Booked(S, x, b)) /\ e \notin Booked(S, x, b)
    <2>1. Booked(S, x, b) \subseteq S
      BY DEF Booked
    <2> QED
      BY <2>1, FS_Subset DEF Entries, Booked
  <1>2. e.inventoryId = b /\ e.refId = x =>
          Booked(S \cup {e}, x, b) = Booked(S, x, b) \cup {e}
    BY DEF Booked
  <1>3. e.inventoryId # b \/ e.refId # x =>
          Booked(S \cup {e}, x, b) = Booked(S, x, b)
    BY DEF Booked
  <1> QED
    BY <1>1, <1>2, <1>3, LedgerSums

\* A row that tells of one more movement of the transfer x, of d units at b.
Tells(e, x, b, d) ==
    /\ e.refId = x /\ e.inventoryId = b
    /\ e.physicalDelta = d /\ e.reservedDelta = 0

\* Adding such a row, whose key is new, while b gains d units and x is the only
\* transfer that changes.
LEMMA OneMoreMovement ==
  ASSUME TransfersInv, TransferBooks, NEW x \in Transfer, NEW b \in Bucket,
         NEW d \in Int, NEW e, Tells(e, x, b, d),
         \A f \in ledger : f.idempotencyKey # e.idempotencyKey,
         CommitsOnly({x, b}), ledger' = ledger \cup {e},
         committed'[b] = Moved(Quantities(committed[b]), d, 0)
  PROVE  /\ Entries(ledger')
         /\ \A f, g \in ledger' : f.idempotencyKey = g.idempotencyKey => f = g
         /\ \A c \in Bucket : Explains(At(ledger', c), InitialStock[c], committed'[c])
         /\ \A y \in Transfer : \A c \in Bucket :
              PhysicalSum(Booked(ledger', y, c)) =
                IF y = x /\ c = b THEN PhysicalSum(Booked(ledger, y, c)) + d
                                  ELSE PhysicalSum(Booked(ledger, y, c))
         /\ \A y \in Transfer \ {x} : committed'[y] = committed[y]
  <1>1. IsEntry(e) /\ e \notin ledger /\ Entries(ledger)
    BY DEF Tells, IsEntry, TransferBooks
  <1>2. Entries(ledger')
    BY <1>1, FS_AddElement DEF Entries
  <1>3. ASSUME NEW c \in Bucket
        PROVE  Explains(At(ledger', c), InitialStock[c], committed'[c])
    <2>1. Explains(At(ledger, c), InitialStock[c], committed[c])
      BY DEF TransferBooks
    <2>2. CASE c # b
      <3>1. committed'[c] = committed[c]
        BY <2>2, TransferRows DEF CommitsOnly
      <3>2. At(ledger', c) = At(ledger, c)
        BY <1>1, <2>2, OneMoreAt DEF Tells
      <3> QED
        BY <2>1, <3>1, <3>2
    <2>3. CASE c = b
      <3>1. /\ PhysicalSum(At(ledger', b)) = PhysicalSum(At(ledger, b)) + d
            /\ ReservedSum(At(ledger', b)) = ReservedSum(At(ledger, b)) + 0
            /\ PhysicalSum(At(ledger, b)) \in Int /\ ReservedSum(At(ledger, b)) \in Int
        <4>1. e.inventoryId = b /\ e.physicalDelta = d /\ e.reservedDelta = 0
          BY DEF Tells
        <4>2. /\ PhysicalSum(At(ledger \cup {e}, b))
                   = PhysicalSum(At(ledger, b)) + e.physicalDelta
              /\ ReservedSum(At(ledger \cup {e}, b))
                   = ReservedSum(At(ledger, b)) + e.reservedDelta
              /\ PhysicalSum(At(ledger, b)) \in Int
              /\ ReservedSum(At(ledger, b)) \in Int
          BY <1>1, <4>1, OneMoreAt
        <4> QED
          BY <4>1, <4>2
      <3>2. /\ Quantities(committed[b]) \in BucketRow
            /\ Quantities(InitialStock[b]) \in BucketRow
        BY QuantitiesType, InitialQuantities DEF TransfersInv, StockTypeOK
      <3>3. /\ Quantities(committed'[b]).physicalQty
                 = Quantities(committed[b]).physicalQty + d
            /\ Quantities(committed'[b]).reservedQty
                 = Quantities(committed[b]).reservedQty + 0
        <4>1. committed'[b] \in BucketRow
          BY <3>2 DEF Moved, BucketRow
        <4>2. Quantities(committed'[b]) = committed'[b]
          BY <4>1, StockAssumption DEF Quantities
        <4> QED
          BY <4>2 DEF Moved
      <3>4. PICK before, now, after, physical, reserved :
              /\ before = Quantities(InitialStock[b])
              /\ now = Quantities(committed[b]) /\ after = Quantities(committed'[b])
              /\ physical = PhysicalSum(At(ledger, b))
              /\ reserved = ReservedSum(At(ledger, b))
        OBVIOUS
      <3>5. /\ now.physicalQty = before.physicalQty + physical
            /\ now.reservedQty = before.reservedQty + reserved
        BY <2>1, <2>3, <3>4 DEF Explains
      <3>6. /\ after.physicalQty = before.physicalQty + (physical + d)
            /\ after.reservedQty = before.reservedQty + (reserved + 0)
        BY <3>1, <3>2, <3>3, <3>4, <3>5 DEF BucketRow
      <3> QED
        BY <2>3, <3>1, <3>4, <3>6 DEF Explains
    <2> QED
      BY <2>2, <2>3
  <1>4. ASSUME NEW y \in Transfer, NEW c \in Bucket
        PROVE  PhysicalSum(Booked(ledger', y, c)) =
                 IF y = x /\ c = b THEN PhysicalSum(Booked(ledger, y, c)) + d
                                   ELSE PhysicalSum(Booked(ledger, y, c))
    BY <1>1, OneMoreBooked DEF Tells
  <1>5. \A f, g \in ledger' : f.idempotencyKey = g.idempotencyKey => f = g
    BY DEF TransferBooks
  <1>6. \A y \in Transfer \ {x} : committed'[y] = committed[y]
    BY TransferRows DEF CommitsOnly
  <1> QED
    BY <1>2, <1>3, <1>4, <1>5, <1>6

\* Nothing is in the ledger at the start.
LEMMA InitTransferBooks == Init => TransferBooks
  <1> SUFFICES ASSUME Init PROVE TransferBooks
    OBVIOUS
  <1>1. LedgerInv
    BY InitLedger
  <1>2. ledger = {} /\ \A x \in Transfer : committed[x] = Absent
    BY TransferRows DEF Init
  <1> QED
    BY <1>1, <1>2 DEF LedgerInv, EntriesOK, BooksOK, TransferBooks

\* A key that names x is recorded for x.
LEMMA RecordedKey ==
  ASSUME TransferBooks, NEW e \in ledger
  PROVE  e.idempotencyKey[2] = e.refId
  BY DEF TransferBooks, Recorded

\* The three steps keep the ledger true of transfers and buckets.
LEMMA OutcomeBooks ==
  ASSUME TransfersInv, TransferBooks, Outcome
  PROVE  TransferBooks'
  <1>1. PICK x \in Transfer :
          \/ \E form \in TransferForms : IsRaised(x, form)
          \/ HasLeft(x)
          \/ \E q \in Nat : HasArrived(x, q)
    BY DEF Outcome
  <1>2. ASSUME NEW form \in TransferForms, IsRaised(x, form)
        PROVE  TransferBooks'
    <2>1. /\ committed[x] = Absent /\ committed'[x] = NewTransfer(form)
          /\ \A y \in Transfer \ {x} : committed'[y] = committed[y]
          /\ \A b \in Bucket : committed'[b] = committed[b]
          /\ ledger' = ledger
      BY <1>2, TransferRows DEF IsRaised, CommitsOnly
    <2>2. \A e \in ledger : e.refId # x
      BY <2>1 DEF TransferBooks, Recorded
    <2>3. \A e \in ledger : Recorded(e)'
      BY <2>1, <2>2 DEF TransferBooks, Recorded
    <2>4. Accounted(x)'
      <3>1. \A b \in Bucket : Booked(ledger, x, b) = {}
        BY <2>2 DEF Booked
      <3>2. /\ NewTransfer(form).status = "REQUESTED"
            /\ NewTransfer(form).receivedQty = 0
            /\ Source(NewTransfer(form)) \in Bucket
            /\ Destination(NewTransfer(form)) \in Bucket
        BY SoundPlaces, TransferRows DEF NewTransfer
      <3> QED
        BY <2>1, <3>1, <3>2, LedgerSums DEF Accounted
    <2>5. \A y \in Transfer \ {x} : committed'[y] # Absent => Accounted(y)'
      BY <2>1 DEF TransferBooks, Accounted
    <2> QED
      BY <2>1, <2>3, <2>4, <2>5 DEF TransferBooks
  <1>3. CASE HasLeft(x)
    <2> DEFINE b == Source(committed[x])
               q == committed[x].quantity
               e == Departure(x, committed[x])
    <2>1. /\ Sound(committed[x]) /\ b \in Bucket /\ q \in Nat \ {0}
          /\ Destination(committed[x]) \in Bucket /\ b # Destination(committed[x])
          /\ committed[x] # Absent /\ committed[x].status = "REQUESTED"
          /\ CommitsOnly({x, b}) /\ committed'[x] = Gone(committed[x])
          /\ committed'[b] = Moved(Quantities(committed[b]), -q, 0)
          /\ ledger' = ledger \cup {e}
      BY <1>3, RaisedIsSound DEF HasLeft
    <2>2. Tells(e, x, b, -q) /\ e.idempotencyKey = <<"TRANSFER", x, "DISPATCH">>
      BY DEF Departure, Tells
    <2> HIDE DEF b, q, e
    <2>3. \A f \in ledger : f.idempotencyKey # e.idempotencyKey
      <3>1. ASSUME NEW f \in ledger, f.idempotencyKey = e.idempotencyKey
            PROVE  FALSE
        <4>1. f.refId = x
          BY <2>2, <3>1, RecordedKey
        <4>2. committed[x].receivedQty = 0
          BY <2>1 DEF Sound
        <4> QED
          BY <2>1, <4>1, <4>2 DEF TransferBooks, Recorded
      <3> QED
        BY <3>1
    <2>4. -q \in Int
      BY <2>1
    <2>5. /\ Entries(ledger')
          /\ \A f, g \in ledger' : f.idempotencyKey = g.idempotencyKey => f = g
          /\ \A c \in Bucket : Explains(At(ledger', c), InitialStock[c], committed'[c])
          /\ \A y \in Transfer : \A c \in Bucket :
               PhysicalSum(Booked(ledger', y, c)) =
                 IF y = x /\ c = b THEN PhysicalSum(Booked(ledger, y, c)) + (-q)
                                   ELSE PhysicalSum(Booked(ledger, y, c))
          /\ \A y \in Transfer \ {x} : committed'[y] = committed[y]
      BY <2>1, <2>2, <2>3, <2>4, OneMoreMovement
    <2>6. /\ Sound(committed'[x]) /\ committed'[x].status = "DISPATCHED"
          /\ committed'[x].receivedQty = 0 /\ committed[x].receivedQty = 0
          /\ committed'[x].quantity = q
          /\ Source(committed'[x]) = b
          /\ Destination(committed'[x]) = Destination(committed[x])
          /\ committed'[x] # Absent
      BY <2>1, RowAfter, TransfersAssumption DEF Sound, b, q
    <2>7. \A f \in ledger' : Recorded(f)'
      BY <2>1, <2>2, <2>5, <2>6 DEF TransferBooks, Recorded, Tells
    <2>8. Accounted(x)'
      <3>1. /\ PhysicalSum(Booked(ledger, x, b)) = 0
            /\ PhysicalSum(Booked(ledger, x, Destination(committed[x]))) = 0
        BY <2>1, <2>6 DEF TransferBooks, Accounted, b
      <3>2. 0 + (-q) = -q
        BY <2>1
      <3> QED
        BY <2>1, <2>5, <2>6, <3>1, <3>2 DEF Accounted
    <2>9. \A y \in Transfer \ {x} : committed'[y] # Absent => Accounted(y)'
      <3>1. ASSUME NEW y \in Transfer \ {x}, committed'[y] # Absent
            PROVE  Accounted(y)'
        <4>1. /\ committed'[y] = committed[y]
              /\ Source(committed[y]) \in Bucket /\ Destination(committed[y]) \in Bucket
          BY <2>5, <3>1, RaisedIsSound
        <4> QED
          BY <2>5, <3>1, <4>1 DEF TransferBooks, Accounted
      <3> QED
        BY <3>1
    <2> QED
      BY <2>5, <2>7, <2>8, <2>9 DEF TransferBooks
  <1>4. ASSUME NEW q \in Nat, HasArrived(x, q)
        PROVE  TransferBooks'
    <2> DEFINE b == Destination(committed[x])
               n == committed[x].receivedQty
               e == Arrival(x, committed[x], q)
    <2>1. /\ Sound(committed[x]) /\ b \in Bucket /\ n \in Nat
          /\ Source(committed[x]) \in Bucket /\ b # Source(committed[x])
          /\ committed[x] # Absent /\ committed[x].status = "DISPATCHED"
          /\ q \in 1 .. OutstandingQty(committed[x])
          /\ CommitsOnly({x, b}) /\ committed'[x] = Arrived(committed[x], q)
          /\ committed'[b] = Moved(Quantities(committed[b]), q, 0)
          /\ ledger' = ledger \cup {e}
          /\ OutstandingQty(committed[x]) \in Nat
      BY <1>4, RaisedIsSound DEF HasArrived
    <2>2. Tells(e, x, b, q) /\ e.idempotencyKey = <<"TRANSFER", x, "RECEIVE", n + q>>
      BY DEF Arrival, Tells
    <2> HIDE DEF b, n, e
    <2>3. q \in Nat \ {0} /\ q \in Int /\ n + q \in 1 .. (n + q)
          /\ n + q \notin 1 .. n
      BY <2>1
    <2>4. \A f \in ledger : f.idempotencyKey # e.idempotencyKey
      <3>1. ASSUME NEW f \in ledger, f.idempotencyKey = e.idempotencyKey
            PROVE  FALSE
        <4>1. f.refId = x
          BY <2>2, <3>1, RecordedKey
        <4>2. \/ f.idempotencyKey = <<"TRANSFER", x, "DISPATCH">>
              \/ \E m \in 1 .. n : f.idempotencyKey = <<"TRANSFER", x, "RECEIVE", m>>
          BY <4>1 DEF TransferBooks, Recorded, n
        <4> QED
          BY <2>2, <2>3, <3>1, <4>2
      <3> QED
        BY <3>1
    <2>5. /\ Entries(ledger')
          /\ \A f, g \in ledger' : f.idempotencyKey = g.idempotencyKey => f = g
          /\ \A c \in Bucket : Explains(At(ledger', c), InitialStock[c], committed'[c])
          /\ \A y \in Transfer : \A c \in Bucket :
               PhysicalSum(Booked(ledger', y, c)) =
                 IF y = x /\ c = b THEN PhysicalSum(Booked(ledger, y, c)) + q
                                   ELSE PhysicalSum(Booked(ledger, y, c))
          /\ \A y \in Transfer \ {x} : committed'[y] = committed[y]
      BY <2>1, <2>2, <2>3, <2>4, OneMoreMovement
    <2>6. /\ Sound(committed'[x]) /\ committed'[x].status # "REQUESTED"
          /\ committed'[x].receivedQty = n + q
          /\ committed'[x].quantity = committed[x].quantity
          /\ Source(committed'[x]) = Source(committed[x])
          /\ Destination(committed'[x]) = b
          /\ committed'[x] # Absent
      BY <2>1, RowAfter, TransfersAssumption DEF Sound, b, n
    <2>7. \A f \in ledger' : Recorded(f)'
      <3>1. ASSUME NEW f \in ledger
            PROVE  Recorded(f)'
        <4>1. Recorded(f)
          BY DEF TransferBooks
        <4>2. CASE f.refId # x
          BY <2>5, <4>1, <4>2 DEF Recorded
        <4>3. CASE f.refId = x
          <5>1. \A m \in 1 .. n : m \in 1 .. (n + q)
            BY <2>1, <2>3
          <5> QED
            BY <2>6, <4>1, <4>3, <5>1 DEF Recorded, n
        <4> QED
          BY <4>2, <4>3
      <3>2. ASSUME NEW f, f = e
            PROVE  Recorded(f)'
        BY <2>2, <2>3, <2>6, <3>2 DEF Recorded, Tells
      <3> QED
        BY <2>1, <3>1, <3>2
    <2>8. Accounted(x)'
      <3>1. /\ PhysicalSum(Booked(ledger, x, b)) = n
            /\ PhysicalSum(Booked(ledger, x, Source(committed[x])))
                 = -committed[x].quantity
        BY <2>1 DEF TransferBooks, Accounted, b, n
      <3> QED
        BY <2>1, <2>5, <2>6, <3>1 DEF Accounted
    <2>9. \A y \in Transfer \ {x} : committed'[y] # Absent => Accounted(y)'
      <3>1. ASSUME NEW y \in Transfer \ {x}, committed'[y] # Absent
            PROVE  Accounted(y)'
        <4>1. /\ committed'[y] = committed[y]
              /\ Source(committed[y]) \in Bucket /\ Destination(committed[y]) \in Bucket
          BY <2>5, <3>1, RaisedIsSound
        <4> QED
          BY <2>5, <3>1, <4>1 DEF TransferBooks, Accounted
      <3> QED
        BY <3>1
    <2> QED
      BY <2>5, <2>7, <2>8, <2>9 DEF TransferBooks
  <1> QED
    BY <1>1, <1>2, <1>3, <1>4

\* The ledger is true of transfers and buckets in every reachable state.
THEOREM TransfersAreBooked == TransfersSpec => [](TransfersInv /\ TransferBooks)
  <1>1. Init => TransfersInv /\ TransferBooks
    BY InitTransfers, InitTransferBooks
  <1>2. TransfersInv /\ TransferBooks /\ [TransfersNext]_vars =>
          (TransfersInv /\ TransferBooks)'
    <2> SUFFICES ASSUME TransfersInv, TransferBooks, [TransfersNext]_vars
                 PROVE  TransferBooks'
      BY StepTransfers
    <2>1. CASE UNCHANGED <<committed, ledger>>
      BY <2>1 DEF TransferBooks, Recorded, Accounted
    <2>2. CASE Outcome
      BY <2>2, OutcomeBooks
    <2> QED
      BY <2>1, <2>2, StepOutcome
  <1> QED
    BY <1>1, <1>2, PTL DEF TransfersSpec

\* A requested transfer has moved nothing, a dispatched one has left its source
\* once, and its receipts add up to what it says has been received.
THEOREM LedgerFollowsTransfers == TransfersSpec => []TransferMatchesLedger
  <1>1. TransfersInv /\ TransferBooks => TransferMatchesLedger
    <2> SUFFICES ASSUME TransfersInv, TransferBooks, NEW x \in Transfer,
                        committed[x] # Absent
                 PROVE  /\ PhysicalSum(Booked(ledger, x, Source(committed[x])))
                             = IF committed[x].status = "REQUESTED"
                               THEN 0 ELSE -committed[x].quantity
                        /\ PhysicalSum(Booked(ledger, x, Destination(committed[x])))
                             = committed[x].receivedQty
                        /\ committed[x].receivedQty <= committed[x].quantity
                        /\ committed[x].status = "RECEIVED"
                             <=> committed[x].receivedQty = committed[x].quantity
      BY DEF TransferMatchesLedger, PhysicalSum, Booked
    <2>1. Sound(committed[x])
      BY DEF TransfersInv
    <2> QED
      BY <2>1, SoundPlaces DEF TransferBooks, Accounted, Sound
  <1> QED
    BY <1>1, TransfersAreBooked, PTL

\* The committed ledger explains the quantities of every bucket that transfers
\* touch.
THEOREM TransfersExplainStock == TransfersSpec => []LedgerExplainsStock
  <1>1. TransferBooks => LedgerExplainsStock
    <2> SUFFICES ASSUME TransferBooks, NEW b \in Bucket
                 PROVE  /\ Quantities(committed[b]).physicalQty
                             = Quantities(InitialStock[b]).physicalQty
                                 + PhysicalSum(At(ledger, b))
                        /\ Quantities(committed[b]).reservedQty
                             = ReservedSum(At(ledger, b))
      BY DEF LedgerExplainsStock, PhysicalSum, ReservedSum, At
    <2>1. /\ Explains(At(ledger, b), InitialStock[b], committed[b])
          /\ Entries(ledger)
      BY DEF TransferBooks
    <2>2. Quantities(InitialStock[b]).reservedQty = 0
      BY InitialQuantities
    <2>3. ReservedSum(At(ledger, b)) \in Int
      BY <2>1, RowsAt, LedgerSums
    <2> QED
      BY <2>1, <2>2, <2>3 DEF Explains
  <1> QED
    BY <1>1, TransfersAreBooked, PTL

\* No departure and no receipt of a transfer is booked twice, neither in the
\* committed ledger nor by two transactions that run at the same time.
THEOREM NoMovementTwice == TransfersSpec => []KeysUnique
  <1>1. ASSUME TransfersInv, TransferBooks
        PROVE  KeysUnique
    <2>1. ASSUME NEW t \in Txn, NEW d \in pending[t]
          PROVE  /\ pending[t] = {d}
                 /\ d.idempotencyKey[2] \in Holds(t)
                 /\ \A e \in ledger : d.idempotencyKey # e.idempotencyKey
      <3>1. PICK x \in Transfer : Dispatched(t, x) \/ Received(t, x)
        BY <1>1, <2>1 DEF TransfersInv, Phase, Resting, Requesting, Dispatching,
                          Receiving, Stocking
      <3>2. CASE Dispatched(t, x)
        <4>1. /\ pending[t] = {d} /\ x \in Holds(t)
              /\ d.idempotencyKey = <<"TRANSFER", x, "DISPATCH">>
              /\ committed[x] # Absent /\ committed[x].status = "REQUESTED"
          BY <2>1, <3>2 DEF Dispatched, Departure
        <4>2. committed[x].receivedQty = 0
          BY <1>1, <4>1, RaisedIsSound DEF Sound
        <4>3. ASSUME NEW e \in ledger, d.idempotencyKey = e.idempotencyKey
              PROVE  FALSE
          <5>1. e.refId = x
            BY <1>1, <4>1, <4>3, RecordedKey
          <5> QED
            BY <1>1, <4>1, <4>2, <4>3, <5>1 DEF TransferBooks, Recorded
        <4> QED
          BY <4>1, <4>3
      <3>3. CASE Received(t, x)
        <4> DEFINE n == committed[x].receivedQty
                   q == tx[t].remaining
        <4>1. /\ pending[t] = {d} /\ x \in Holds(t)
              /\ d.idempotencyKey = <<"TRANSFER", x, "RECEIVE", n + q>>
              /\ committed[x] # Absent /\ n \in Nat /\ q \in Nat \ {0}
          BY <1>1, <2>1, <3>3, RaisedIsSound DEF Received, Arrival, Outstanding
        <4> HIDE DEF n, q
        <4>2. n + q \notin 1 .. n
          BY <4>1
        <4>3. ASSUME NEW e \in ledger, d.idempotencyKey = e.idempotencyKey
              PROVE  FALSE
          <5>1. e.refId = x
            BY <1>1, <4>1, <4>3, RecordedKey
          <5>2. \/ e.idempotencyKey = <<"TRANSFER", x, "DISPATCH">>
                \/ \E m \in 1 .. n : e.idempotencyKey = <<"TRANSFER", x, "RECEIVE", m>>
            BY <1>1, <5>1 DEF TransferBooks, Recorded, n
          <5> QED
            BY <4>1, <4>2, <4>3, <5>2
        <4> QED
          BY <4>1, <4>3
      <3> QED
        BY <3>1, <3>2, <3>3
    <2>2. ASSUME NEW t \in Txn, NEW u \in Txn, NEW d \in pending[t],
                 NEW e \in ledger \cup pending[u],
                 d.idempotencyKey = e.idempotencyKey
          PROVE  t = u /\ d = e /\ e \notin ledger
      <3>1. e \in pending[u] /\ e \notin ledger
        BY <2>1, <2>2
      <3>2. t = u
        BY <2>1, <2>2, <3>1 DEF Holds
      <3> QED
        BY <2>1, <2>2, <3>1, <3>2
    <2> QED
      BY <1>1, <2>2 DEF KeysUnique, TransferBooks
  <1> QED
    BY <1>1, TransfersAreBooked, PTL

-----------------------------------------------------------------------------
(* Conservation of goods: what a batch has at its locations and in transit.*)

Underway(row) ==
    IF row # Absent /\ row.status = "DISPATCHED" THEN OutstandingQty(row) ELSE 0

\* The two sums, of any version of the rows.
StockTotal(version, S) ==
    MapThenSumSet(LAMBDA b : Quantities(version[b]).physicalQty, S)
TransitTotal(version, S) == MapThenSumSet(LAMBDA x : Underway(version[x]), S)

Places(d) == {d} \X Location
Loads(version, d) ==
    {x \in Transfer : version[x] # Absent /\ version[x].batch = d}

\* The places of a batch are finitely many buckets, its loads finitely many transfers.
LEMMA FinitePlaces ==
  ASSUME NEW d \in Batch
  PROVE  /\ IsFiniteSet(Places(d)) /\ Places(d) \subseteq Bucket
         /\ \A version : IsFiniteSet(Loads(version, d))
  <1>1. IsFiniteSet(Places(d))
    <2>1. IsFiniteSet({d}) /\ IsFiniteSet(Location)
      BY FS_Singleton, TransfersAssumption
    <2> QED
      BY <2>1, FS_Product DEF Places
  <1>2. \A version : Loads(version, d) \subseteq Transfer
    BY DEF Loads
  <1> QED
    BY <1>1, <1>2, FS_Subset, TransfersAssumption DEF Places, Bucket

\* The sums are sums of functions.
LEMMA StockTotalIs ==
  ASSUME NEW version, NEW S, IsFiniteSet(S), NEW f,
         \A b \in S : f[b] = Quantities(version[b]).physicalQty
  PROVE  StockTotal(version, S) = SumOf(f, S)
  <1> DEFINE Folds(g) == g = [T \in SUBSET S |->
                                IF T = {} THEN 0
                                ELSE LET x == CHOOSE x \in T : TRUE
                                     IN  Quantities(version[x]).physicalQty
                                           + g[T \ {x}]]
             iter == CHOOSE g : Folds(g)
  <1>1. StockTotal(version, S) = iter[S]
    BY DEF StockTotal, MapThenSumSet, MapThenFoldSet
  <1>2. ASSUME NEW g
        PROVE  Folds(g) <=> IsSum(g, f, S)
    BY DEF IsSum, PickOf
  <1>3. \E g : IsSum(g, f, S)
    BY SumExists
  <1> HIDE DEF Folds
  <1>4. Folds(iter)
    BY <1>2, <1>3
  <1> HIDE DEF iter
  <1> QED
    BY <1>1, <1>2, <1>3, <1>4, SumUnique DEF SumOf

\* So is what is in transit.
LEMMA TransitTotalIs ==
  ASSUME NEW version, NEW S, IsFiniteSet(S), NEW f,
         \A x \in S : f[x] = Underway(version[x])
  PROVE  TransitTotal(version, S) = SumOf(f, S)
  <1> DEFINE Folds(g) == g = [T \in SUBSET S |->
                                IF T = {} THEN 0
                                ELSE LET x == CHOOSE x \in T : TRUE
                                     IN  Underway(version[x]) + g[T \ {x}]]
             iter == CHOOSE g : Folds(g)
  <1>1. TransitTotal(version, S) = iter[S]
    BY DEF TransitTotal, MapThenSumSet, MapThenFoldSet
  <1>2. ASSUME NEW g
        PROVE  Folds(g) <=> IsSum(g, f, S)
    BY DEF IsSum, PickOf
  <1>3. \E g : IsSum(g, f, S)
    BY SumExists
  <1> HIDE DEF Folds
  <1>4. Folds(iter)
    BY <1>2, <1>3
  <1> HIDE DEF iter
  <1> QED
    BY <1>1, <1>2, <1>3, <1>4, SumUnique DEF SumOf

\* When the stock of one bucket changes, the total changes by as much.
LEMMA StockTotalChange ==
  ASSUME NEW v, NEW w, NEW S, IsFiniteSet(S), NEW b, NEW d \in Int,
         \A c \in S : Quantities(v[c]).physicalQty \in Int,
         \A c \in S \ {b} : w[c] = v[c],
         b \in S => Quantities(w[b]).physicalQty = Quantities(v[b]).physicalQty + d
  PROVE  /\ StockTotal(v, S) \in Int
         /\ StockTotal(w, S) = IF b \in S THEN StockTotal(v, S) + d
                                          ELSE StockTotal(v, S)
  <1> DEFINE f == [c \in S |-> Quantities(v[c]).physicalQty]
             h == [c \in S |-> Quantities(w[c]).physicalQty]
  <1>1. /\ \A c \in S : f[c] = Quantities(v[c]).physicalQty /\ f[c] \in Int
        /\ \A c \in S : h[c] = Quantities(w[c]).physicalQty
        /\ \A c \in S \ {b} : h[c] = f[c]
        /\ b \in S => h[b] = f[b] + d
    OBVIOUS
  <1> HIDE DEF f, h
  <1>2. StockTotal(v, S) = SumOf(f, S) /\ StockTotal(w, S) = SumOf(h, S)
    BY <1>1, StockTotalIs
  <1>3. SumOf(f, S) \in Int
    BY <1>1, SumOfInt
  <1>4. CASE b \in S
    <2>1. /\ \A y \in S : f[y] \in Int
          /\ h[b] = f[b] + d
          /\ \A y \in S \ {b} : h[y] = f[y]
      BY <1>1, <1>4
    <2>2. SumOf(h, S) = SumOf(f, S) + d
      BY <1>4, <2>1, SumOfChange
    <2> QED
      BY <1>2, <1>3, <1>4, <2>2
  <1>5. CASE b \notin S
    <2>1. SumOf(h, S) = SumOf(f, S)
      BY <1>1, <1>5, SumOfSame
    <2> QED
      BY <1>2, <1>3, <1>5, <2>1
  <1> QED
    BY <1>4, <1>5

\* When one transfer changes, so does what is in transit.
LEMMA TransitTotalChange ==
  ASSUME NEW v, NEW w, NEW S, IsFiniteSet(S), NEW x, NEW d \in Int,
         \A y \in S : Underway(v[y]) \in Int,
         \A y \in S \ {x} : w[y] = v[y],
         x \in S => Underway(w[x]) = Underway(v[x]) + d
  PROVE  /\ TransitTotal(v, S) \in Int
         /\ TransitTotal(w, S) = IF x \in S THEN TransitTotal(v, S) + d
                                            ELSE TransitTotal(v, S)
  <1> DEFINE f == [y \in S |-> Underway(v[y])]
             h == [y \in S |-> Underway(w[y])]
  <1>1. /\ \A y \in S : f[y] = Underway(v[y]) /\ f[y] \in Int
        /\ \A y \in S : h[y] = Underway(w[y])
        /\ \A y \in S \ {x} : h[y] = f[y]
        /\ x \in S => h[x] = f[x] + d
    OBVIOUS
  <1> HIDE DEF f, h
  <1>2. TransitTotal(v, S) = SumOf(f, S) /\ TransitTotal(w, S) = SumOf(h, S)
    BY <1>1, TransitTotalIs
  <1>3. SumOf(f, S) \in Int
    BY <1>1, SumOfInt
  <1>4. CASE x \in S
    <2>1. /\ \A y \in S : f[y] \in Int
          /\ h[x] = f[x] + d
          /\ \A y \in S \ {x} : h[y] = f[y]
      BY <1>1, <1>4
    <2>2. SumOf(h, S) = SumOf(f, S) + d
      BY <1>4, <2>1, SumOfChange
    <2> QED
      BY <1>2, <1>3, <1>4, <2>2
  <1>5. CASE x \notin S
    <2>1. SumOf(h, S) = SumOf(f, S)
      BY <1>1, <1>5, SumOfSame
    <2> QED
      BY <1>2, <1>3, <1>5, <2>1
  <1> QED
    BY <1>4, <1>5

\* A transfer nothing of which is in transit adds nothing.
LEMMA TransitTotalAdd ==
  ASSUME NEW v, NEW S, IsFiniteSet(S), NEW x, x \notin S,
         \A y \in S : Underway(v[y]) \in Int, Underway(v[x]) = 0
  PROVE  TransitTotal(v, S \cup {x}) = TransitTotal(v, S)
  <1> DEFINE T == S \cup {x}
             f == [y \in T |-> Underway(v[y])]
  <1>1. /\ \A y \in T : f[y] = Underway(v[y]) /\ f[y] \in Int
        /\ S \subseteq T /\ f[x] = 0 /\ IsFiniteSet(T)
    BY FS_AddElement
  <1> HIDE DEF f
  <1>2. /\ TransitTotal(v, T) = SumOf(f, T)
        /\ TransitTotal(v, S) = SumOf(f, S)
        /\ SumOf(f, S) \in Int
    BY <1>1, TransitTotalIs, SumOfInt
  <1>3. SumOf(f, T) = f[x] + SumOf(f, S)
    BY <1>1, SumOfAdd
  <1> QED
    BY <1>1, <1>2, <1>3

\* Every unit of a batch is at one of its places or on its way.
Conserved ==
    \A d \in Batch :
      StockTotal(committed, Places(d)) + TransitTotal(committed, Loads(committed, d))
        = StockTotal(InitialStock, Places(d))

\* The terms of the sums are numbers.
LEMMA TotalsType ==
  ASSUME TransfersInv, NEW d \in Batch
  PROVE  /\ \A b \in Places(d) : Quantities(committed[b]).physicalQty \in Int
         /\ \A x \in Loads(committed, d) : Underway(committed[x]) \in Int
         /\ \A b \in Places(d) : b \in Bucket
         /\ StockTotal(committed, Places(d)) \in Int
         /\ TransitTotal(committed, Loads(committed, d)) \in Int
  <1>1. \A b \in Places(d) : b \in Bucket
    BY FinitePlaces
  <1>2. ASSUME NEW b \in Places(d)
        PROVE  Quantities(committed[b]).physicalQty \in Int
    <2>1. committed[b] \in BucketRow \cup {Absent}
      BY <1>1 DEF TransfersInv, StockTypeOK
    <2> QED
      BY <2>1, QuantitiesType DEF BucketRow
  <1>3. ASSUME NEW x \in Loads(committed, d)
        PROVE  Underway(committed[x]) \in Int
    BY RaisedIsSound DEF Loads, Underway
  <1>4. StockTotal(committed, Places(d)) \in Int
    <2>1. IsFiniteSet(Places(d)) /\ 0 \in Int
      BY FinitePlaces
    <2>2. \A c \in Places(d) : Quantities(committed[c]).physicalQty
                                = Quantities(committed[c]).physicalQty + 0
      BY <1>2
    <2> QED
      BY <1>2, <2>1, <2>2, StockTotalChange
  <1>5. TransitTotal(committed, Loads(committed, d)) \in Int
    <2>1. IsFiniteSet(Loads(committed, d)) /\ 0 \in Int
      BY FinitePlaces
    <2>2. \A x \in Loads(committed, d) :
            Underway(committed[x]) = Underway(committed[x]) + 0
      BY <1>3
    <2> QED
      BY <1>3, <2>1, <2>2, TransitTotalChange
  <1> QED
    BY <1>1, <1>2, <1>3, <1>4, <1>5

\* What one movement of a transfer does to the two sums of the batch d: the bucket b
\* changes by n units, and what is in transit of x by as much the other way.
LEMMA OneMove ==
  ASSUME TransfersInv, NEW d \in Batch, NEW x \in Transfer, NEW b \in Bucket,
         NEW n \in Int, CommitsOnly({x, b}), committed[x] # Absent,
         committed'[x] # Absent, committed'[x].batch = committed[x].batch,
         b[1] = committed[x].batch,
         Quantities(committed'[b]).physicalQty
           = Quantities(committed[b]).physicalQty + n,
         Underway(committed'[x]) = Underway(committed[x]) + (-n)
  PROVE  StockTotal(committed', Places(d))
           + TransitTotal(committed', Loads(committed', d))
         = StockTotal(committed, Places(d))
             + TransitTotal(committed, Loads(committed, d))
  <1>1. /\ \A y \in Transfer \ {x} : committed'[y] = committed[y]
        /\ \A c \in Bucket \ {b} : committed'[c] = committed[c]
    BY TransferRows DEF CommitsOnly
  <1>2. Loads(committed', d) = Loads(committed, d)
    BY <1>1 DEF Loads
  <1>3. b \in Places(d) <=> x \in Loads(committed, d)
    BY DEF Places, Loads, Bucket
  <1> DEFINE P == Places(d)
             L == Loads(committed, d)
  <1>4. /\ IsFiniteSet(P) /\ IsFiniteSet(L) /\ -n \in Int
        /\ \A c \in P : Quantities(committed[c]).physicalQty \in Int
        /\ \A y \in L : Underway(committed[y]) \in Int
        /\ \A c \in P \ {b} : committed'[c] = committed[c]
        /\ \A y \in L \ {x} : committed'[y] = committed[y]
        /\ StockTotal(committed, P) \in Int /\ TransitTotal(committed, L) \in Int
    <2>1. \A y \in L : y \in Transfer
      BY DEF Loads
    <2> QED
      BY <1>1, <2>1, FinitePlaces, TotalsType
  <1> HIDE DEF P, L
  <1>5. StockTotal(committed', P) = IF b \in P THEN StockTotal(committed, P) + n
                                              ELSE StockTotal(committed, P)
    BY <1>4, StockTotalChange
  <1>6. TransitTotal(committed', L) =
          IF x \in L THEN TransitTotal(committed, L) + (-n)
                    ELSE TransitTotal(committed, L)
    BY <1>4, TransitTotalChange
  <1>7. b \in P <=> x \in L
    BY <1>3 DEF P, L
  <1>8. StockTotal(committed', P) + TransitTotal(committed', L)
          = StockTotal(committed, P) + TransitTotal(committed, L)
    BY <1>4, <1>5, <1>6, <1>7
  <1> QED
    BY <1>2, <1>8 DEF P, L

\* The three steps neither lose nor gain goods.
LEMMA OutcomeConserves ==
  ASSUME TransfersInv, Conserved, Outcome
  PROVE  Conserved'
  <1> SUFFICES ASSUME NEW d \in Batch
               PROVE  StockTotal(committed', Places(d))
                        + TransitTotal(committed', Loads(committed', d))
                      = StockTotal(committed, Places(d))
                          + TransitTotal(committed, Loads(committed, d))
    BY DEF Conserved
  <1>1. PICK x \in Transfer :
          \/ \E form \in TransferForms : IsRaised(x, form)
          \/ HasLeft(x)
          \/ \E q \in Nat : HasArrived(x, q)
    BY DEF Outcome
  <1>2. ASSUME NEW form \in TransferForms, IsRaised(x, form)
        PROVE  StockTotal(committed', Places(d))
                 + TransitTotal(committed', Loads(committed', d))
               = StockTotal(committed, Places(d))
                   + TransitTotal(committed, Loads(committed, d))
    <2> DEFINE P == Places(d)
               L == Loads(committed, d)
    <2>1. /\ committed[x] = Absent /\ committed'[x] = NewTransfer(form)
          /\ \A y \in Transfer \ {x} : committed'[y] = committed[y]
          /\ \A b \in Bucket : committed'[b] = committed[b]
          /\ x \notin Bucket
      BY <1>2, TransferRows DEF IsRaised, CommitsOnly
    <2>2. x \notin L /\ (Loads(committed', d) = L \/ Loads(committed', d) = L \cup {x})
      BY <2>1 DEF Loads
    <2>3. Underway(committed'[x]) = 0
      BY <2>1 DEF Underway, NewTransfer
    <2>4. /\ IsFiniteSet(P) /\ IsFiniteSet(L) /\ 0 \in Int
          /\ \A c \in P : Quantities(committed[c]).physicalQty \in Int
          /\ \A y \in L : Underway(committed[y]) \in Int
          /\ \A c \in P : c \in Bucket
          /\ \A y \in L : y \in Transfer
      <3>1. \A y \in L : y \in Transfer
        BY DEF Loads
      <3> HIDE DEF P, L
      <3>2. IsFiniteSet(P) /\ IsFiniteSet(L)
        BY FinitePlaces DEF P, L
      <3>3. /\ \A c \in P : Quantities(committed[c]).physicalQty \in Int
            /\ \A y \in L : Underway(committed[y]) \in Int
            /\ \A c \in P : c \in Bucket
        BY TotalsType DEF P, L
      <3> QED
        BY <3>1, <3>2, <3>3
    <2> HIDE DEF P, L
    <2>5. /\ x \notin P
          /\ \A c \in P \ {x} : committed'[c] = committed[c]
          /\ \A y \in L \ {x} : committed'[y] = committed[y]
          /\ \A y \in L : Underway(committed'[y]) \in Int
      BY <2>1, <2>2, <2>4
    <2>6. StockTotal(committed', P) = StockTotal(committed, P)
      BY <2>4, <2>5, StockTotalChange
    <2>7. TransitTotal(committed', L) = TransitTotal(committed, L)
      BY <2>2, <2>4, <2>5, TransitTotalChange
    <2>8. TransitTotal(committed', L \cup {x}) = TransitTotal(committed', L)
      BY <2>2, <2>3, <2>4, <2>5, TransitTotalAdd
    <2> QED
      BY <2>2, <2>6, <2>7, <2>8 DEF P, L
  <1>3. CASE HasLeft(x)
    <2> DEFINE b == Source(committed[x])
               q == committed[x].quantity
    <2>1. /\ Sound(committed[x]) /\ b \in Bucket /\ q \in Nat /\ -q \in Int
          /\ committed[x] # Absent /\ committed[x].status = "REQUESTED"
          /\ AvailableQty(committed[b]) >= q
          /\ CommitsOnly({x, b}) /\ committed'[x] = Gone(committed[x])
          /\ committed'[b] = Moved(Quantities(committed[b]), -q, 0)
          /\ b[1] = committed[x].batch
      BY <1>3, RaisedIsSound DEF HasLeft, Source
    <2> HIDE DEF b
    <2>2. /\ Sound(committed'[x]) /\ committed'[x] # Absent
          /\ committed'[x].batch = committed[x].batch
          /\ committed'[x].status = "DISPATCHED"
          /\ committed'[x].quantity = q /\ committed'[x].receivedQty = 0
      BY <2>1, RowAfter, TransfersAssumption DEF Sound
    <2> HIDE DEF q
    <2>3. Underway(committed[x]) = 0 /\ Underway(committed'[x]) = q
      BY <2>1, <2>2 DEF Underway, OutstandingQty
    <2>4. Quantities(committed'[b]).physicalQty
            = Quantities(committed[b]).physicalQty + (-q)
      BY <2>1, StockMoved DEF TransfersInv, StockTypeOK
    <2>5. Underway(committed'[x]) = Underway(committed[x]) + (-(-q))
      BY <2>1, <2>3
    <2> QED
      BY <2>1, <2>2, <2>4, <2>5, OneMove
  <1>4. ASSUME NEW q \in Nat, HasArrived(x, q)
        PROVE  StockTotal(committed', Places(d))
                 + TransitTotal(committed', Loads(committed', d))
               = StockTotal(committed, Places(d))
                   + TransitTotal(committed, Loads(committed, d))
    <2> DEFINE b == Destination(committed[x])
    <2>1. /\ Sound(committed[x]) /\ b \in Bucket /\ q \in Int
          /\ committed[x] # Absent /\ committed[x].status = "DISPATCHED"
          /\ q \in 1 .. OutstandingQty(committed[x])
          /\ CommitsOnly({x, b}) /\ committed'[x] = Arrived(committed[x], q)
          /\ committed'[b] = Moved(Quantities(committed[b]), q, 0)
          /\ b[1] = committed[x].batch
          /\ committed[x].quantity \in Nat /\ committed[x].receivedQty \in Nat
      BY <1>4, RaisedIsSound DEF HasArrived, Destination
    <2> HIDE DEF b
    <2>2. /\ Sound(committed'[x]) /\ committed'[x] # Absent
          /\ committed'[x].batch = committed[x].batch
          /\ committed'[x].status \in {"DISPATCHED", "RECEIVED"}
          /\ committed'[x].quantity = committed[x].quantity
          /\ committed'[x].receivedQty = committed[x].receivedQty + q
      BY <2>1, RowAfter, TransfersAssumption DEF Sound
    <2>3. Underway(committed'[x]) = OutstandingQty(committed'[x])
      BY <2>1, <2>2 DEF Underway, OutstandingQty, Sound
    <2>4. Quantities(committed'[b]).physicalQty
            = Quantities(committed[b]).physicalQty + q
      BY <2>1, StockMoved DEF TransfersInv, StockTypeOK
    <2>5. Underway(committed'[x]) = Underway(committed[x]) + (-q)
      BY <2>1, <2>2, <2>3 DEF Underway, OutstandingQty
    <2> QED
      BY <2>1, <2>2, <2>4, <2>5, OneMove
  <1> QED
    BY <1>1, <1>2, <1>3, <1>4

\* No unit is lost between two locations, whichever receipts, retries and failures
\* there were: what has left and not arrived is in transit.
THEOREM NothingLostInTransit == TransfersSpec => []NoUnitLostInTransit
  <1>1. Init => Conserved
    <2> SUFFICES ASSUME Init, NEW d \in Batch
                 PROVE  StockTotal(committed, Places(d))
                          + TransitTotal(committed, Loads(committed, d))
                        = StockTotal(InitialStock, Places(d))
      BY DEF Conserved
    <2>1. TransfersInv
      BY InitTransfers
    <2>2. Loads(committed, d) = {}
      BY TransferRows DEF Init, Loads
    <2>3. TransitTotal(committed, {}) = 0
      BY TransitTotalIs, SumOfStep, FS_EmptySet
    <2>4. StockTotal(committed, Places(d)) = StockTotal(InitialStock, Places(d))
      <3> DEFINE f == [b \in Places(d) |-> Quantities(InitialStock[b]).physicalQty]
      <3>1. /\ IsFiniteSet(Places(d))
            /\ \A b \in Places(d) : /\ f[b] = Quantities(InitialStock[b]).physicalQty
                                     /\ committed[b] = InitialStock[b]
        BY FinitePlaces, TransferRows DEF Init
      <3> HIDE DEF f
      <3> QED
        BY <3>1, StockTotalIs
    <2>5. StockTotal(committed, Places(d)) \in Int
      BY <2>1, TotalsType
    <2> QED
      BY <2>2, <2>3, <2>4, <2>5
  <1>2. TransfersInv /\ Conserved /\ [TransfersNext]_vars => Conserved'
    <2> SUFFICES ASSUME TransfersInv, Conserved, [TransfersNext]_vars
                 PROVE  Conserved'
      OBVIOUS
    <2>1. CASE UNCHANGED <<committed, ledger>>
      BY <2>1 DEF Conserved
    <2>2. CASE Outcome
      BY <2>2, OutcomeConserves
    <2> QED
      BY <2>1, <2>2, StepOutcome
  <1>3. Conserved => NoUnitLostInTransit
    <2> SUFFICES ASSUME Conserved, NEW d \in Batch
                 PROVE  StockTotal(committed, Places(d))
                          + TransitTotal(committed, Loads(committed, d))
                        = StockTotal(InitialStock, Places(d))
      BY DEF NoUnitLostInTransit, StockTotal, TransitTotal, Places, Loads,
             PhysicalOf, InTransit, Underway
    <2> QED
      BY DEF Conserved
  <1> QED
    BY <1>1, <1>2, <1>3, TransfersAreOrderly, PTL DEF TransfersSpec
=============================================================================
