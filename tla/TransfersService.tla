-------------------------- MODULE TransfersService --------------------------
(***************************************************************************)
(* Stock transfers between locations: request, dispatch, receive           *)
(* (src/backend/src/transfers/transfers.service.ts).                       *)
(*                                                                         *)
(* Goods leave the source when the transfer is dispatched and reach the    *)
(* destination when they are received, in one receipt or in several.  In   *)
(* between they are in transit and available nowhere.                      *)
(***************************************************************************)
EXTENDS StockService

CONSTANTS
    Transfer,       \* ids of stock transfers
    TransferForms   \* what may be asked for: batch, source, destination, quantity

TransferStatus == {"REQUESTED", "DISPATCHED", "RECEIVED"}
TransferRow ==
    [status : TransferStatus, batch : Batch, source : Location,
     destination : Location, quantity : Nat \ {0}, receivedQty : Int]

ASSUME TransfersAssumption ==
    /\ Transfer \subseteq Document
    /\ Absent \notin TransferRow
    /\ IsFiniteSet(Transfer) /\ IsFiniteSet(Location)
    /\ TransferForms \subseteq [batch : Batch, source : Location,
                                destination : Location, quantity : Nat \ {0}]
    /\ \A form \in TransferForms : form.source # form.destination

Source(transfer) == <<transfer.batch, transfer.source>>
Destination(transfer) == <<transfer.batch, transfer.destination>>

\* Mutant: what has already arrived is forgotten.
WholeQty(transfer) == transfer.quantity

\* What has not arrived yet.
OutstandingQty(transfer) == transfer.quantity - transfer.receivedQty

-----------------------------------------------------------------------------
\* POST /transfers.  The availability check reads without a lock and holds
\* nothing: dispatch decides.
CreateTransfer(t, x, form) ==
    /\ AvailableQty(View(t, Source(form))) >= form.quantity
    /\ InsertDocument(t, x,
         [status |-> "REQUESTED", batch |-> form.batch, source |-> form.source,
          destination |-> form.destination, quantity |-> form.quantity,
          receivedQty |-> 0])
    /\ Proceed(t, "create", "commit", x, 0)

\* Mutant: the status is not looked at again under the lock.
BeginDispatchAgain(t, x) ==
    /\ LockDocument(t, x)
    /\ Proceed(t, "dispatch", "debit", x, 0)

\* POST /transfers/:id/dispatch
BeginDispatch(t, x) ==
    /\ LockDocument(t, x)
    /\ committed[x].status = "REQUESTED"
    /\ Proceed(t, "dispatch", "debit", x, 0)

\* lockOrCreateBucket without createIfMissing, then the authoritative check.
LockSource(t) ==
    LET b == Source(working[tx[t].doc])
    IN  /\ tx[t].step = "debit"
        /\ View(t, b) # Absent => CanLock(t, b)

\* The movement: the goods leave the source.
DebitSource(t) ==
    LET x == tx[t].doc
        b == Source(working[x])
        q == working[x].quantity
    IN  /\ LockSource(t)
        /\ AvailableQty(View(t, b)) >= q
        /\ holder' = [holder EXCEPT ![b] = t]
        /\ working' = [working EXCEPT ![b] = Moved(@, -q, 0)]
        /\ Book(t, <<"TRANSFER", x, "DISPATCH">>, b, -q, 0, x)
        /\ tx' = [tx EXCEPT ![t].step = "sent"]
        /\ UNCHANGED <<committed, ledger>>

\* The transfer is saved after its movement.
SaveDispatched(t) ==
    /\ tx[t].step = "sent"
    /\ working' = [working EXCEPT ![tx[t].doc].status = "DISPATCHED"]
    /\ tx' = [tx EXCEPT ![t].step = "commit"]
    /\ UNCHANGED <<committed, holder, ledger, pending>>

\* The stock has gone since the transfer was requested: 409.
RefuseDispatch(t) ==
    /\ LockSource(t)
    /\ AvailableQty(View(t, Source(working[tx[t].doc])))
         < working[tx[t].doc].quantity
    /\ Rollback(t)

\* POST /transfers/:id/receive for the given quantity; a request without one
\* is for all that is outstanding.
BeginReceive(t, x, quantity) ==
    /\ LockDocument(t, x)
    /\ committed[x].status = "DISPATCHED"
    /\ quantity <= OutstandingQty(committed[x])
    /\ tx' = [tx EXCEPT ![t] = [Idle EXCEPT !.op = "receive", !.step = "seek",
                                            !.doc = x, !.remaining = quantity]]

\* The transfer after q more of its units have arrived.
Arrived(transfer, q) ==
    [transfer EXCEPT !.receivedQty = @ + q,
                     !.status = IF transfer.receivedQty + q = transfer.quantity
                                THEN "RECEIVED" ELSE @]

\* The movement: the goods reach the destination, whose bucket is locked now.
CreditDestination(t) ==
    LET x == tx[t].doc
        b == Destination(working[x])
        q == tx[t].remaining
    IN  /\ tx[t].step = "book"
        /\ working' = [working EXCEPT ![b] = Moved(@, q, 0)]
        /\ Book(t, <<"TRANSFER", x, "RECEIVE", working[x].receivedQty + q>>,
                b, q, 0, x)
        /\ tx' = [tx EXCEPT ![t].step = "stored"]
        /\ UNCHANGED <<committed, holder, ledger>>

\* Mutant: the transfer is not saved after a partial receipt.
SaveWhenComplete(t) ==
    /\ tx[t].step = "stored"
    /\ working' = [working EXCEPT ![tx[t].doc] =
         IF tx[t].remaining = OutstandingQty(@) THEN Arrived(@, tx[t].remaining)
                                                ELSE @]
    /\ tx' = [tx EXCEPT ![t].step = "commit"]
    /\ UNCHANGED <<committed, holder, ledger, pending>>

\* The transfer is saved after its movement.
SaveReceived(t) ==
    /\ tx[t].step = "stored"
    /\ working' = [working EXCEPT ![tx[t].doc] = Arrived(@, tx[t].remaining)]
    /\ tx' = [tx EXCEPT ![t].step = "commit"]
    /\ UNCHANGED <<committed, holder, ledger, pending>>

TransferCommit(t) == tx[t].step = "commit" /\ Commit(t)

-----------------------------------------------------------------------------
TransferRequest(t) ==
    \E x \in Transfer :
      \/ \E form \in TransferForms : CreateTransfer(t, x, form)
      \/ BeginDispatch(t, x)
      \/ /\ committed[x] # Absent
         /\ \E q \in 1 .. committed[x].quantity : BeginReceive(t, x, q)

TransferProgress(t) ==
    /\ tx[t].doc \in Transfer
    /\ \/ DebitSource(t)
       \/ SaveDispatched(t)
       \/ RefuseDispatch(t)
       \/ SeekBucket(t, Destination(working[tx[t].doc]))
       \/ InsertBucket(t, Destination(working[tx[t].doc]))
       \/ InsertBucketRaced(t, Destination(working[tx[t].doc]))
       \/ CreditDestination(t)
       \/ SaveReceived(t)
       \/ TransferCommit(t)

TransferStep(t) == TransferRequest(t) \/ TransferProgress(t)

TransfersNext == \E t \in Txn : TransferStep(t) \/ Lost(t)

TransfersSpec == Init /\ [][TransfersNext]_vars

\* The same, for clients that receive one unit of a transfer, once: whenever
\* a second receipt of it arrives, it is that one request sent again.
SentAgain(t) == (IsIdle(t) /\ tx'[t].op = "receive") => tx'[t].remaining = 1

RepeatingClientsSpec ==
    Init /\ [][TransfersNext /\ \A t \in Txn : SentAgain(t)]_vars

-----------------------------------------------------------------------------
(* Properties.                                                             *)

TransfersTypeOK ==
    /\ StockTypeOK
    /\ \A x \in Transfer : /\ committed[x] \in TransferRow \cup {Absent}
                           /\ working[x] \in TransferRow \cup {Absent}

\* inTransitQty: left the source, not yet arrived.
InTransit(x) ==
    IF committed[x] # Absent /\ committed[x].status = "DISPATCHED"
    THEN OutstandingQty(committed[x]) ELSE 0

PhysicalOf(b) == Quantities(committed[b]).physicalQty

\* Every unit of a batch is at a location or in transit, never at two places
\* and never nowhere, whichever receipts, retries and failures there were.
NoUnitLostInTransit ==
    \A d \in Batch :
      MapThenSumSet(PhysicalOf, {d} \X Location)
        + MapThenSumSet(InTransit, {x \in Transfer : /\ committed[x] # Absent
                                                     /\ committed[x].batch = d})
      = MapThenSumSet(LAMBDA b : Quantities(InitialStock[b]).physicalQty,
                      {d} \X Location)

\* The ledger agrees with each transfer: a requested one has moved nothing, a
\* dispatched one has left its source exactly once, and the receipts at its
\* destination add up to received_qty, which reaches the quantity exactly
\* when the transfer is RECEIVED.
TransferMatchesLedger ==
    \A x \in {y \in Transfer : committed[y] # Absent} :
      LET transfer == committed[x]
          At(b) == SumOver({e \in ledger : e.refId = x /\ e.inventoryId = b},
                           LAMBDA e : e.physicalDelta)
      IN  /\ At(Source(transfer)) = IF transfer.status = "REQUESTED"
                                    THEN 0 ELSE -transfer.quantity
          /\ At(Destination(transfer)) = transfer.receivedQty
          /\ transfer.receivedQty <= transfer.quantity
          /\ transfer.status = "RECEIVED"
               <=> transfer.receivedQty = transfer.quantity

\* "a repeat of the SAME receipt collides" (transfers.service.ts:258), so that
\* "a double click, a retried request and a replayed message all fail safely"
\* (:207-208): with RepeatingClientsSpec no transfer is received twice.
RepeatedReceiptCollides ==
    \A d, e \in ledger :
      (d.refId = e.refId /\ d.physicalDelta > 0 /\ e.physicalDelta > 0) => d = e
=============================================================================
