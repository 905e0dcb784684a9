-------------------------- MODULE WorkOrdersService --------------------------
(***************************************************************************)
(* Work orders: assign, start (hold the material), complete (consume it)   *)
(* (src/backend/src/work-orders/work-orders.service.ts).                   *)
(*                                                                         *)
(* What a work order holds is recorded nowhere but in the ledger: the rows *)
(* that refer to it are the only memory between start and completion.      *)
(***************************************************************************)
EXTENDS StockService

CONSTANTS
    WorkOrder,      \* ids of work orders
    WorkOrderForms  \* what may be asked for: item, location, required quantity

WorkOrderStatus == {"ASSIGNED", "IN_PROGRESS", "COMPLETED"}
WorkOrderRow == [status : WorkOrderStatus, item : {ItemOf[d] : d \in Batch},
                 location : Location, requiredQty : Nat \ {0}]

ASSUME WorkOrdersAssumption ==
    /\ WorkOrder \subseteq Document
    /\ Absent \notin WorkOrderRow
    /\ IsFiniteSet(Batch) /\ IsFiniteSet(Location)
    /\ WorkOrderForms \subseteq [item : {ItemOf[d] : d \in Batch},
                                 location : Location, requiredQty : Nat \ {0}]

\* The status changes of WORK_ORDER_TRANSITIONS.
MayBecome(from, to) ==
    <<from, to>> \in {<<"ASSIGNED", "IN_PROGRESS">>,
                      <<"IN_PROGRESS", "COMPLETED">>}

\* SUM(reserved_delta) of the entries of one bucket that refer to w.
NetReserved(entries, w, b) ==
    SumOver({e \in entries : e.refId = w /\ e.inventoryId = b},
            LAMBDA e : e.reservedDelta)

-----------------------------------------------------------------------------
\* POST /work-orders
CreateWorkOrder(t, w, form) ==
    /\ InsertDocument(t, w,
         [status |-> "ASSIGNED", item |-> form.item, location |-> form.location,
          requiredQty |-> form.requiredQty])
    /\ Proceed(t, "create", "commit", w, 0)

\* PATCH /work-orders/:id/status to IN_PROGRESS
BeginStart(t, w) ==
    /\ LockDocument(t, w)
    /\ MayBecome(committed[w].status, "IN_PROGRESS")
    /\ Proceed(t, "start", "find", w, 0)

\* reserveMaterial reads the buckets without a lock.
Candidates(t) ==
    AvailableBuckets(t, working[tx[t].doc].item, working[tx[t].doc].location)

TotalAvailable(t) ==
    MapThenSumSet(LAMBDA b : AvailableQty(View(t, b)), Candidates(t))

FindMaterial(t) ==
    /\ tx[t].step = "find"
    /\ TotalAvailable(t) >= working[tx[t].doc].requiredQty
    /\ tx' = [tx EXCEPT ![t].step = "take",
                        ![t].remaining = working[tx[t].doc].requiredQty,
                        ![t].todo = Candidates(t)]
    /\ UNCHANGED <<rows, ledger, pending>>

\* Short from the outset: "Raise an internal transfer first."
RefuseStart(t) ==
    /\ tx[t].step = "find"
    /\ TotalAvailable(t) < working[tx[t].doc].requiredQty
    /\ Rollback(t)

\* One turn of reserveMaterial's loop.
TakeMaterial(t) ==
    LET w == tx[t].doc
        b == FirstExpiring(tx[t].todo)
        available == AvailableQty(working[b])
        take == IF tx[t].remaining <= available THEN tx[t].remaining
                                                ELSE available
    IN  /\ tx[t].step = "take"
        /\ tx[t].remaining > 0
        /\ tx[t].todo # {}
        /\ CanLock(t, b)
        /\ holder' = [holder EXCEPT ![b] = t]
        /\ \/ /\ take <= 0
              /\ tx' = [tx EXCEPT ![t].todo = @ \ {b}]
              /\ UNCHANGED <<working, pending>>
           \/ /\ take > 0
              /\ working' = [working EXCEPT ![b] = Moved(@, 0, take)]
              /\ Book(t, <<"WORK_ORDER", w, "RESERVE", b>>, b, 0, take, w)
              /\ tx' = [tx EXCEPT ![t].todo = @ \ {b},
                                  ![t].remaining = @ - take]
        /\ UNCHANGED <<committed, ledger>>

\* Mutant: the work starts with what material there is.
StartWithLess(t) ==
    /\ tx[t].step = "take"
    /\ tx[t].remaining > 0
    /\ tx[t].todo = {}
    /\ tx' = [tx EXCEPT ![t].remaining = 0]
    /\ UNCHANGED <<rows, ledger, pending>>

\* Some of the material went to others after the unlocked read: 409.
RefuseTaken(t) ==
    /\ tx[t].step = "take"
    /\ tx[t].remaining > 0
    /\ tx[t].todo = {}
    /\ Rollback(t)

\* PATCH /work-orders/:id/status to COMPLETED.  The list of holds is read
\* from the ledger under the work order's lock, which all its rows share.
BeginComplete(t, w) ==
    LET holds == {b \in Bucket : NetReserved(ledger, w, b) > 0}
    IN  /\ LockDocument(t, w)
        /\ MayBecome(committed[w].status, "COMPLETED")
        /\ holds # {}
        /\ tx' = [tx EXCEPT ![t] = [Idle EXCEPT !.op = "complete",
                                                !.step = "consume",
                                                !.doc = w, !.todo = holds]]

\* One turn of consumeMaterial.
ConsumeMaterial(t) ==
    LET w == tx[t].doc
        b == FirstByUuid(tx[t].todo)
        q == NetReserved(ledger, w, b)
    IN  /\ tx[t].step = "consume"
        /\ tx[t].todo # {}
        /\ CanLock(t, b)
        /\ holder' = [holder EXCEPT ![b] = t]
        /\ working' = [working EXCEPT ![b] = Moved(@, -q, -q)]
        /\ Book(t, <<"WORK_ORDER", w, "CONSUME", b>>, b, -q, -q, w)
        /\ tx' = [tx EXCEPT ![t].todo = @ \ {b}]
        /\ UNCHANGED <<committed, ledger>>

\* The end of updateStatus, once the material is held or consumed.
FinishStatus(t) ==
    LET w == tx[t].doc
    IN  /\ \/ tx[t].step = "take" /\ tx[t].remaining <= 0
           \/ tx[t].step = "consume" /\ tx[t].todo = {}
        /\ working' = [working EXCEPT
             ![w].status = IF tx[t].op = "start" THEN "IN_PROGRESS"
                                                 ELSE "COMPLETED"]
        /\ Proceed(t, tx[t].op, "commit", w, 0)
        /\ UNCHANGED <<committed, holder, ledger, pending>>

WorkOrderCommit(t) == tx[t].step = "commit" /\ Commit(t)

WorkOrderNextLock(t) ==
    IF tx[t].todo = {} THEN None
    ELSE IF tx[t].step = "take" /\ tx[t].remaining > 0
         THEN FirstExpiring(tx[t].todo)
         ELSE IF tx[t].step = "consume" THEN FirstByUuid(tx[t].todo) ELSE None

-----------------------------------------------------------------------------
(* What the listings say of a work order, derived on every read.           *)

\* Mutant: the listing counts what is reserved.
PhysicalAtLocation(version, item, location) ==
    MapThenSumSet(LAMBDA b : PhysicalQty(version[b]), BucketsOf(item, location))

\* SUM(available_qty) over all buckets, of the versions a reader sees.
AvailableAtLocation(version, item, location) ==
    MapThenSumSet(LAMBDA b : AvailableQty(version[b]), BucketsOf(item, location))

MaterialStatus(order, available) ==
    LET short == order.requiredQty - available
    IN  CASE order.status = "COMPLETED" ->
               [shortageQty |-> 0, materialStatus |-> "CONSUMED", canStart |-> FALSE]
          [] order.status = "IN_PROGRESS" ->
               [shortageQty |-> 0, materialStatus |-> "HELD", canStart |-> FALSE]
          [] order.status = "ASSIGNED" /\ short <= 0 ->
               [shortageQty |-> 0, materialStatus |-> "SUFFICIENT", canStart |-> TRUE]
          [] order.status = "ASSIGNED" /\ short > 0 ->
               [shortageQty |-> short, materialStatus |-> "SHORTAGE", canStart |-> FALSE]

-----------------------------------------------------------------------------
WorkOrderRequest(t) ==
    \E w \in WorkOrder :
      \/ \E form \in WorkOrderForms : CreateWorkOrder(t, w, form)
      \/ BeginStart(t, w)
      \/ BeginComplete(t, w)

WorkOrderLocalStep(t) ==
    /\ tx[t].doc \in WorkOrder
    /\ \/ FindMaterial(t)
       \/ RefuseStart(t)
       \/ RefuseTaken(t)
       \/ FinishStatus(t)
       \/ WorkOrderCommit(t)

WorkOrderLockStep(t) ==
    /\ tx[t].doc \in WorkOrder
    /\ TakeMaterial(t) \/ ConsumeMaterial(t)

WorkOrderDeadlock(t) ==
    tx[t].doc \in WorkOrder /\ DeadlockVictim(WorkOrderNextLock, t)

WorkOrderStep(t) ==
    WorkOrderRequest(t) \/ WorkOrderLocalStep(t) \/ WorkOrderLockStep(t)

WorkOrdersNext ==
    \E t \in Txn : WorkOrderStep(t) \/ WorkOrderDeadlock(t) \/ Lost(t)

WorkOrdersSpec == Init /\ [][WorkOrdersNext]_vars

-----------------------------------------------------------------------------
(* Properties.                                                             *)

WorkOrdersTypeOK ==
    /\ StockTypeOK
    /\ \A w \in WorkOrder : /\ committed[w] \in WorkOrderRow \cup {Absent}
                            /\ working[w] \in WorkOrderRow \cup {Absent}

\* The units a work order holds according to the ledger, over all buckets.
HeldFor(w) == MapThenSumSet(LAMBDA b : NetReserved(ledger, w, b), Bucket)

ConsumedBy(w) == -SumOver({e \in ledger : e.refId = w},
                          LAMBDA e : e.physicalDelta)

\* A running work order holds exactly what it requires, at its own location
\* and of its own item; one that is not running holds nothing; a completed
\* one has consumed exactly what it required, and nothing else consumes.
WorkOrderHoldsItsMaterial ==
    \A w \in {v \in WorkOrder : committed[v] # Absent} :
      LET order == committed[w]
      IN  /\ HeldFor(w) = IF order.status = "IN_PROGRESS"
                          THEN order.requiredQty ELSE 0
          /\ ConsumedBy(w) = IF order.status = "COMPLETED"
                             THEN order.requiredQty ELSE 0
          /\ \A b \in Bucket :
               NetReserved(ledger, w, b) # 0 =>
                 /\ NetReserved(ledger, w, b) > 0
                 /\ b \in BucketsOf(order.item, order.location)

\* The page's Start button and the start itself add up the stock by different
\* queries, one over all buckets, one over those with something available.
\* Whatever is going on meanwhile, they agree on what is enough: a start is
\* refused at its first look exactly if a listing at that instant says short.
StartDecidesAsShown ==
    \A t \in {u \in Txn : tx[u].op = "start" /\ tx[u].step = "find"} :
      LET order == working[tx[t].doc]
          seen == [b \in Bucket |-> View(t, b)]
      IN  TotalAvailable(t) >= order.requiredQty
            <=> MaterialStatus(order, AvailableAtLocation(seen, order.item,
                                        order.location)).canStart
=============================================================================
