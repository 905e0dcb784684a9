--------------------------------- MODULE Erp ---------------------------------
(***************************************************************************)
(* The whole backend: orders, work orders, transfers, receipts and         *)
(* adjustments share the buckets and run at the same time, one database    *)
(* transaction per request.                                                *)
(***************************************************************************)
EXTENDS OrdersService, WorkOrdersService, TransfersService, InventoryService

\* A number names one document; finitely many can be in use.
ASSUME ErpAssumption ==
    /\ Order \cap WorkOrder = {}
    /\ Order \cap Transfer = {}
    /\ WorkOrder \cap Transfer = {}
    /\ (Order \cup WorkOrder \cup Transfer) \cap (Reference \cup NewBatch) = {}
    /\ IsFiniteSet(Order) /\ IsFiniteSet(WorkOrder)

\* The row that the next statement of t locks, if t may hold others already.
NextLock(t) ==
    IF tx[t].doc \in Order THEN OrderNextLock(t)
    ELSE IF tx[t].doc \in WorkOrder THEN WorkOrderNextLock(t) ELSE None

Step(t) ==
    \/ OrderStep(t)
    \/ WorkOrderStep(t)
    \/ TransferStep(t)
    \/ InventoryStep(t)

Next == \E t \in Txn : Step(t) \/ DeadlockVictim(NextLock, t) \/ Lost(t)

Spec == Init /\ [][Next]_vars

\* The next statement of a transaction that has begun.
Progress(t) ==
    \/ OrderLocalStep(t)
    \/ OrderLockStep(t)
    \/ WorkOrderLocalStep(t)
    \/ WorkOrderLockStep(t)
    \/ TransferProgress(t)
    \/ InventoryProgress(t)

\* A statement is executed, if it has to wait for a row then when its turn has
\* come, and deadlocks are looked for.  Requests need not come.
FairSpec ==
    Spec /\ \A t \in Txn : /\ SF_vars(Progress(t))
                           /\ WF_vars(DeadlockVictim(NextLock, t))

-----------------------------------------------------------------------------
(* Properties.                                                             *)

\* reserved_qty is exactly what somebody holds: the ACTIVE reservations of
\* orders and the open material of work orders, and nothing else.
ReservedIsHeldByAll ==
    \A b \in Bucket :
      Quantities(committed[b]).reservedQty =
        Cardinality(HeldUnits(committed, b))
          + MapThenSumSet(LAMBDA w : NetReserved(ledger, w, b), WorkOrder)

\* Every unit of a batch is accounted for: what was seeded, received or
\* adjusted is at a location, in transit, shipped or consumed.
EveryUnitAccounted ==
    \A d \in Batch :
      LET Moves(S) == SumOver({e \in ledger : /\ e.inventoryId[1] = d
                                              /\ e.refId \in S},
                              LAMBDA e : e.physicalDelta)
      IN  MapThenSumSet(PhysicalOf, {d} \X Location)
            + MapThenSumSet(InTransit,
                            {x \in Transfer : /\ committed[x] # Absent
                                              /\ committed[x].batch = d})
          = MapThenSumSet(LAMBDA b : Quantities(InitialStock[b]).physicalQty,
                          {d} \X Location)
              + Moves({None}) + Moves(Order) + Moves(WorkOrder)

\* Every request comes to its end: whichever documents of the services wait
\* for each other's buckets, no transaction holds what it has locked forever.
EveryRequestEnds == \A t \in Txn : ~IsIdle(t) ~> IsIdle(t)
=============================================================================
