---------------------------- MODULE OrdersService ----------------------------
(***************************************************************************)
(* Customer orders: create, reserve, cancel, fulfil                        *)
(* (src/backend/src/orders/orders.service.ts).                             *)
(*                                                                         *)
(* Every operation is one transaction of StockService.  It locks the order *)
(* first, then the buckets it needs, one statement at a time, so that      *)
(* other transactions run between any two of them.  A request that a guard *)
(* refuses before anything is written changes nothing and is no step here; *)
(* one that is refused later rolls back.                                   *)
(*                                                                         *)
(* The reservations of an order are written only under the order's lock    *)
(* and are kept with it, in the order they were inserted.                  *)
(***************************************************************************)
EXTENDS StockService, Sequences

CONSTANTS
    Order,          \* ids of customer orders
    OrderForms      \* what may be ordered: lines of item, location, quantity

Item == {ItemOf[d] : d \in Batch}

OrderStatus == {"DRAFT", "RESERVED", "CANCELLED", "FULFILLED"}
ReservationStatus == {"ACTIVE", "RELEASED", "CONSUMED"}

OrderLine == [item : Item, location : Location,
              quantity : Nat \ {0}, reservedQty : Int]
Reservation == [line : Nat, inventoryId : Bucket, quantity : Nat \ {0},
                status : ReservationStatus]
OrderRow == [status : OrderStatus, lines : Seq(OrderLine),
             reservations : Seq(Reservation)]

ASSUME OrdersAssumption ==
    /\ Order \subseteq Document
    /\ Absent \notin OrderRow
    /\ \A form \in OrderForms :
         /\ form \in Seq([item : Item, location : Location,
                          quantity : Nat \ {0}])
         /\ form # <<>>

-----------------------------------------------------------------------------
\* Mutant: a line that is held in full still counts as outstanding.
UpToOutstanding(order) ==
    {l \in DOMAIN order.lines :
       order.lines[l].reservedQty <= order.lines[l].quantity}

Outstanding(order) ==
    {l \in DOMAIN order.lines :
       order.lines[l].reservedQty < order.lines[l].quantity}

ActiveReservations(order) ==
    {k \in DOMAIN order.reservations :
       order.reservations[k].status = "ACTIVE"}

\* POST /orders.  With reserveImmediately, reserveWithin runs in the same
\* transaction, so that a shortage also takes the new order back.
CreateOrder(t, o, form, reserveImmediately) ==
    /\ InsertDocument(t, o,
         [status |-> "DRAFT",
          lines |-> [l \in DOMAIN form |->
                       [item |-> form[l].item, location |-> form[l].location,
                        quantity |-> form[l].quantity, reservedQty |-> 0]],
          reservations |-> <<>>])
    /\ IF reserveImmediately THEN Proceed(t, "reserve", "find", o, 1)
                             ELSE Proceed(t, "create", "commit", o, 0)

\* POST /orders/:id/reserve, up to the loop over the outstanding lines.
BeginReserve(t, o) ==
    /\ LockDocument(t, o)
    /\ committed[o].status \notin {"CANCELLED", "FULFILLED"}
    /\ Outstanding(committed[o]) # {}
    /\ Proceed(t, "reserve", "find", o, Min(Outstanding(committed[o])))

\* The unlocked read at the head of reserveLine.
FindBuckets(t) ==
    LET line == working[tx[t].doc].lines[tx[t].line]
    IN  /\ tx[t].step = "find"
        /\ tx' = [tx EXCEPT ![t].step = "take",
                            ![t].remaining = line.quantity - line.reservedQty,
                            ![t].todo = AvailableBuckets(t, line.item,
                                                         line.location)]
        /\ UNCHANGED <<rows, ledger, pending>>

\* One turn of reserveLine's loop: lock the next candidate, look at it again,
\* and hold what it has, or what is still needed.
TakeBucket(t) ==
    LET o == tx[t].doc
        b == FirstExpiring(tx[t].todo)
        available == AvailableQty(working[b])
        take == IF tx[t].remaining <= available THEN tx[t].remaining
                                                ELSE available
        k == Len(working[o].reservations) + 1
    IN  /\ tx[t].step = "take"
        /\ tx[t].remaining > 0
        /\ tx[t].todo # {}
        /\ CanLock(t, b)
        /\ holder' = [holder EXCEPT ![b] = t]
        /\ \/ /\ available <= 0
              /\ tx' = [tx EXCEPT ![t].todo = @ \ {b}]
              /\ UNCHANGED <<working, pending>>
           \/ /\ available > 0
              /\ working' =
                   [working EXCEPT
                      ![b] = Moved(@, 0, take),
                      ![o].reservations =
                         Append(@, [line |-> tx[t].line, inventoryId |-> b,
                                    quantity |-> take, status |-> "ACTIVE"])]
              /\ Book(t, <<"RESERVATION", o, k, "RESERVE">>, b, 0, take, o)
              /\ tx' = [tx EXCEPT ![t].todo = @ \ {b},
                                  ![t].remaining = @ - take]
        /\ UNCHANGED <<committed, ledger>>

\* The candidates did not suffice: the exception undoes the earlier lines too.
RefuseShortage(t) ==
    /\ tx[t].step = "take"
    /\ tx[t].remaining > 0
    /\ tx[t].todo = {}
    /\ Rollback(t)

\* The end of reserveLine, and of reserveWithin after the last line.
FinishLine(t) ==
    LET o == tx[t].doc
        l == tx[t].line
        line == working[o].lines[l]
        after == [working[o] EXCEPT
                    !.lines[l].reservedQty = @ + (line.quantity - @)]
    IN  /\ tx[t].step = "take"
        /\ tx[t].remaining <= 0
        /\ IF Outstanding(after) # {}
           THEN /\ working' = [working EXCEPT ![o] = after]
                /\ Proceed(t, "reserve", "find", o, Min(Outstanding(after)))
           ELSE /\ working' = [working EXCEPT
                                 ![o] = [after EXCEPT !.status = "RESERVED"]]
                /\ Proceed(t, "reserve", "commit", o, 0)
        /\ UNCHANGED <<committed, holder, ledger, pending>>

\* POST /orders/:id/cancel
BeginCancel(t, o) ==
    /\ LockDocument(t, o)
    /\ committed[o].status \notin {"CANCELLED", "FULFILLED"}
    /\ Proceed(t, "cancel", "release", o, 0)

\* POST /orders/:id/fulfil
BeginFulfil(t, o) ==
    /\ LockDocument(t, o)
    /\ committed[o].status = "RESERVED"
    /\ Proceed(t, "fulfil", "release", o, 0)

\* Mutant: a reservation is given the status of its order.
OutcomeOfOrder(t) == IF tx[t].op = "fulfil" THEN "FULFILLED" ELSE "CANCELLED"

Outcome(t) == IF tx[t].op = "fulfil" THEN "CONSUMED" ELSE "RELEASED"

\* The bucket of the active reservation that comes next by inventory_id.
NextReserved(order) ==
    FirstByUuid({order.reservations[k].inventoryId :
                   k \in ActiveReservations(order)})

\* Mutant: cancelling takes the goods out of stock as well.
ShippedAlways(t, q) == q

\* How many of the q units of a reservation leave with it.
Shipped(t, q) == IF tx[t].op = "fulfil" THEN q ELSE 0

\* One turn of releaseActiveReservations.
ReleaseReservation(t) ==
    LET o == tx[t].doc
        b == NextReserved(working[o])
    IN  /\ tx[t].step = "release"
        /\ ActiveReservations(working[o]) # {}
        /\ CanLock(t, b)
        /\ \E k \in ActiveReservations(working[o]) :
             LET q == working[o].reservations[k].quantity
                 shipped == Shipped(t, q)
             IN  /\ working[o].reservations[k].inventoryId = b
                 /\ working' = [working EXCEPT
                                  ![b] = Moved(@, -shipped, -q),
                                  ![o].reservations[k].status = Outcome(t)]
                 /\ Book(t, <<"RESERVATION", o, k, Outcome(t)>>,
                         b, -shipped, -q, o)
        /\ holder' = [holder EXCEPT ![b] = t]
        /\ UNCHANGED <<committed, ledger, tx>>

\* Mutant: the lines go on saying what they held.
ClosedLinesKept(order, status) == [order EXCEPT !.status = status]

\* An order that holds nothing any more, in its final status.
Closed(order, status) ==
    [order EXCEPT
       !.lines = [l \in DOMAIN order.lines |->
                    [order.lines[l] EXCEPT !.reservedQty = 0]],
       !.status = status]

\* The end of releaseActiveReservations, cancel and fulfil.
FinishRelease(t) ==
    LET o == tx[t].doc
    IN  /\ tx[t].step = "release"
        /\ ActiveReservations(working[o]) = {}
        /\ working' = [working EXCEPT ![o] =
             Closed(@, IF tx[t].op = "fulfil" THEN "FULFILLED" ELSE "CANCELLED")]
        /\ Proceed(t, tx[t].op, "commit", o, 0)
        /\ UNCHANGED <<committed, holder, ledger, pending>>

OrderCommit(t) == tx[t].step = "commit" /\ Commit(t)

\* The row that the next statement of an order's transaction locks.
OrderNextLock(t) ==
    IF tx[t].step = "take" /\ tx[t].remaining > 0 /\ tx[t].todo # {}
    THEN FirstExpiring(tx[t].todo)
    ELSE IF /\ tx[t].step = "release"
            /\ ActiveReservations(working[tx[t].doc]) # {}
         THEN NextReserved(working[tx[t].doc])
         ELSE None

-----------------------------------------------------------------------------
\* A request that reaches the service.
OrderRequest(t) ==
    \E o \in Order :
      \/ \E form \in OrderForms, now \in BOOLEAN : CreateOrder(t, o, form, now)
      \/ BeginReserve(t, o)
      \/ BeginCancel(t, o)
      \/ BeginFulfil(t, o)

\* A statement of a transaction that takes no further lock.
OrderLocalStep(t) ==
    /\ tx[t].doc \in Order
    /\ \/ FindBuckets(t)
       \/ FinishLine(t)
       \/ FinishRelease(t)
       \/ RefuseShortage(t)
       \/ OrderCommit(t)

\* A statement that may have to wait for a bucket.
OrderLockStep(t) ==
    /\ tx[t].doc \in Order
    /\ TakeBucket(t) \/ ReleaseReservation(t)

OrderDeadlock(t) == tx[t].doc \in Order /\ DeadlockVictim(OrderNextLock, t)

OrderStep(t) == OrderRequest(t) \/ OrderLocalStep(t) \/ OrderLockStep(t)

OrdersNext ==
    \E t \in Txn : OrderStep(t) \/ OrderDeadlock(t) \/ Lost(t)

OrdersSpec == Init /\ [][OrdersNext]_vars

\* A transaction that can go on does; PostgreSQL serves the waiters of a row
\* lock in turn and looks for deadlocks.  Requests need not come, and nothing
\* need be lost.
OrdersFairness ==
    \A t \in Txn : /\ WF_vars(OrderLocalStep(t))
                   /\ SF_vars(OrderLockStep(t))
                   /\ WF_vars(OrderDeadlock(t))

FairOrdersSpec == OrdersSpec /\ OrdersFairness

-----------------------------------------------------------------------------
(* Properties.                                                             *)

OrdersTypeOK ==
    /\ StockTypeOK
    /\ \A o \in Order : /\ committed[o] \in OrderRow \cup {Absent}
                        /\ working[o] \in OrderRow \cup {Absent}

\* One element per unit of bucket b that an ACTIVE reservation of the order
\* o, whose row is given, holds.
HeldOf(order, o, b) ==
    IF order = Absent THEN {}
    ELSE UNION {{<<o, k>>} \X (1 .. order.reservations[k].quantity) :
                  k \in {j \in ActiveReservations(order) :
                           order.reservations[j].inventoryId = b}}

HeldUnits(version, b) == UNION {HeldOf(version[o], o, b) : o \in Order}

\* reserved_qty is exactly what the ACTIVE reservations of orders hold: no
\* hold is lost, leaked or counted twice, whoever commits or rolls back in
\* between (reservation.entity.ts:23; the bucket locks make it so).
ReservedIsHeld ==
    \A b \in Bucket :
      Quantities(committed[b]).reservedQty = Cardinality(HeldUnits(committed, b))

QuantityOf(order, S) ==
    MapThenSumSet(LAMBDA k : order.reservations[k].quantity, S)

ReservationsOfLine(order, l, status) ==
    {k \in DOMAIN order.reservations : /\ order.reservations[k].line = l
                                       /\ order.reservations[k].status = status}

\* All lines or none: a committed order is RESERVED only when every line is
\* held in full, and otherwise holds nothing; a line's reserved_qty is what
\* its reservations hold; what was shipped is what was ordered, and a
\* cancelled order ships nothing.
AllLinesOrNone ==
    \A o \in {p \in Order : committed[p] # Absent} :
      LET order == committed[o]
      IN  \A l \in DOMAIN order.lines :
            LET line == order.lines[l]
                Total(status) ==
                  QuantityOf(order, ReservationsOfLine(order, l, status))
            IN  /\ line.reservedQty = Total("ACTIVE")
                /\ Total("ACTIVE") = IF order.status = "RESERVED"
                                     THEN line.quantity ELSE 0
                /\ Total("CONSUMED") = IF order.status = "FULFILLED"
                                       THEN line.quantity ELSE 0
                /\ order.status \in {"DRAFT", "RESERVED", "FULFILLED"}
                     => Total("RELEASED") = 0

\* One element per unit of bucket b that has left with the order o.
ShippedOf(order, o, b) ==
    IF order = Absent THEN {}
    ELSE UNION {{<<o, k>>} \X (1 .. order.reservations[k].quantity) :
                  k \in {j \in DOMAIN order.reservations :
                           /\ order.reservations[j].status = "CONSUMED"
                           /\ order.reservations[j].inventoryId = b}}

\* The ledger tells the story of every single order, bucket by bucket: what its
\* rows add up to is what its reservations hold and what it has taken away,
\* whatever else was booked on the bucket.  Added up over the orders this is
\* invariant (c) of GET /inventory/reconcile (inventory.service.ts:208).
LedgerExplainsReservations ==
    \A o \in Order, b \in Bucket :
      LET booked == {e \in ledger : e.inventoryId = b /\ e.refId = o}
      IN  /\ SumOver(booked, LAMBDA e : e.reservedDelta) =
               Cardinality(HeldOf(committed[o], o, b))
          /\ SumOver(booked, LAMBDA e : e.physicalDelta) =
               -Cardinality(ShippedOf(committed[o], o, b))

\* The units of bucket b that a step ships: those that the orders it fulfils held.
UnitsShipped(before, after, b) ==
    UNION {HeldOf(before[o], o, b) :
             o \in {p \in Order :
                      /\ before[p] # Absent
                      /\ before[p].status = "RESERVED"
                      /\ after[p].status = "FULFILLED"}}

\* Goods leave with the order that reserved them, and all of them do: what a
\* step takes out of a bucket is, to the unit, what the orders that it fulfils
\* held there; a step that fulfils none takes nothing.
ShippingTakesWhatIsHeld ==
    [][\A b \in Bucket :
         Quantities(committed[b]).physicalQty
           - Quantities(committed'[b]).physicalQty =
         Cardinality(UnitsShipped(committed, committed', b))]_vars

\* Every transaction ends: it commits, is refused, or is broken off.
EveryTransactionEnds ==
    \A t \in Txn : ~IsIdle(t) ~> IsIdle(t)

\* "two concurrent allocations therefore queue behind each other rather than
\* each holding what the other wants" (stock.service.ts:63).
NoDeadlock == \A S \in SUBSET Txn : ~WaitCycle(OrderNextLock, S)
=============================================================================
