---------------------------- MODULE OrdersProofs ----------------------------
(***************************************************************************)
(* Machine-checked proofs about OrdersService, for any number of           *)
(* transactions, orders, batches and locations and any initial stock:      *)
(*  - what the row locks protect (ProtocolInv), and that the reserved      *)
(*    quantity of a bucket is what the active reservations of orders hold  *)
(*    and never exceeds the physical quantity (HoldInv);                   *)
(*  - the ledger tells the truth: no movement is booked twice, and what is *)
(*    booked explains every bucket and every reservation;                  *)
(*  - goods leave the stock with the order that reserved them, and all of  *)
(*    them do;                                                             *)
(*  - an order is filled entirely or not at all, and from the buckets that *)
(*    expire first;                                                        *)
(*  - every committed operation is one of the book of promises, done at    *)
(*    once (module OrderBook),                                             *)
(* however transactions interleave and end.                                *)
(***************************************************************************)
EXTENDS OrdersRefinement, FefoHistory, StockProofs

(***************************************************************************)
(* The inductive invariant: what the locks protect.                        *)
(***************************************************************************)

\* A running transaction has locked the order it is about; its loop variables
\* name a line of that order and buckets that exist.
ControlOK ==
    \A t \in Txn : ~IsIdle(t) =>
      /\ tx[t].doc \in Order
      /\ holder[tx[t].doc] = t
      /\ working[tx[t].doc] # Absent
      /\ tx[t].step \in {"find", "take", "release", "commit"}
      /\ tx[t].step \in {"find", "take"} =>
           tx[t].line \in DOMAIN working[tx[t].doc].lines
      /\ tx[t].step = "take" => \A b \in tx[t].todo : working[b] # Absent

\* Orders neither create nor remove buckets, and reserve from those there are.
BucketsOK ==
    /\ \A b \in Bucket : working[b] = Absent <=> committed[b] = Absent
    /\ \A o \in Order :
         /\ working[o] # Absent =>
              \A k \in DOMAIN working[o].reservations :
                working[working[o].reservations[k].inventoryId] # Absent
         /\ committed[o] # Absent =>
              \A k \in DOMAIN committed[o].reservations :
                committed[committed[o].reservations[k].inventoryId] # Absent

ProtocolInv == OrdersTypeOK /\ LocksOK /\ ControlOK /\ BucketsOK

-----------------------------------------------------------------------------
\* At the start no row is locked and no transaction runs.
LEMMA InitProtocol == Init => ProtocolInv
  <1> SUFFICES ASSUME Init PROVE ProtocolInv
    OBVIOUS
  <1> USE StockAssumption, OrdersAssumption
  <1>1. OrdersTypeOK
    BY DEF Init, OrdersTypeOK, StockTypeOK, Row, TxRow, Idle, BucketRow
  <1>2. LocksOK
    BY DEF Init, LocksOK
  <1>3. ControlOK
    BY DEF Init, ControlOK, IsIdle, Idle
  <1>4. BucketsOK
    BY DEF Init, BucketsOK, Row
  <1> QED
    BY <1>1, <1>2, <1>3, <1>4 DEF ProtocolInv

\* The elements of the two sequences of an order.
LEMMA OrderParts ==
  ASSUME NEW order \in OrderRow
  PROVE  /\ order.lines \in Seq(OrderLine)
         /\ order.reservations \in Seq(Reservation)
         /\ \A l \in DOMAIN order.lines : order.lines[l] \in OrderLine
         /\ \A k \in DOMAIN order.reservations :
              order.reservations[k] \in Reservation
  <1>1. order.lines \in Seq(OrderLine) /\ order.reservations \in Seq(Reservation)
    BY DEF OrderRow
  <1> QED
    BY <1>1, LenProperties, ElementOfSeq

\* Commit: the rows t has locked keep one version, its locks are gone.
LEMMA CommitProtocol ==
  ASSUME ProtocolInv, NEW t \in Txn, Commit(t), tx[t].doc \in Order
  PROVE  ProtocolInv'
  <1> USE StockAssumption, OrdersAssumption
  <1>1. OrdersTypeOK'
    BY DEF ProtocolInv, Commit, Finish, OrdersTypeOK, StockTypeOK, TxRow, Idle,
           Row
  <1>2. LocksOK'
    BY DEF ProtocolInv, LocksOK, Commit, Finish, OrdersTypeOK, StockTypeOK,
           IsIdle, Idle
  <1>3. ControlOK'
    BY DEF ProtocolInv, LocksOK, ControlOK, Commit, Finish, OrdersTypeOK,
           StockTypeOK, IsIdle, Idle, Row
  <1>4. BucketsOK'
    <2>1. \A b \in Bucket : /\ (working'[b] = Absent <=> working[b] = Absent)
                            /\ (committed'[b] = Absent <=> committed[b] = Absent)
      BY DEF ProtocolInv, BucketsOK, Commit, Row
    <2>2. ASSUME NEW version, version \in {committed, working},
                 NEW o \in Order, version[o] # Absent,
                 NEW k \in DOMAIN version[o].reservations
          PROVE  /\ version[o].reservations[k].inventoryId \in Bucket
                 /\ working[version[o].reservations[k].inventoryId] # Absent
                 /\ committed[version[o].reservations[k].inventoryId] # Absent
      <3>1. version[o] \in OrderRow
        BY <2>2 DEF ProtocolInv, OrdersTypeOK
      <3>2. version[o].reservations[k] \in Reservation
        BY <3>1, <2>2, OrderParts
      <3> QED
        BY <2>2, <3>2 DEF ProtocolInv, BucketsOK, Reservation
    <2>3. \A o \in Order : /\ working'[o] \in {working[o], committed[o]}
                           /\ committed'[o] \in {working[o], committed[o]}
      BY DEF Commit, Row
    <2> QED
      BY <2>1, <2>2, <2>3 DEF ProtocolInv, BucketsOK
  <1> QED
    BY <1>1, <1>2, <1>3, <1>4 DEF ProtocolInv

\* Rollback, for whichever reason: the same, with the other version.
LEMMA RollbackProtocol ==
  ASSUME ProtocolInv, NEW t \in Txn, Rollback(t)
  PROVE  ProtocolInv'
  <1> USE StockAssumption, OrdersAssumption
  <1>1. OrdersTypeOK'
    BY DEF ProtocolInv, Rollback, Finish, OrdersTypeOK, StockTypeOK, TxRow, Idle,
           Row
  <1>2. LocksOK'
    BY DEF ProtocolInv, LocksOK, Rollback, Finish, OrdersTypeOK, StockTypeOK,
           IsIdle, Idle
  <1>3. ControlOK'
    BY DEF ProtocolInv, LocksOK, ControlOK, BucketsOK, Rollback, Finish,
           OrdersTypeOK, StockTypeOK, IsIdle, Idle, Row, TxRow
  <1>4. BucketsOK'
    <2>1. \A b \in Bucket : /\ (working'[b] = Absent <=> working[b] = Absent)
                            /\ (committed'[b] = Absent <=> committed[b] = Absent)
      BY DEF ProtocolInv, BucketsOK, Rollback, Row
    <2>2. ASSUME NEW version, version \in {committed, working},
                 NEW o \in Order, version[o] # Absent,
                 NEW k \in DOMAIN version[o].reservations
          PROVE  /\ version[o].reservations[k].inventoryId \in Bucket
                 /\ working[version[o].reservations[k].inventoryId] # Absent
                 /\ committed[version[o].reservations[k].inventoryId] # Absent
      <3>1. version[o] \in OrderRow
        BY <2>2 DEF ProtocolInv, OrdersTypeOK
      <3>2. version[o].reservations[k] \in Reservation
        BY <3>1, <2>2, OrderParts
      <3> QED
        BY <2>2, <3>2 DEF ProtocolInv, BucketsOK, Reservation
    <2>3. \A o \in Order : /\ working'[o] \in {working[o], committed[o]}
                           /\ committed'[o] \in {working[o], committed[o]}
      BY DEF Rollback, Row
    <2> QED
      BY <2>1, <2>2, <2>3 DEF ProtocolInv, BucketsOK
  <1> QED
    BY <1>1, <1>2, <1>3, <1>4 DEF ProtocolInv

-----------------------------------------------------------------------------
(***************************************************************************)
(* Every statement of a transaction t about an order o has the same shape: *)
(* it locks at most one more row b, and writes only o and b.               *)
(***************************************************************************)

\* What the statement locks and writes.
WritesRows(t, o, b) ==
    /\ committed' = committed
    /\ b \in Bucket \cup {o}
    /\ CanLock(t, o) /\ CanLock(t, b)
    /\ holder' \in [Row -> Txn \cup {None}]
    /\ \A r \in Row \ {o, b} : holder'[r] = holder[r] /\ working'[r] = working[r]
    /\ holder'[o] = t /\ holder'[b] = t
    /\ DOMAIN working' = Row
    /\ DOMAIN pending' = Txn
    /\ \A c \in Bucket : /\ working'[c] \in BucketRow \cup {Absent}
                         /\ (working'[c] = Absent <=> working[c] = Absent)
    /\ working'[o] \in OrderRow
    /\ \A k \in DOMAIN working'[o].reservations :
         working[working'[o].reservations[k].inventoryId] # Absent

\* Where the statement leaves the transaction.
Continues(t, o) ==
    /\ \A u \in Txn \ {t} : tx'[u] = tx[u]
    /\ tx' \in [Txn -> TxRow]
    /\ tx'[t].doc = o
    /\ tx'[t].step \in {"find", "take", "release", "commit"}
    /\ tx'[t].step \in {"find", "take"} =>
         tx'[t].line \in DOMAIN working'[o].lines
    /\ tx'[t].step = "take" => \A c \in tx'[t].todo : working[c] # Absent

\* A statement of that shape keeps the invariant.
LEMMA StatementProtocol ==
  ASSUME ProtocolInv, NEW t \in Txn, NEW o \in Order, NEW b \in Row,
         WritesRows(t, o, b), Continues(t, o)
  PROVE  ProtocolInv'
  <1> USE StockAssumption, OrdersAssumption
  <1>1. o \in Row /\ o \notin Bucket /\ t # None
    BY DEF Row
  <1>2. OrdersTypeOK'
    <2>1. StockTypeOK'
      BY <1>1 DEF ProtocolInv, OrdersTypeOK, StockTypeOK, WritesRows, Continues
    <2>2. ASSUME NEW p \in Order
          PROVE  /\ committed'[p] \in OrderRow \cup {Absent}
                 /\ working'[p] \in OrderRow \cup {Absent}
      <3>1. CASE p = o
        BY <3>1 DEF ProtocolInv, OrdersTypeOK, WritesRows
      <3>2. CASE p # o
        BY <3>2 DEF ProtocolInv, OrdersTypeOK, WritesRows, Row
      <3> QED
        BY <3>1, <3>2
    <2> QED
      BY <2>1, <2>2 DEF OrdersTypeOK
  <1>3. LocksOK'
    BY <1>1 DEF ProtocolInv, OrdersTypeOK, StockTypeOK, LocksOK, IsIdle,
                WritesRows, Continues
  <1>4. ASSUME NEW u \in Txn, u # t, ~IsIdle(u)
        PROVE  /\ tx[u].doc \in Row \ {o, b}
               /\ working'[tx[u].doc] = working[tx[u].doc]
    BY <1>1, <1>4 DEF ProtocolInv, ControlOK, WritesRows, CanLock, Row
  <1>5. ControlOK'
    <2> SUFFICES ASSUME NEW u \in Txn, ~IsIdle(u)'
                 PROVE  /\ tx'[u].doc \in Order
                        /\ holder'[tx'[u].doc] = u
                        /\ working'[tx'[u].doc] # Absent
                        /\ tx'[u].step \in {"find", "take", "release", "commit"}
                        /\ tx'[u].step \in {"find", "take"} =>
                             tx'[u].line \in DOMAIN working'[tx'[u].doc].lines
                        /\ tx'[u].step = "take" =>
                             \A c \in tx'[u].todo : working'[c] # Absent
      BY DEF ControlOK
    <2>1. \A v \in Txn : \A c \in tx'[v].todo : c \in Bucket
      BY DEF Continues, TxRow
    <2>2. CASE u = t
      BY <1>1, <2>1, <2>2 DEF WritesRows, Continues
    <2>3. CASE u # t
      <3>1. tx'[u] = tx[u] /\ ~IsIdle(u)
        BY <2>3 DEF Continues, IsIdle
      <3> QED
        BY <1>4, <2>1, <2>3, <3>1 DEF ProtocolInv, ControlOK, WritesRows
    <2> QED
      BY <2>2, <2>3
  <1>6. BucketsOK'
    <2>1. ASSUME NEW p \in Order, working'[p] # Absent,
                 NEW k \in DOMAIN working'[p].reservations
          PROVE  working'[working'[p].reservations[k].inventoryId] # Absent
      <3>1. working'[p] \in OrderRow
        BY <1>2, <2>1 DEF OrdersTypeOK
      <3>2. working'[p].reservations[k].inventoryId \in Bucket
        BY <3>1, <2>1, OrderParts DEF Reservation
      <3>3. CASE p = o
        BY <3>2, <3>3, <2>1 DEF WritesRows
      <3>4. CASE p # o
        BY <3>2, <3>4, <2>1 DEF WritesRows, Row, ProtocolInv, BucketsOK
      <3> QED
        BY <3>3, <3>4
    <2>2. ASSUME NEW p \in Order, committed'[p] # Absent,
                 NEW k \in DOMAIN committed'[p].reservations
          PROVE  committed'[committed'[p].reservations[k].inventoryId] # Absent
      BY <2>2 DEF WritesRows, ProtocolInv, BucketsOK
    <2>3. \A c \in Bucket : working'[c] = Absent <=> committed'[c] = Absent
      BY DEF WritesRows, ProtocolInv, BucketsOK
    <2> QED
      BY <2>1, <2>2, <2>3 DEF BucketsOK
  <1> QED
    BY <1>2, <1>3, <1>5, <1>6 DEF ProtocolInv

\* The order that a running transaction is about, which it has locked.
LEMMA OwnOrder ==
  ASSUME ProtocolInv, NEW t \in Txn, ~IsIdle(t), NEW o, o = tx[t].doc
  PROVE  /\ o \in Order /\ o \in Row /\ o \notin Bucket
         /\ holder[o] = t
         /\ working[o] \in OrderRow
         /\ tx[t] \in TxRow
  BY StockAssumption, OrdersAssumption
     DEF ProtocolInv, OrdersTypeOK, StockTypeOK, ControlOK, Row

\* POST /orders keeps the invariant; the first line exists.
LEMMA CreateProtocol ==
  ASSUME ProtocolInv, NEW t \in Txn, NEW o \in Order, NEW form \in OrderForms,
         NEW now \in BOOLEAN, CreateOrder(t, o, form, now)
  PROVE  ProtocolInv'
  <1> USE StockAssumption, OrdersAssumption
  <1> DEFINE lines == [l \in DOMAIN form |->
                         [item |-> form[l].item, location |-> form[l].location,
                          quantity |-> form[l].quantity, reservedQty |-> 0]]
             order == [status |-> "DRAFT", lines |-> lines, reservations |-> <<>>]
  <1>1. o \in Row /\ o \notin Bucket /\ t # None
    BY DEF Row
  <1>2. order \in OrderRow /\ DOMAIN lines = DOMAIN form
    <2>1. lines \in [DOMAIN form -> OrderLine]
      <3> DEFINE FormLine == [item : Item, location : Location,
                              quantity : Nat \ {0}]
      <3>1. form \in Seq(FormLine)
        OBVIOUS
      <3>2. \A l \in DOMAIN form : form[l] \in FormLine
        <4> HIDE DEF FormLine
        <4> QED
          BY <3>1, LenProperties, ElementOfSeq
      <3> QED
        BY <3>2 DEF OrderLine
    <2>2. lines \in Seq(OrderLine)
      <3> HIDE DEF lines
      <3> QED
        BY <2>1, FunctionIsSeq
    <2>3. <<>> \in Seq(Reservation)
      BY EmptySeq
    <2> HIDE DEF lines
    <2>4. order \in OrderRow
      BY <2>2, <2>3 DEF OrderRow, OrderStatus
    <2> QED
      BY <2>1, <2>4
  <1>3. 1 \in DOMAIN form
    <2>1. Len(form) \in Nat /\ DOMAIN form = 1 .. Len(form) /\ Len(form) # 0
      BY LenProperties, EmptySeq
    <2> QED
      BY <2>1
  <1>4. working' = [working EXCEPT ![o] = order]
    BY DEF CreateOrder, InsertDocument
  <1>5. WritesRows(t, o, o)
    <2> HIDE DEF order
    <2>1. \A r \in Row : working'[r] = IF r = o THEN order ELSE working[r]
      BY <1>4 DEF ProtocolInv, OrdersTypeOK, StockTypeOK
    <2>2. DOMAIN order.reservations = {}
      BY DEF order
    <2> QED
      BY <1>1, <1>2, <1>4, <2>1, <2>2
      DEF CreateOrder, InsertDocument, ProtocolInv, OrdersTypeOK, StockTypeOK,
          WritesRows, CanLock, Row
  <1>6. Continues(t, o)
    <2>1. working'[o].lines = lines
      BY <1>1, <1>4 DEF ProtocolInv, OrdersTypeOK, StockTypeOK
    <2>2. tx \in [Txn -> TxRow] /\ o \in Document
      BY DEF ProtocolInv, OrdersTypeOK, StockTypeOK
    <2> HIDE DEF lines
    <2>3. CASE now
      <3>1. Proceed(t, "reserve", "find", o, 1)
        BY <2>3 DEF CreateOrder
      <3> QED
        BY <1>2, <1>3, <2>1, <2>2, <3>1, Proceeds DEF Continues
    <2>4. CASE ~now
      <3>1. Proceed(t, "create", "commit", o, 0)
        BY <2>4 DEF CreateOrder
      <3> QED
        BY <2>2, <3>1, Proceeds DEF Continues
    <2> QED
      BY <2>3, <2>4
  <1> QED
    BY <1>1, <1>5, <1>6, StatementProtocol

\* So does the beginning of a reservation, at an outstanding line.
LEMMA BeginReserveProtocol ==
  ASSUME ProtocolInv, NEW t \in Txn, NEW o \in Order, BeginReserve(t, o)
  PROVE  ProtocolInv'
  <1> USE StockAssumption, OrdersAssumption
  <1> DEFINE line == Min(Outstanding(committed[o]))
  <1>1. o \in Row /\ o \notin Bucket /\ t # None
    BY DEF Row
  <1>2. working[o] = committed[o] /\ working[o] \in OrderRow
    BY <1>1 DEF BeginReserve, LockDocument, CanLock, ProtocolInv, OrdersTypeOK,
                LocksOK, IsIdle
  <1>3. line \in DOMAIN working[o].lines /\ line \in Nat
    <2>1. DOMAIN committed[o].lines \subseteq Nat
      BY <1>2, OrderParts, LenProperties
    <2>2. line \in Outstanding(committed[o])
      BY <2>1, MinIsLeast DEF BeginReserve, Outstanding
    <2> QED
      BY <1>2, <2>1, <2>2 DEF Outstanding
  <1> HIDE DEF line
  <1>4. WritesRows(t, o, o)
    BY <1>1, <1>2
       DEF BeginReserve, LockDocument, ProtocolInv, OrdersTypeOK, StockTypeOK,
           BucketsOK, WritesRows, Row
  <1>5. Continues(t, o)
    <2>1. Proceed(t, "reserve", "find", o, line)
      BY DEF BeginReserve, line
    <2>2. working'[o] = working[o]
      BY DEF BeginReserve, LockDocument
    <2>3. tx \in [Txn -> TxRow] /\ o \in Document
      BY DEF ProtocolInv, OrdersTypeOK, StockTypeOK
    <2> QED
      BY <1>3, <2>1, <2>2, <2>3, Proceeds DEF Continues
  <1> QED
    BY <1>1, <1>4, <1>5, StatementProtocol

\* The two operations that release what an order holds begin alike.
LEMMA BeginReleaseProtocol ==
  ASSUME ProtocolInv, NEW t \in Txn, NEW o \in Order,
         BeginCancel(t, o) \/ BeginFulfil(t, o)
  PROVE  ProtocolInv'
  <1> USE StockAssumption, OrdersAssumption
  <1>1. /\ LockDocument(t, o)
        /\ \E op \in {"cancel", "fulfil"} : Proceed(t, op, "release", o, 0)
    BY DEF BeginCancel, BeginFulfil
  <1>2. o \in Row /\ o \notin Bucket /\ t # None
    BY DEF Row
  <1>3. working[o] = committed[o] /\ working[o] \in OrderRow
    BY <1>1, <1>2 DEF LockDocument, CanLock, ProtocolInv, OrdersTypeOK, LocksOK,
                      IsIdle
  <1>4. WritesRows(t, o, o)
    BY <1>1, <1>2, <1>3
       DEF LockDocument, ProtocolInv, OrdersTypeOK, StockTypeOK, BucketsOK,
           WritesRows, Row
  <1>5. Continues(t, o)
    <2>1. tx \in [Txn -> TxRow] /\ o \in Document
      BY DEF ProtocolInv, OrdersTypeOK, StockTypeOK
    <2> QED
      BY <1>1, <2>1, Proceeds DEF Continues
  <1> QED
    BY <1>2, <1>4, <1>5, StatementProtocol

\* A bucket that exists is one of physical and reserved quantities; a bucket
\* with something available exists, whichever version is looked at.
LEMMA BucketVersions ==
  ASSUME ProtocolInv, NEW b \in Bucket
  PROVE  /\ b \in Row
         /\ working[b] # Absent => working[b] \in BucketRow
         /\ committed[b] # Absent => committed[b] \in BucketRow
         /\ (working[b] = Absent <=> committed[b] = Absent)
         /\ \A t \in Txn : AvailableQty(View(t, b)) > 0 => working[b] # Absent
  BY DEF ProtocolInv, OrdersTypeOK, StockTypeOK, BucketsOK, Row, View,
         AvailableQty, Quantities

\* The candidates that reserveLine reads are buckets that exist.
LEMMA FindProtocol ==
  ASSUME ProtocolInv, NEW t \in Txn, tx[t].doc \in Order, FindBuckets(t)
  PROVE  ProtocolInv'
  <1> USE StockAssumption, OrdersAssumption
  <1> DEFINE o == tx[t].doc
             line == working[o].lines[tx[t].line]
             todo == AvailableBuckets(t, line.item, line.location)
             remaining == line.quantity - line.reservedQty
  <1>1. tx[t].step = "find" /\ ~IsIdle(t)
    BY DEF FindBuckets, IsIdle
  <1>2. /\ o \in Order /\ o \in Row /\ o \notin Bucket
        /\ holder[o] = t
        /\ working[o] \in OrderRow
        /\ tx[t] \in TxRow
    BY <1>1, OwnOrder
  <1>3. tx[t].line \in DOMAIN working[o].lines
    BY <1>1 DEF ProtocolInv, ControlOK
  <1>4. remaining \in Int
    BY <1>2, <1>3, OrderParts DEF OrderLine
  <1>5. todo \subseteq Bucket /\ \A b \in todo : working[b] # Absent
    BY BucketVersions DEF AvailableBuckets, BucketsOf
  <1>6. tx' = [tx EXCEPT ![t].step = "take", ![t].remaining = remaining,
                         ![t].todo = todo]
    BY DEF FindBuckets
  <1>7. UNCHANGED <<committed, working, holder, ledger, pending>>
    BY DEF FindBuckets, rows
  <1> HIDE DEF o, line, todo, remaining
  <1>8. WritesRows(t, o, o)
    BY <1>2, <1>7
       DEF WritesRows, CanLock, ProtocolInv, OrdersTypeOK, StockTypeOK, BucketsOK
  <1>9. Continues(t, o)
    <2>1. /\ tx'[t].op = tx[t].op /\ tx'[t].step = "take"
          /\ tx'[t].doc = tx[t].doc /\ tx'[t].line = tx[t].line
          /\ tx'[t].remaining = remaining /\ tx'[t].todo = todo
          /\ tx'[t] = [f \in {"op", "step", "doc", "line", "remaining", "todo"}
                         |-> tx'[t][f]]
      BY <1>2, <1>6 DEF ProtocolInv, OrdersTypeOK, StockTypeOK, TxRow
    <2>2. tx'[t] \in TxRow
      BY <1>2, <1>4, <1>5, <2>1 DEF TxRow
    <2>3. \A u \in Txn \ {t} : tx'[u] = tx[u]
      BY <1>6 DEF ProtocolInv, OrdersTypeOK, StockTypeOK
    <2>4. tx' \in [Txn -> TxRow]
      BY <1>6, <2>2, <2>3 DEF ProtocolInv, OrdersTypeOK, StockTypeOK
    <2> QED
      BY <1>3, <1>5, <1>7, <2>1, <2>3, <2>4 DEF Continues, o
  <1> QED
    BY <1>2, <1>8, <1>9, StatementProtocol

\* What TakeBucket does to a bucket that has nothing left, and to one that has.
SkipsBucket(t, b) ==
    /\ AvailableQty(working[b]) <= 0
    /\ tx' = [tx EXCEPT ![t].todo = @ \ {b}]
    /\ UNCHANGED <<working, pending>>

HoldsUnits(t, o, b, take) ==
    /\ 0 < take /\ take <= AvailableQty(working[b]) /\ take <= tx[t].remaining
    /\ take = AvailableQty(working[b]) \/ take = tx[t].remaining
    /\ working' =
         [working EXCEPT
            ![b] = Moved(@, 0, take),
            ![o].reservations =
              Append(@, [line |-> tx[t].line, inventoryId |-> b,
                         quantity |-> take, status |-> "ACTIVE"])]
    /\ Book(t, <<"RESERVATION", o, Len(working[o].reservations) + 1, "RESERVE">>,
            b, 0, take, o)
    /\ tx' = [tx EXCEPT ![t].todo = @ \ {b}, ![t].remaining = @ - take]

\* Some order o and bucket b are those of the step.
TakesFrom(t, o, b) ==
    /\ o = tx[t].doc /\ b = FirstExpiring(tx[t].todo)
    /\ tx[t].step = "take" /\ ~IsIdle(t)
    /\ tx[t].line \in DOMAIN working[o].lines
    /\ tx[t].remaining \in Nat \ {0}
    /\ b \in tx[t].todo /\ b \in Row
    /\ working[b] \in BucketRow
    /\ CanLock(t, b)
    /\ holder' = [holder EXCEPT ![b] = t]
    /\ UNCHANGED <<committed, ledger>>
    /\ \/ SkipsBucket(t, b)
       \/ \E take \in Nat \ {0} : HoldsUnits(t, o, b, take)

\* TakeBucket is a step of that shape.
LEMMA TakeFacts ==
  ASSUME ProtocolInv, NEW t \in Txn, tx[t].doc \in Order, TakeBucket(t)
  PROVE  \E o \in Order, b \in Bucket : TakesFrom(t, o, b)
  <1> DEFINE b == FirstExpiring(tx[t].todo)
             available == AvailableQty(working[b])
             take == IF tx[t].remaining <= available THEN tx[t].remaining
                                                     ELSE available
  <1>1. tx[t].step = "take" /\ ~IsIdle(t)
    BY DEF TakeBucket, IsIdle
  <1>2. tx[t] \in TxRow /\ tx[t].todo \in SUBSET Bucket /\ tx[t].remaining \in Int
    BY <1>1, OwnOrder DEF TxRow
  <1>3. b \in tx[t].todo /\ b \in Bucket
    BY <1>2, FirstExpiringIn DEF TakeBucket
  <1> HIDE DEF b
  <1>4. b \in Row /\ working[b] \in BucketRow
    BY <1>1, <1>3, BucketVersions DEF ProtocolInv, ControlOK
  <1>5. available \in Int
    BY <1>4, StockAssumption DEF AvailableQty, Quantities, BucketRow
  <1>6. tx[t].remaining > 0 /\ CanLock(t, b)
        /\ holder' = [holder EXCEPT ![b] = t] /\ UNCHANGED <<committed, ledger>>
    BY DEF TakeBucket, b
  <1>7. SkipsBucket(t, b) \/ (available > 0 /\ HoldsUnits(t, tx[t].doc, b, take))
    <2>1. CASE available <= 0
      BY <2>1, <1>5 DEF TakeBucket, SkipsBucket, b
    <2>2. CASE available > 0
      <3>1. /\ 0 < take /\ take <= available /\ take <= tx[t].remaining
            /\ take = available \/ take = tx[t].remaining
        BY <2>2, <1>2, <1>5, <1>6
      <3>2. ~ (available <= 0)
        BY <2>2, <1>5
      <3>3. \/ available <= 0
            \/ /\ working' =
                     [working EXCEPT
                        ![b] = Moved(@, 0, take),
                        ![tx[t].doc].reservations =
                          Append(@, [line |-> tx[t].line, inventoryId |-> b,
                                     quantity |-> take, status |-> "ACTIVE"])]
               /\ Book(t, <<"RESERVATION", tx[t].doc,
                            Len(working[tx[t].doc].reservations) + 1, "RESERVE">>,
                       b, 0, take, tx[t].doc)
               /\ tx' = [tx EXCEPT ![t].todo = @ \ {b},
                                   ![t].remaining = @ - take]
        BY Zenon DEF TakeBucket, b
      <3> HIDE DEF take
      <3> QED
        BY <2>2, <3>1, <3>2, <3>3, Zenon DEF HoldsUnits
    <2> QED
      BY <1>5, <2>1, <2>2
  <1>8. available > 0 => take \in Nat \ {0}
    BY <1>2, <1>5, <1>6
  <1>9. tx[t].line \in DOMAIN working[tx[t].doc].lines
    BY <1>1 DEF ProtocolInv, ControlOK
  <1> HIDE DEF available, take
  <1>10. TakesFrom(t, tx[t].doc, b)
    BY <1>1, <1>2, <1>3, <1>4, <1>6, <1>7, <1>8, <1>9 DEF b, TakesFrom
  <1> QED
    BY <1>3, <1>10

\* The rows of a bucket and of an order after units have been held.
LEMMA HeldRows ==
  ASSUME ProtocolInv, NEW t \in Txn, NEW o \in Order, NEW b \in Bucket,
         NEW take \in Nat \ {0}, HoldsUnits(t, o, b, take),
         working[b] \in BucketRow, working[o] \in OrderRow,
         tx[t].line \in Nat,
         NEW held, held = [line |-> tx[t].line, inventoryId |-> b,
                           quantity |-> take, status |-> "ACTIVE"]
  PROVE  /\ held \in Reservation
         /\ working'[b] = Moved(working[b], 0, take)
         /\ working'[b] \in BucketRow
         /\ working'[o].reservations = Append(working[o].reservations, held)
         /\ working'[o].lines = working[o].lines
         /\ working'[o].status = working[o].status
         /\ working'[o] \in OrderRow
         /\ DOMAIN working' = Row
         /\ \A r \in Row \ {b, o} : working'[r] = working[r]
  <1> USE StockAssumption, OrdersAssumption
  <1> DEFINE order == [working[o] EXCEPT !.reservations = Append(@, held)]
             moved == Moved(working[b], 0, take)
  <1>1. held \in Reservation
    BY DEF Reservation, ReservationStatus
  <1>2. b \in Row /\ o \in Row /\ b # o
    BY DEF Row
  <1>3. moved \in BucketRow
    BY DEF Moved, BucketRow
  <1>4. working' = [working EXCEPT ![b] = moved,
                                   ![o].reservations = Append(@, held)]
    BY DEF HoldsUnits
  <1>5. Append(working[o].reservations, held) \in Seq(Reservation)
    BY <1>1, OrderParts, AppendProperties
  <1> HIDE DEF moved
  <1>6. /\ order.reservations = Append(working[o].reservations, held)
        /\ order.lines = working[o].lines /\ order.status = working[o].status
        /\ order \in OrderRow
    BY <1>5 DEF OrderRow
  <1>7. /\ DOMAIN working' = Row /\ working'[b] = moved
        /\ working'[o] = order
        /\ \A r \in Row \ {b, o} : working'[r] = working[r]
    BY <1>2, <1>4 DEF ProtocolInv, OrdersTypeOK, StockTypeOK
  <1> HIDE DEF order
  <1> QED
    BY <1>1, <1>3, <1>6, <1>7 DEF moved

\* Holding units is a statement of the usual shape.
LEMMA HoldTouches ==
  ASSUME ProtocolInv, NEW t \in Txn, NEW o \in Order, NEW b \in Bucket,
         NEW take \in Nat \ {0}, HoldsUnits(t, o, b, take),
         working[b] \in BucketRow, working[o] \in OrderRow,
         tx[t].line \in Nat, holder[o] = t, CanLock(t, b),
         holder' = [holder EXCEPT ![b] = t], UNCHANGED committed
  PROVE  WritesRows(t, o, b)
  <1> USE StockAssumption, OrdersAssumption
  <1>1. b \in Row /\ o \in Row /\ b # o /\ working[b] # Absent /\ working[o] # Absent
    BY DEF Row
  <1>2. PICK held : held = [line |-> tx[t].line, inventoryId |-> b,
                            quantity |-> take, status |-> "ACTIVE"]
    OBVIOUS
  <1>3. /\ held \in Reservation
        /\ working'[b] \in BucketRow
        /\ working'[o].reservations = Append(working[o].reservations, held)
        /\ working'[o] \in OrderRow
        /\ DOMAIN working' = Row
        /\ \A r \in Row \ {b, o} : working'[r] = working[r]
    BY <1>2, HeldRows
  <1>4. \A k \in DOMAIN working'[o].reservations :
          working[working'[o].reservations[k].inventoryId] # Absent
    <2>1. held.inventoryId = b
      BY <1>2
    <2>2. PICK old : old = working[o].reservations
      OBVIOUS
    <2>3. /\ old \in Seq(Reservation) /\ Len(old) \in Nat
          /\ DOMAIN old = 1 .. Len(old)
      BY <2>2, OrderParts, LenProperties
    <2>4. /\ DOMAIN Append(old, held) = 1 .. Len(old) + 1
          /\ \A k \in 1 .. Len(old) : Append(old, held)[k] = old[k]
          /\ Append(old, held)[Len(old) + 1] = held
      BY <1>3, <2>3, AppendProperties, LenProperties
    <2>5. \A k \in DOMAIN old : working[old[k].inventoryId] # Absent
      BY <1>1, <2>2 DEF ProtocolInv, BucketsOK
    <2>6. ASSUME NEW k \in DOMAIN Append(old, held)
          PROVE  working[Append(old, held)[k].inventoryId] # Absent
      <3>1. k \in DOMAIN old \/ k = Len(old) + 1
        BY <2>3, <2>4
      <3> QED
        BY <1>1, <2>1, <2>3, <2>4, <2>5, <3>1
    <2> QED
      BY <1>3, <2>2, <2>6
  <1>5. \A c \in Bucket : /\ working'[c] \in BucketRow \cup {Absent}
                         /\ (working'[c] = Absent <=> working[c] = Absent)
    BY <1>1, <1>3 DEF ProtocolInv, OrdersTypeOK, StockTypeOK, Row
  <1>6. /\ holder' \in [Row -> Txn \cup {None}]
        /\ holder'[o] = t /\ holder'[b] = t
        /\ \A r \in Row \ {o, b} : holder'[r] = holder[r]
    BY <1>1 DEF ProtocolInv, OrdersTypeOK, StockTypeOK
  <1>7. DOMAIN pending' = Txn
    BY DEF HoldsUnits, Book, ProtocolInv, OrdersTypeOK, StockTypeOK
  <1> QED
    BY <1>3, <1>4, <1>5, <1>6, <1>7 DEF WritesRows, CanLock

\* TakeBucket keeps the invariant, whichever way it goes.
LEMMA TakeProtocol ==
  ASSUME ProtocolInv, NEW t \in Txn, tx[t].doc \in Order, TakeBucket(t)
  PROVE  ProtocolInv'
  <1> USE StockAssumption, OrdersAssumption
  <1>0. PICK o \in Order, b \in Bucket : TakesFrom(t, o, b)
    BY TakeFacts
  <1>1. /\ o = tx[t].doc /\ tx[t].step = "take" /\ ~IsIdle(t)
        /\ tx[t].line \in DOMAIN working[o].lines
        /\ tx[t].remaining \in Nat \ {0}
        /\ b \in Row /\ working[b] \in BucketRow
        /\ CanLock(t, b)
        /\ holder' = [holder EXCEPT ![b] = t]
        /\ UNCHANGED <<committed, ledger>>
        /\ \/ SkipsBucket(t, b)
           \/ \E take \in Nat \ {0} : HoldsUnits(t, o, b, take)
    BY <1>0 DEF TakesFrom
  <1>2. /\ o \in Row /\ o \notin Bucket
        /\ holder[o] = t
        /\ working[o] \in OrderRow
        /\ tx[t] \in TxRow
    BY <1>1, OwnOrder
  <1>3. \A c \in tx[t].todo : c \in Bucket /\ working[c] # Absent
    BY <1>1, <1>2 DEF ProtocolInv, ControlOK, TxRow
  <1>4. \A k \in DOMAIN working[o].reservations :
          working[working[o].reservations[k].inventoryId] # Absent
    BY <1>1, <1>2 DEF ProtocolInv, BucketsOK
  <1>5. /\ holder' \in [Row -> Txn \cup {None}]
        /\ holder'[o] = t /\ holder'[b] = t
        /\ \A r \in Row \ {o, b} : holder'[r] = holder[r]
    BY <1>1, <1>2 DEF ProtocolInv, OrdersTypeOK, StockTypeOK
  <1>6. CASE SkipsBucket(t, b)
    <2>1. WritesRows(t, o, b)
      BY <1>1, <1>2, <1>4, <1>5, <1>6
         DEF WritesRows, CanLock, SkipsBucket, ProtocolInv, OrdersTypeOK, StockTypeOK
    <2>2. Continues(t, o)
      <3>1. /\ tx'[t].op = tx[t].op /\ tx'[t].step = "take"
            /\ tx'[t].doc = o /\ tx'[t].line = tx[t].line
            /\ tx'[t].remaining = tx[t].remaining
            /\ tx'[t].todo = tx[t].todo \ {b}
            /\ tx'[t] = [f \in {"op", "step", "doc", "line", "remaining", "todo"}
                           |-> tx'[t][f]]
        BY <1>1, <1>2, <1>6
           DEF SkipsBucket, ProtocolInv, OrdersTypeOK, StockTypeOK, TxRow
      <3>2. tx'[t] \in TxRow
        BY <1>1, <1>2, <3>1 DEF TxRow
      <3>3. \A u \in Txn \ {t} : tx'[u] = tx[u]
        BY <1>1, <1>6 DEF SkipsBucket, ProtocolInv, OrdersTypeOK, StockTypeOK
      <3>4. tx' \in [Txn -> TxRow]
        BY <1>1, <1>6, <3>2, <3>3 DEF SkipsBucket, ProtocolInv, OrdersTypeOK, StockTypeOK
      <3> QED
        BY <1>1, <1>3, <1>6, <3>1, <3>3, <3>4 DEF Continues, SkipsBucket
    <2> QED
      BY <1>1, <1>2, <2>1, <2>2, StatementProtocol
  <1>7. ASSUME NEW take \in Nat \ {0}, HoldsUnits(t, o, b, take)
        PROVE  ProtocolInv'
    <2>1. tx[t].line \in Nat
      BY <1>2 DEF TxRow
    <2>4. WritesRows(t, o, b)
      BY <1>1, <1>2, <1>7, <2>1, HoldTouches
    <2>6. working'[o].lines = working[o].lines
      BY <1>1, <1>2, <1>7, <2>1, HeldRows
    <2>5. Continues(t, o)
      <3>1. /\ tx'[t].op = tx[t].op /\ tx'[t].step = "take"
            /\ tx'[t].doc = o /\ tx'[t].line = tx[t].line
            /\ tx'[t].remaining = tx[t].remaining - take
            /\ tx'[t].todo = tx[t].todo \ {b}
            /\ tx'[t] = [f \in {"op", "step", "doc", "line", "remaining", "todo"}
                           |-> tx'[t][f]]
        BY <1>1, <1>2, <1>7
           DEF HoldsUnits, ProtocolInv, OrdersTypeOK, StockTypeOK, TxRow
      <3>2. tx'[t] \in TxRow
        BY <1>1, <1>2, <3>1 DEF TxRow
      <3>3. \A u \in Txn \ {t} : tx'[u] = tx[u]
        BY <1>1, <1>7 DEF HoldsUnits, ProtocolInv, OrdersTypeOK, StockTypeOK
      <3>4. tx' \in [Txn -> TxRow]
        BY <1>1, <1>7, <3>2, <3>3 DEF HoldsUnits, ProtocolInv, OrdersTypeOK, StockTypeOK
      <3> QED
        BY <1>1, <1>3, <2>6, <3>1, <3>3, <3>4 DEF Continues
    <2> QED
      BY <1>1, <1>2, <2>4, <2>5, StatementProtocol
  <1> QED
    BY <1>1, <1>6, <1>7

\* An order whose line l has been given another reserved_qty.
LEMMA LineUpdated ==
  ASSUME NEW order \in OrderRow, NEW l \in DOMAIN order.lines, NEW q \in Int,
         NEW after, after = [order EXCEPT !.lines[l].reservedQty = q]
  PROVE  /\ after \in OrderRow
         /\ after.reservations = order.reservations
         /\ after.status = order.status
         /\ DOMAIN after.lines = DOMAIN order.lines
  <1>1. PICK line : line = [order.lines[l] EXCEPT !.reservedQty = q]
    OBVIOUS
  <1>2. order.lines[l] \in OrderLine /\ order.lines \in Seq(OrderLine)
    BY OrderParts
  <1>3. line \in OrderLine
    BY <1>1, <1>2 DEF OrderLine
  <1>4. PICK lines : lines = [order.lines EXCEPT ![l] = line]
    OBVIOUS
  <1>5. lines \in Seq(OrderLine) /\ DOMAIN lines = DOMAIN order.lines
    BY <1>2, <1>3, <1>4, ExceptSeq, LenProperties
  <1>6. after = [order EXCEPT !.lines = lines]
    BY <1>1, <1>4
  <1> QED
    BY <1>5, <1>6 DEF OrderRow

\* What FinishLine does about the order o, whose row becomes that given.
FinishesLine(t, o, order) ==
    /\ o = tx[t].doc /\ tx[t].step = "take" /\ ~IsIdle(t)
    /\ working' = [working EXCEPT ![o] = order]
    /\ order.reservations = working[o].reservations
    /\ \/ \E m \in DOMAIN order.lines :
            m \in Nat /\ Proceed(t, "reserve", "find", o, m)
       \/ Proceed(t, "reserve", "commit", o, 0)
    /\ UNCHANGED <<committed, holder, ledger, pending>>

\* FinishLine is a step of that shape.
LEMMA FinishLineFacts ==
  ASSUME ProtocolInv, NEW t \in Txn, tx[t].doc \in Order, FinishLine(t)
  PROVE  \E o \in Order, order \in OrderRow : FinishesLine(t, o, order)
  <1>1. PICK o \in Order : o = tx[t].doc
    OBVIOUS
  <1>2. tx[t].step = "take" /\ ~IsIdle(t)
    BY DEF FinishLine, IsIdle
  <1>3. working[o] \in OrderRow
    BY <1>1, <1>2, OwnOrder
  <1>4. PICK l \in DOMAIN working[o].lines : l = tx[t].line
    BY <1>1, <1>2 DEF ProtocolInv, ControlOK
  <1>5. PICK after : after = [working[o] EXCEPT
                                !.lines[l].reservedQty =
                                  @ + (working[o].lines[l].quantity - @)]
    OBVIOUS
  <1>6. after \in OrderRow /\ after.reservations = working[o].reservations
    <2>1. PICK q \in Int : q = working[o].lines[l].reservedQty
                                + (working[o].lines[l].quantity
                                     - working[o].lines[l].reservedQty)
      BY <1>3, OrderParts DEF OrderLine
    <2>2. PICK order \in OrderRow : order = working[o]
      BY <1>3
    <2>3. after = [order EXCEPT !.lines[l].reservedQty = q]
      BY <1>5, <2>1, <2>2
    <2>4. l \in DOMAIN order.lines
      BY <2>2
    <2>5. after \in OrderRow /\ after.reservations = order.reservations
      BY <2>3, <2>4, LineUpdated
    <2> QED
      BY <2>2, <2>5
  <1>7. /\ IF Outstanding(after) # {}
           THEN /\ working' = [working EXCEPT ![o] = after]
                /\ Proceed(t, "reserve", "find", o, Min(Outstanding(after)))
           ELSE /\ working' = [working EXCEPT
                                 ![o] = [after EXCEPT !.status = "RESERVED"]]
                /\ Proceed(t, "reserve", "commit", o, 0)
        /\ UNCHANGED <<committed, holder, ledger, pending>>
    BY <1>1, <1>4, <1>5 DEF FinishLine
  <1>8. CASE Outstanding(after) # {}
    <2>1. PICK m : m = Min(Outstanding(after))
      OBVIOUS
    <2>2. DOMAIN after.lines \subseteq Nat
      BY <1>6, OrderParts, LenProperties
    <2>3. m \in Outstanding(after)
      BY <1>8, <2>1, <2>2, MinIsLeast DEF Outstanding
    <2>4. m \in DOMAIN after.lines /\ m \in Nat
      BY <2>2, <2>3 DEF Outstanding
    <2>5. FinishesLine(t, o, after)
      BY <1>1, <1>2, <1>6, <1>7, <1>8, <2>1, <2>4 DEF FinishesLine
    <2> QED
      BY <1>6, <2>5
  <1>9. CASE Outstanding(after) = {}
    <2>1. PICK order : order = [after EXCEPT !.status = "RESERVED"]
      OBVIOUS
    <2>2. order \in OrderRow /\ order.reservations = after.reservations
      BY <1>6, <2>1 DEF OrderRow, OrderStatus
    <2>3. FinishesLine(t, o, order)
      BY <1>1, <1>2, <1>6, <1>7, <1>9, <2>1, <2>2 DEF FinishesLine
    <2> QED
      BY <2>2, <2>3
  <1> QED
    BY <1>8, <1>9

\* The end of reserveLine keeps the invariant.
LEMMA FinishLineProtocol ==
  ASSUME ProtocolInv, NEW t \in Txn, tx[t].doc \in Order, FinishLine(t)
  PROVE  ProtocolInv'
  <1> USE StockAssumption, OrdersAssumption
  <1>1. PICK o \in Order, order \in OrderRow : FinishesLine(t, o, order)
    BY FinishLineFacts
  <1>2. /\ o \in Row /\ o \notin Bucket
        /\ holder[o] = t
        /\ working[o] \in OrderRow
    BY <1>1, OwnOrder DEF FinishesLine
  <1>3. WritesRows(t, o, o)
    <2>1. /\ working' = [working EXCEPT ![o] = order]
          /\ order.reservations = working[o].reservations
          /\ UNCHANGED <<committed, holder, ledger, pending>>
      BY <1>1 DEF FinishesLine
    <2> QED
      BY <1>2, <2>1 DEF WritesRows, CanLock, ProtocolInv, OrdersTypeOK, StockTypeOK,
                        BucketsOK, Row
  <1>4. Continues(t, o)
    <2>1. working'[o].lines = order.lines
      BY <1>1, <1>2 DEF FinishesLine, ProtocolInv, OrdersTypeOK, StockTypeOK
    <2>2. tx \in [Txn -> TxRow] /\ o \in Document
      BY DEF ProtocolInv, OrdersTypeOK, StockTypeOK
    <2>3. \/ \E m \in DOMAIN order.lines :
               m \in Nat /\ Proceed(t, "reserve", "find", o, m)
          \/ Proceed(t, "reserve", "commit", o, 0)
      BY <1>1 DEF FinishesLine
    <2>4. ASSUME NEW m \in DOMAIN order.lines, m \in Nat,
                 Proceed(t, "reserve", "find", o, m)
          PROVE  Continues(t, o)
      BY <2>1, <2>2, <2>4, Proceeds DEF Continues
    <2>5. CASE Proceed(t, "reserve", "commit", o, 0)
      BY <2>2, <2>5, Proceeds DEF Continues
    <2> QED
      BY <2>3, <2>4, <2>5
  <1> QED
    BY <1>2, <1>3, <1>4, StatementProtocol

\* Closing an order keeps its reservations.
LEMMA ClosedOrder ==
  ASSUME NEW order \in OrderRow, NEW status \in OrderStatus
  PROVE  /\ Closed(order, status) \in OrderRow
         /\ Closed(order, status).reservations = order.reservations
         /\ Closed(order, status).status = status
  <1>1. PICK lines : lines = [l \in DOMAIN order.lines |->
                                [order.lines[l] EXCEPT !.reservedQty = 0]]
    OBVIOUS
  <1>2. ASSUME NEW l \in DOMAIN order.lines
        PROVE  [order.lines[l] EXCEPT !.reservedQty = 0] \in OrderLine
    <2>1. PICK line \in OrderLine : line = order.lines[l]
      BY OrderParts
    <2>2. [line EXCEPT !.reservedQty = 0] \in OrderLine
      BY DEF OrderLine
    <2> QED
      BY <2>1, <2>2
  <1>3. lines \in [DOMAIN order.lines -> OrderLine]
    BY <1>1, <1>2
  <1>4. lines \in Seq(OrderLine)
    BY <1>3, OrderParts, FunctionIsSeq
  <1>5. Closed(order, status) = [order EXCEPT !.lines = lines, !.status = status]
    BY <1>1 DEF Closed
  <1> QED
    BY <1>4, <1>5 DEF OrderRow

\* The end of cancel and fulfil keeps the invariant.
LEMMA FinishReleaseProtocol ==
  ASSUME ProtocolInv, NEW t \in Txn, tx[t].doc \in Order, FinishRelease(t)
  PROVE  ProtocolInv'
  <1> USE StockAssumption, OrdersAssumption
  <1>1. PICK o \in Order : o = tx[t].doc
    OBVIOUS
  <1>2. tx[t].step = "release" /\ ~IsIdle(t)
    BY DEF FinishRelease, IsIdle
  <1>3. /\ o \in Row /\ o \notin Bucket
        /\ holder[o] = t
        /\ working[o] \in OrderRow
        /\ tx[t] \in TxRow
    BY <1>1, <1>2, OwnOrder
  <1>6. PICK status \in OrderStatus :
          status = IF tx[t].op = "fulfil" THEN "FULFILLED" ELSE "CANCELLED"
    BY DEF OrderStatus
  <1>7. PICK order : order = Closed(working[o], status)
    OBVIOUS
  <1>8. order \in OrderRow /\ order.reservations = working[o].reservations
    BY <1>3, <1>7, ClosedOrder
  <1>9. /\ working' = [working EXCEPT ![o] = order]
        /\ UNCHANGED <<committed, holder, ledger, pending>>
    BY <1>1, <1>6, <1>7 DEF FinishRelease
  <1>10. WritesRows(t, o, o)
    BY <1>3, <1>8, <1>9
       DEF WritesRows, CanLock, ProtocolInv, OrdersTypeOK, StockTypeOK, BucketsOK, Row
  <1>11. Continues(t, o)
    <2>1. tx \in [Txn -> TxRow] /\ o \in Document
      BY DEF ProtocolInv, OrdersTypeOK, StockTypeOK
    <2>2. Proceed(t, tx[t].op, "commit", o, 0)
      BY <1>1 DEF FinishRelease
    <2> QED
      <3>1. tx[t].op \in {"none", "create", "reserve", "cancel", "fulfil", "start",
                          "complete", "dispatch", "receive", "receipt",
                          "adjustment"}
        BY <1>3 DEF TxRow
      <3> QED
        BY <2>1, <2>2, <3>1, Proceeds DEF Continues
  <1> QED
    BY <1>3, <1>10, <1>11, StatementProtocol

\* What ReleaseReservation does about the order o, its active reservation k
\* of q units of the bucket b, of which it ships some or none.
ReleasesUnits(t, o, b, k, q, shipped) ==
    /\ o = tx[t].doc
    /\ tx[t].step = "release" /\ ~IsIdle(t)
    /\ k \in ActiveReservations(working[o])
    /\ working[o].reservations[k].inventoryId = b
    /\ working[o].reservations[k].quantity = q
    /\ shipped \in {0, q}
    /\ shipped = Shipped(t, q)
    /\ CanLock(t, b)
    /\ holder' = [holder EXCEPT ![b] = t]
    /\ working' = [working EXCEPT ![b] = Moved(@, -shipped, -q),
                                 ![o].reservations[k].status = Outcome(t)]
    /\ Book(t, <<"RESERVATION", o, k, Outcome(t)>>, b, -shipped, -q, o)
    /\ UNCHANGED <<committed, ledger, tx>>

\* ReleaseReservation is a step of that shape.
LEMMA ReleaseFacts ==
  ASSUME ProtocolInv, NEW t \in Txn, tx[t].doc \in Order, ReleaseReservation(t)
  PROVE  \E o \in Order, b \in Bucket, q \in Nat \ {0}, shipped \in Nat :
           \E k \in DOMAIN working[o].reservations :
             ReleasesUnits(t, o, b, k, q, shipped)
  <1>1. PICK o \in Order : o = tx[t].doc
    OBVIOUS
  <1>2. tx[t].step = "release" /\ ~IsIdle(t)
    BY DEF ReleaseReservation, IsIdle
  <1>3. working[o] \in OrderRow
    BY <1>1, <1>2, OwnOrder
  <1>4. PICK b : b = NextReserved(working[o])
    OBVIOUS
  <1>5. PICK k \in ActiveReservations(working[o]) :
          LET q == working[o].reservations[k].quantity
              shipped == Shipped(t, q)
          IN  /\ working[o].reservations[k].inventoryId = b
              /\ working' = [working EXCEPT
                               ![b] = Moved(@, -shipped, -q),
                               ![o].reservations[k].status = Outcome(t)]
              /\ Book(t, <<"RESERVATION", o, k, Outcome(t)>>,
                      b, -shipped, -q, o)
    BY <1>1, <1>4 DEF ReleaseReservation
  <1>6. /\ CanLock(t, b) /\ holder' = [holder EXCEPT ![b] = t]
        /\ UNCHANGED <<committed, ledger, tx>>
    BY <1>1, <1>4 DEF ReleaseReservation
  <1>7. k \in DOMAIN working[o].reservations
    BY <1>5 DEF ActiveReservations
  <1>8. working[o].reservations[k] \in Reservation
    BY <1>3, <1>7, OrderParts
  <1>9. PICK q \in Nat \ {0} : q = working[o].reservations[k].quantity
    BY <1>8 DEF Reservation
  <1>10. PICK shipped \in {0, q} : shipped = Shipped(t, q)
    BY DEF Shipped
  <1>11. b \in Bucket
    BY <1>5, <1>8 DEF Reservation
  <1>12. ReleasesUnits(t, o, b, k, q, shipped)
    BY <1>1, <1>2, <1>5, <1>6, <1>9, <1>10 DEF ReleasesUnits, Book
  <1> QED
    BY <1>7, <1>11, <1>12

\* The rows of a bucket and of an order after a reservation has been released.
LEMMA ReleasedRows ==
  ASSUME ProtocolInv, NEW t \in Txn, NEW o \in Order, NEW b \in Bucket,
         NEW q \in Nat \ {0}, NEW shipped \in Nat,
         NEW k \in DOMAIN working[o].reservations,
         ReleasesUnits(t, o, b, k, q, shipped),
         working[b] \in BucketRow, working[o] \in OrderRow
  PROVE  /\ working'[b] = Moved(working[b], -shipped, -q)
         /\ working'[b] \in BucketRow
         /\ working'[o] \in OrderRow
         /\ working'[o].lines = working[o].lines
         /\ working'[o].status = working[o].status
         /\ DOMAIN working'[o].reservations = DOMAIN working[o].reservations
         /\ \A j \in DOMAIN working[o].reservations :
              working'[o].reservations[j] =
                IF j = k THEN [working[o].reservations[k] EXCEPT
                                 !.status = Outcome(t)]
                         ELSE working[o].reservations[j]
         /\ DOMAIN working' = Row
         /\ \A r \in Row \ {b, o} : working'[r] = working[r]
  <1> USE StockAssumption, OrdersAssumption
  <1>1. PICK order \in OrderRow : order = working[o]
    OBVIOUS
  <1>2. PICK old \in Reservation : old = order.reservations[k]
    BY <1>1, OrderParts
  <1>3. PICK new : new = [old EXCEPT !.status = Outcome(t)]
    OBVIOUS
  <1>4. new \in Reservation
    BY <1>3 DEF Reservation, ReservationStatus, Outcome
  <1>5. PICK reservations : reservations = [order.reservations EXCEPT ![k] = new]
    OBVIOUS
  <1>6. /\ reservations \in Seq(Reservation)
        /\ DOMAIN reservations = DOMAIN order.reservations
        /\ \A j \in DOMAIN order.reservations :
             reservations[j] = IF j = k THEN new ELSE order.reservations[j]
    <2>1. order.reservations \in Seq(Reservation) /\ k \in DOMAIN order.reservations
      BY <1>1, OrderParts
    <2> QED
      BY <1>4, <1>5, <2>1, ExceptSeq, LenProperties
  <1>7. PICK after : after = [order EXCEPT !.reservations = reservations]
    OBVIOUS
  <1>8. /\ after \in OrderRow /\ after.reservations = reservations
        /\ after.lines = order.lines /\ after.status = order.status
    BY <1>6, <1>7 DEF OrderRow
  <1>9. PICK moved : moved = Moved(working[b], -shipped, -q)
    OBVIOUS
  <1>10. moved \in BucketRow
    BY <1>9 DEF Moved, BucketRow
  <1>11. b \in Row /\ o \in Row /\ b # o
    BY DEF Row
  <1>12. after = [working[o] EXCEPT !.reservations[k].status = Outcome(t)]
    BY <1>1, <1>2, <1>3, <1>5, <1>7
  <1>13. /\ DOMAIN working' = Row /\ working'[b] = moved /\ working'[o] = after
         /\ \A r \in Row \ {b, o} : working'[r] = working[r]
    <2>1. PICK status : status = Outcome(t)
      OBVIOUS
    <2>2. working' = [working EXCEPT ![b] = Moved(@, -shipped, -q),
                                     ![o].reservations[k].status = status]
      BY <2>1 DEF ReleasesUnits
    <2>3. DOMAIN working = Row
      BY DEF ProtocolInv, OrdersTypeOK, StockTypeOK
    <2>4. working'[o] = [working[o] EXCEPT !.reservations[k].status = status]
      BY <1>11, <2>2, <2>3
    <2>5. /\ DOMAIN working' = Row /\ working'[b] = moved
          /\ \A r \in Row \ {b, o} : working'[r] = working[r]
      BY <1>9, <1>11, <2>2, <2>3
    <2> QED
      BY <1>12, <2>1, <2>4, <2>5
  <1> QED
    BY <1>1, <1>2, <1>3, <1>6, <1>8, <1>9, <1>10, <1>13

\* ReleaseReservation keeps the invariant.
LEMMA ReleaseProtocol ==
  ASSUME ProtocolInv, NEW t \in Txn, tx[t].doc \in Order, ReleaseReservation(t)
  PROVE  ProtocolInv'
  <1> USE StockAssumption, OrdersAssumption
  <1>1. PICK o \in Order, b \in Bucket, q \in Nat \ {0}, shipped \in Nat :
          \E k \in DOMAIN working[o].reservations :
            ReleasesUnits(t, o, b, k, q, shipped)
    BY ReleaseFacts
  <1>2. PICK k \in DOMAIN working[o].reservations :
          ReleasesUnits(t, o, b, k, q, shipped)
    BY <1>1
  <1>3. /\ o = tx[t].doc /\ tx[t].step = "release" /\ ~IsIdle(t)
        /\ working[o].reservations[k].inventoryId = b
        /\ CanLock(t, b)
        /\ holder' = [holder EXCEPT ![b] = t]
        /\ UNCHANGED <<committed, ledger, tx>>
        /\ Book(t, <<"RESERVATION", o, k, Outcome(t)>>, b, -shipped, -q, o)
    BY <1>2 DEF ReleasesUnits
  <1>4. /\ o \in Row /\ o \notin Bucket /\ b \in Row /\ b # o
        /\ holder[o] = t
        /\ working[o] \in OrderRow /\ working[o] # Absent
        /\ tx[t] \in TxRow
    BY <1>3, OwnOrder DEF Row
  <1>5. \A j \in DOMAIN working[o].reservations :
          working[working[o].reservations[j].inventoryId] # Absent
    BY <1>4 DEF ProtocolInv, BucketsOK
  <1>6. working[b] \in BucketRow
    BY <1>3, <1>5, BucketVersions
  <1>7. /\ working'[b] \in BucketRow
        /\ working'[o] \in OrderRow
        /\ DOMAIN working'[o].reservations = DOMAIN working[o].reservations
        /\ \A j \in DOMAIN working[o].reservations :
             working'[o].reservations[j] =
               IF j = k THEN [working[o].reservations[k] EXCEPT
                                !.status = Outcome(t)]
                        ELSE working[o].reservations[j]
        /\ DOMAIN working' = Row
        /\ \A r \in Row \ {b, o} : working'[r] = working[r]
    BY <1>2, <1>4, <1>6, ReleasedRows
  <1>8. WritesRows(t, o, b)
    <2>1. \A j \in DOMAIN working'[o].reservations :
            working'[o].reservations[j].inventoryId
              = working[o].reservations[j].inventoryId
      <3>1. PICK old \in Reservation : old = working[o].reservations[k]
        BY <1>4, OrderParts
      <3>2. [old EXCEPT !.status = Outcome(t)].inventoryId = old.inventoryId
        BY DEF Reservation
      <3> QED
        BY <1>7, <3>1, <3>2
    <2>2. \A j \in DOMAIN working'[o].reservations :
            working[working'[o].reservations[j].inventoryId] # Absent
      BY <1>5, <1>7, <2>1
    <2>3. \A c \in Bucket : /\ working'[c] \in BucketRow \cup {Absent}
                           /\ (working'[c] = Absent <=> working[c] = Absent)
      BY <1>4, <1>6, <1>7 DEF ProtocolInv, OrdersTypeOK, StockTypeOK, Row
    <2>4. /\ holder' \in [Row -> Txn \cup {None}]
          /\ holder'[o] = t /\ holder'[b] = t
          /\ \A r \in Row \ {o, b} : holder'[r] = holder[r]
      BY <1>3, <1>4 DEF ProtocolInv, OrdersTypeOK, StockTypeOK
    <2>5. DOMAIN pending' = Txn
      BY <1>3 DEF ProtocolInv, OrdersTypeOK, StockTypeOK, Book
    <2> QED
      BY <1>3, <1>4, <1>7, <2>2, <2>3, <2>4, <2>5 DEF WritesRows, CanLock
  <1>9. Continues(t, o)
    BY <1>3 DEF Continues, ProtocolInv, OrdersTypeOK, StockTypeOK
  <1> QED
    BY <1>4, <1>8, <1>9, StatementProtocol

\* A deadlock's victim is rolled back.
LEMMA DeadlockRollsBack ==
  ASSUME NEW t \in Txn, OrderDeadlock(t)
  PROVE  Rollback(t)
  BY DEF OrderDeadlock, DeadlockVictim

\* Every step of the specification keeps the protocol.
LEMMA StepProtocol ==
  ASSUME ProtocolInv, [OrdersNext]_vars
  PROVE  ProtocolInv'
  <1>1. CASE UNCHANGED vars
    BY <1>1 DEF vars, ProtocolInv, OrdersTypeOK, StockTypeOK, LocksOK, ControlOK,
                BucketsOK, IsIdle
  <1>2. CASE OrdersNext
    <2>1. PICK t \in Txn : OrderStep(t) \/ OrderDeadlock(t) \/ Lost(t)
      BY <1>2 DEF OrdersNext
    <2>2. CASE OrderRequest(t)
      BY <2>2, CreateProtocol, BeginReserveProtocol, BeginReleaseProtocol
         DEF OrderRequest
    <2>3. CASE OrderLocalStep(t)
      BY <2>3, FindProtocol, FinishLineProtocol, FinishReleaseProtocol,
         RollbackProtocol, CommitProtocol
         DEF OrderLocalStep, RefuseShortage, OrderCommit
    <2>4. CASE OrderLockStep(t)
      BY <2>4, TakeProtocol, ReleaseProtocol DEF OrderLockStep
    <2>5. CASE OrderDeadlock(t)
      BY <2>5, DeadlockRollsBack, RollbackProtocol
    <2>6. CASE Lost(t)
      BY <2>6, RollbackProtocol DEF Lost
    <2> QED
      BY <2>1, <2>2, <2>3, <2>4, <2>5, <2>6 DEF OrderStep
  <1> QED
    BY <1>1, <1>2

\* What the row locks protect, in every reachable state: a row that nobody has
\* locked has no uncommitted version, a running transaction has locked the
\* order it is about, and no order reserves from a bucket that is not there.
THEOREM Protocol == OrdersSpec => []ProtocolInv
  <1>1. Init => ProtocolInv
    BY InitProtocol
  <1>2. ProtocolInv /\ [OrdersNext]_vars => ProtocolInv'
    BY StepProtocol
  <1> QED
    BY <1>1, <1>2, PTL DEF OrdersSpec

\* The rows of the database and the variables of the running transactions have
\* their types, for any number of transactions, orders and buckets.
THEOREM TypeCorrect == OrdersSpec => []OrdersTypeOK
  <1>1. ProtocolInv => OrdersTypeOK
    BY DEF ProtocolInv
  <1> QED
    BY <1>1, Protocol, PTL

-----------------------------------------------------------------------------
(***************************************************************************)
(* Why no unit of stock is promised twice.  A bucket and an order that one *)
(* transaction has locked may both be ahead of their committed versions,   *)
(* but then by the same units; they are committed or rolled back together. *)
(***************************************************************************)

\* Uncommitted holds of an order are in buckets its transaction has locked.
HoldsLocked ==
    \A o \in Order, b \in Bucket :
      holder[o] # holder[b] =>
        HeldOf(working[o], o, b) = HeldOf(committed[o], o, b)

\* A version of the database counts the units held in the bucket b.
Counted(version, b) ==
    /\ IsFiniteSet(HeldUnits(version, b))
    /\ Quantities(version[b]).reservedQty = Cardinality(HeldUnits(version, b))

Covered(row) == Quantities(row).reservedQty <= Quantities(row).physicalQty

HoldOK ==
    \A b \in Bucket :
      /\ Counted(committed, b) /\ Covered(committed[b])
      /\ Counted(working, b) /\ Covered(working[b])

HoldInv == ProtocolInv /\ HoldsLocked /\ HoldOK

-----------------------------------------------------------------------------
(***************************************************************************)
(* The units that a reservation holds, and those that an order holds.      *)
(***************************************************************************)

\* The q units of reservation k of the order o.
Units(o, k, q) == {<<o, k>>} \X (1 .. q)

\* There are q of them.
LEMMA UnitsCounted ==
  ASSUME NEW o, NEW k, NEW q \in Nat
  PROVE  IsFiniteSet(Units(o, k, q)) /\ Cardinality(Units(o, k, q)) = q
  <1>1. IsFiniteSet(1 .. q) /\ Cardinality(1 .. q) = q
    BY FS_Interval
  <1>2. IsFiniteSet({<<o, k>>}) /\ Cardinality({<<o, k>>}) = 1
    BY FS_Singleton
  <1> QED
    BY <1>1, <1>2, FS_Product DEF Units

\* A unit belongs to one reservation of one order.
LEMMA UnitsDisjoint ==
  ASSUME NEW o, NEW k, NEW q, NEW p, NEW j, NEW r,
         NEW x, x \in Units(o, k, q), x \in Units(p, j, r)
  PROVE  o = p /\ k = j
  BY DEF Units

\* The units an order holds in a bucket are those of its active reservations.
LEMMA HeldElements ==
  ASSUME NEW order, order # Absent, NEW o, NEW b, NEW x
  PROVE  (x \in HeldOf(order, o, b)) <=>
           \E k \in DOMAIN order.reservations :
             /\ order.reservations[k].status = "ACTIVE"
             /\ order.reservations[k].inventoryId = b
             /\ x \in Units(o, k, order.reservations[k].quantity)
  BY DEF HeldOf, ActiveReservations, Units

\* An order with the same reservations holds the same units.
LEMMA SameReservations ==
  ASSUME NEW order, NEW after, order # Absent, after # Absent,
         order.reservations = after.reservations, NEW o, NEW b
  PROVE  HeldOf(order, o, b) = HeldOf(after, o, b)
  BY DEF HeldOf, ActiveReservations

\* Another reservation adds its units to those held in its bucket.
LEMMA HeldAfterAppend ==
  ASSUME NEW order \in OrderRow, NEW after \in OrderRow, NEW held \in Reservation,
         after.reservations = Append(order.reservations, held),
         held.status = "ACTIVE", NEW o, NEW c,
         NEW k, k = Len(order.reservations) + 1
  PROVE  HeldOf(after, o, c) =
           HeldOf(order, o, c)
             \cup (IF c = held.inventoryId THEN Units(o, k, held.quantity) ELSE {})
  <1>1. order # Absent /\ after # Absent
    BY OrdersAssumption
  <1>2. PICK old \in Seq(Reservation) : old = order.reservations
    BY OrderParts
  <1>3. PICK new : new = after.reservations
    OBVIOUS
  <1>4. /\ Len(old) \in Nat /\ DOMAIN old = 1 .. Len(old)
        /\ DOMAIN new = 1 .. Len(old) + 1
        /\ \A j \in 1 .. Len(old) : new[j] = old[j]
        /\ new[Len(old) + 1] = held
    <2>1. new = Append(old, held)
      BY <1>2, <1>3
    <2> QED
      BY <2>1, AppendProperties, LenProperties
  <1>5. DOMAIN new = DOMAIN old \cup {k} /\ k \notin DOMAIN old
    BY <1>2, <1>4
  <1>6. new[k] = held /\ \A j \in DOMAIN old : new[j] = old[j]
    BY <1>2, <1>4
  <1>7. ASSUME NEW x
        PROVE  (x \in HeldOf(after, o, c)) <=>
                 \/ x \in HeldOf(order, o, c)
                 \/ c = held.inventoryId /\ x \in Units(o, k, held.quantity)
    <2>1. (x \in HeldOf(after, o, c)) <=>
            \E j \in DOMAIN new :
              /\ new[j].status = "ACTIVE" /\ new[j].inventoryId = c
              /\ x \in Units(o, j, new[j].quantity)
      <3>1. PICK row : row = after
        OBVIOUS
      <3>2. row # Absent /\ row.reservations = new
        BY <1>1, <1>3, <3>1
      <3>3. (x \in HeldOf(row, o, c)) <=>
              \E j \in DOMAIN row.reservations :
                /\ row.reservations[j].status = "ACTIVE"
                /\ row.reservations[j].inventoryId = c
                /\ x \in Units(o, j, row.reservations[j].quantity)
        BY <3>2, HeldElements
      <3> QED
        BY <3>1, <3>2, <3>3
    <2>2. (x \in HeldOf(order, o, c)) <=>
            \E j \in DOMAIN old :
              /\ old[j].status = "ACTIVE" /\ old[j].inventoryId = c
              /\ x \in Units(o, j, old[j].quantity)
      BY <1>1, <1>2, HeldElements
    <2> QED
      BY <1>5, <1>6, <2>1, <2>2
  <1> QED
    BY <1>7

\* The active reservation k of an order, of q units of b, becomes inactive.
GivesBack(order, after, k, b, q) ==
    /\ k \in ActiveReservations(order)
    /\ order.reservations[k].inventoryId = b
    /\ order.reservations[k].quantity = q
    /\ DOMAIN after.reservations = DOMAIN order.reservations
    /\ after.reservations[k].status # "ACTIVE"
    /\ \A j \in DOMAIN order.reservations \ {k} :
         after.reservations[j] = order.reservations[j]

\* A reservation that is no longer active gives its units back.
LEMMA HeldAfterRelease ==
  ASSUME NEW order \in OrderRow, NEW after \in OrderRow,
         NEW k, NEW b, NEW q, GivesBack(order, after, k, b, q),
         NEW o, NEW c
  PROVE  /\ HeldOf(after, o, b) = HeldOf(order, o, b) \ Units(o, k, q)
         /\ Units(o, k, q) \subseteq HeldOf(order, o, b)
         /\ c # b => HeldOf(after, o, c) = HeldOf(order, o, c)
  <1>1. order # Absent /\ after # Absent
    BY OrdersAssumption
  <1>2. /\ k \in DOMAIN order.reservations
        /\ order.reservations[k].status = "ACTIVE"
        /\ order.reservations[k].inventoryId = b
        /\ order.reservations[k].quantity = q
        /\ DOMAIN after.reservations = DOMAIN order.reservations
        /\ after.reservations[k].status # "ACTIVE"
        /\ \A j \in DOMAIN order.reservations \ {k} :
             after.reservations[j] = order.reservations[j]
    BY DEF GivesBack, ActiveReservations
  <1>3. ASSUME NEW d, NEW x
        PROVE  (x \in HeldOf(after, o, d)) <=>
                 /\ x \in HeldOf(order, o, d)
                 /\ ~(d = b /\ x \in Units(o, k, q))
    <2>1. (x \in HeldOf(after, o, d)) <=>
            \E j \in DOMAIN order.reservations :
              /\ after.reservations[j].status = "ACTIVE"
              /\ after.reservations[j].inventoryId = d
              /\ x \in Units(o, j, after.reservations[j].quantity)
      BY <1>1, <1>2, HeldElements
    <2>2. (x \in HeldOf(order, o, d)) <=>
            \E j \in DOMAIN order.reservations :
              /\ order.reservations[j].status = "ACTIVE"
              /\ order.reservations[j].inventoryId = d
              /\ x \in Units(o, j, order.reservations[j].quantity)
      BY <1>1, HeldElements
    <2>3. \A j \in DOMAIN order.reservations :
            x \in Units(o, k, q) /\ x \in Units(o, j, order.reservations[j].quantity)
              => j = k
      BY UnitsDisjoint
    <2> QED
      BY <1>2, <2>1, <2>2, <2>3
  <1>4. HeldOf(after, o, b) = HeldOf(order, o, b) \ Units(o, k, q)
    BY <1>3
  <1>5. c # b => HeldOf(after, o, c) = HeldOf(order, o, c)
    BY <1>3
  <1>6. \A x \in Units(o, k, q) : x \in HeldOf(order, o, b)
    BY <1>1, <1>2, HeldElements
  <1> QED
    BY <1>4, <1>5, <1>6

-----------------------------------------------------------------------------
(***************************************************************************)
(* The units held in a bucket, and what the statements do to them.         *)
(***************************************************************************)

\* Two versions in which every order holds the same in a bucket.
LEMMA SameHolds ==
  ASSUME NEW v, NEW w, NEW b,
         \A o \in Order : HeldOf(v[o], o, b) = HeldOf(w[o], o, b)
  PROVE  HeldUnits(v, b) = HeldUnits(w, b)
  BY DEF HeldUnits

\* At the start nothing is reserved and there are no orders.
LEMMA InitHolds == Init => HoldInv
  <1> SUFFICES ASSUME Init PROVE HoldInv
    OBVIOUS
  <1> USE StockAssumption, OrdersAssumption
  <1>1. \A o \in Order : committed[o] = Absent /\ working[o] = Absent
    BY DEF Init, Row
  <1>2. HoldsLocked
    BY <1>1 DEF HoldsLocked
  <1>3. ASSUME NEW b \in Bucket
        PROVE  /\ Counted(committed, b) /\ Covered(committed[b])
               /\ Counted(working, b) /\ Covered(working[b])
    <2>1. HeldUnits(committed, b) = {} /\ HeldUnits(working, b) = {}
      BY <1>1 DEF HeldUnits, HeldOf
    <2>2. committed[b] = InitialStock[b] /\ working[b] = InitialStock[b]
      BY DEF Init, Row
    <2>3. /\ Quantities(InitialStock[b]).reservedQty = 0
          /\ 0 <= Quantities(InitialStock[b]).physicalQty
      <3>1. CASE InitialStock[b] = Absent
        BY <3>1 DEF Quantities
      <3>2. CASE InitialStock[b] \in [physicalQty : Nat, reservedQty : {0}]
        <4>1. InitialStock[b] \in BucketRow
          BY <3>2 DEF BucketRow
        <4> QED
          BY <3>2, <4>1 DEF Quantities
      <3> QED
        BY <3>1, <3>2
    <2> QED
      BY <2>1, <2>2, <2>3, FS_EmptySet DEF Counted, Covered
  <1> QED
    BY <1>2, <1>3, InitProtocol DEF HoldInv, HoldOK

\* A statement about the order o that locks and writes at most one bucket b more
\* keeps the invariant, if it keeps the counts of that bucket.
LEMMA StatementHolds ==
  ASSUME HoldInv, NEW t \in Txn, NEW o \in Order, NEW b \in Bucket \cup {o},
         committed' = committed, CanLock(t, o), CanLock(t, b),
         holder'[o] = t, holder'[b] = t,
         \A r \in Row \ {o, b} : holder'[r] = holder[r] /\ working'[r] = working[r],
         \A c \in Bucket \ {b} :
           HeldOf(working'[o], o, c) = HeldOf(working[o], o, c),
         b \in Bucket => Counted(working', b) /\ Covered(working'[b])
  PROVE  HoldsLocked' /\ HoldOK'
  <1> USE StockAssumption, OrdersAssumption
  <1>1. \A c \in Bucket : c \in Row /\ c \notin Order
    BY DEF Row
  <1>2. \A p \in Order : p \in Row /\ p \notin Bucket
    BY DEF Row
  <1>3. \A r \in Row : holder[r] = None => working[r] = committed[r]
    BY DEF HoldInv, ProtocolInv, LocksOK
  <1>4. ASSUME NEW p \in Order, NEW c \in Bucket, c # b
        PROVE  HeldOf(working'[p], p, c) = HeldOf(working[p], p, c)
    BY <1>2, <1>4
  <1>5. HoldsLocked'
    <2> SUFFICES ASSUME NEW p \in Order, NEW c \in Bucket, holder'[p] # holder'[c]
                 PROVE  HeldOf(working'[p], p, c) = HeldOf(committed[p], p, c)
      BY DEF HoldsLocked
    <2>1. holder[p] # holder[c] \/ holder[p] = None =>
            HeldOf(working[p], p, c) = HeldOf(committed[p], p, c)
      BY <1>2, <1>3 DEF HoldInv, HoldsLocked
    <2>2. CASE c = b
      <3>1. p # o /\ p # b
        BY <1>2, <2>2
      <3>2. holder[p] # t /\ working'[p] = working[p]
        BY <1>2, <2>2, <3>1
      <3>3. holder[p] = None \/ holder[p] # holder[c]
        BY <2>2, <3>2 DEF CanLock
      <3> QED
        BY <2>1, <3>2, <3>3
    <2>3. CASE c # b
      <3>1. holder'[c] = holder[c]
        BY <1>1, <2>3
      <3>2. holder[p] # holder[c] \/ holder[p] = None
        <4>1. CASE p = o
          BY <3>1, <4>1 DEF CanLock
        <4>2. CASE p # o
          BY <1>2, <3>1, <4>2
        <4> QED
          BY <4>1, <4>2
      <3> QED
        BY <1>4, <2>1, <2>3, <3>2
    <2> QED
      BY <2>2, <2>3
  <1>6. HoldOK'
    <2> SUFFICES ASSUME NEW c \in Bucket
                 PROVE  Counted(working', c) /\ Covered(working'[c])
      BY DEF HoldInv, HoldOK
    <2>1. CASE c = b
      BY <2>1
    <2>2. CASE c # b
      <3>1. HeldUnits(working', c) = HeldUnits(working, c)
        BY <1>4, <2>2, SameHolds
      <3>2. working'[c] = working[c]
        BY <1>1, <2>2
      <3> QED
        BY <3>1, <3>2 DEF HoldInv, HoldOK, Counted
    <2> QED
      BY <2>1, <2>2
  <1> QED
    BY <1>5, <1>6

\* A statement that writes no bucket and leaves what its order holds alone.
LEMMA QuietStatementHolds ==
  ASSUME HoldInv, NEW t \in Txn, NEW o \in Order,
         committed' = committed, CanLock(t, o), holder' = [holder EXCEPT ![o] = t],
         \A r \in Row \ {o} : working'[r] = working[r],
         \A c \in Bucket : HeldOf(working'[o], o, c) = HeldOf(working[o], o, c)
  PROVE  HoldsLocked' /\ HoldOK'
  <1>1. o \in Row /\ o \notin Bucket
    BY StockAssumption, OrdersAssumption DEF Row
  <1>2. holder'[o] = t /\ \A r \in Row \ {o} : holder'[r] = holder[r]
    BY <1>1 DEF HoldInv, ProtocolInv, OrdersTypeOK, StockTypeOK
  <1> QED
    BY <1>1, <1>2, StatementHolds

\* What a request does first writes no bucket.
LEMMA RequestHolds ==
  ASSUME HoldInv, NEW t \in Txn, OrderRequest(t)
  PROVE  HoldsLocked' /\ HoldOK'
  <1> USE StockAssumption, OrdersAssumption
  <1>1. DOMAIN working = Row /\ \A p \in Order : p \in Row
    BY DEF HoldInv, ProtocolInv, OrdersTypeOK, StockTypeOK, Row
  <1>2. ASSUME NEW o \in Order, LockDocument(t, o)
        PROVE  HoldsLocked' /\ HoldOK'
    BY <1>2, QuietStatementHolds DEF LockDocument
  <1>3. ASSUME NEW o \in Order, NEW form \in OrderForms, NEW now \in BOOLEAN,
               CreateOrder(t, o, form, now)
        PROVE  HoldsLocked' /\ HoldOK'
    <2>1. PICK order :
            /\ order.reservations = <<>>
            /\ InsertDocument(t, o, order)
      BY <1>3 DEF CreateOrder
    <2>2. /\ committed[o] = Absent /\ CanLock(t, o)
          /\ working' = [working EXCEPT ![o] = order]
          /\ holder' = [holder EXCEPT ![o] = t] /\ committed' = committed
          /\ IsIdle(t)
      BY <2>1 DEF InsertDocument
    <2>3. working[o] = Absent
      BY <1>1, <2>2 DEF CanLock, HoldInv, ProtocolInv, LocksOK
    <2>4. working'[o] = order /\ \A r \in Row \ {o} : working'[r] = working[r]
      BY <1>1, <2>2
    <2>5. \A c \in Bucket : HeldOf(working'[o], o, c) = HeldOf(working[o], o, c)
      BY <2>1, <2>3, <2>4 DEF HeldOf, ActiveReservations
    <2> QED
      BY <2>2, <2>4, <2>5, QuietStatementHolds
  <1> QED
    BY <1>2, <1>3 DEF OrderRequest, BeginReserve, BeginCancel, BeginFulfil

\* FindBuckets only reads; FinishLine and FinishRelease write the order's lines
\* and its status.
LEMMA LocalStepHolds ==
  ASSUME HoldInv, NEW t \in Txn, tx[t].doc \in Order,
         FindBuckets(t) \/ FinishLine(t) \/ FinishRelease(t)
  PROVE  HoldsLocked' /\ HoldOK'
  <1> USE StockAssumption, OrdersAssumption
  <1>1. ProtocolInv /\ ~IsIdle(t)
    BY DEF HoldInv, FindBuckets, FinishLine, FinishRelease, IsIdle
  <1>2. PICK o \in Order : o = tx[t].doc
    OBVIOUS
  <1>3. o \in Row /\ holder[o] = t /\ working[o] \in OrderRow
    BY <1>1, <1>2, OwnOrder
  <1>4. DOMAIN working = Row
    BY DEF HoldInv, ProtocolInv, OrdersTypeOK, StockTypeOK
  <1>5. PICK order \in OrderRow :
          /\ order.reservations = working[o].reservations
          /\ working'[o] = order
          /\ \A r \in Row \ {o} : working'[r] = working[r]
          /\ UNCHANGED <<committed, holder>>
    <2>1. CASE FindBuckets(t)
      BY <1>3, <2>1 DEF FindBuckets, rows
    <2>2. CASE FinishLine(t)
      <3>1. PICK p \in Order, order \in OrderRow : FinishesLine(t, p, order)
        BY <1>1, <2>2, FinishLineFacts
      <3>2. /\ p = o
            /\ order.reservations = working[p].reservations
            /\ working' = [working EXCEPT ![p] = order]
            /\ UNCHANGED <<committed, holder>>
        BY <1>2, <3>1 DEF FinishesLine
      <3> QED
        BY <1>3, <1>4, <3>2
    <2>3. CASE FinishRelease(t)
      <3>1. PICK status \in OrderStatus :
              status = IF tx[t].op = "fulfil" THEN "FULFILLED" ELSE "CANCELLED"
        BY DEF OrderStatus
      <3>2. PICK order : order = Closed(working[o], status)
        OBVIOUS
      <3>3. order \in OrderRow /\ order.reservations = working[o].reservations
        BY <1>3, <3>2, ClosedOrder
      <3>4. /\ working' = [working EXCEPT ![o] = order]
            /\ UNCHANGED <<committed, holder>>
        BY <1>2, <2>3, <3>1, <3>2 DEF FinishRelease
      <3> QED
        BY <1>3, <1>4, <3>3, <3>4
    <2> QED
      BY <2>1, <2>2, <2>3
  <1>6. \A c \in Bucket : HeldOf(working'[o], o, c) = HeldOf(working[o], o, c)
    <2>1. order # Absent /\ working[o] # Absent
      BY <1>3
    <2> QED
      BY <1>5, <2>1, SameReservations
  <1>7. CanLock(t, o) /\ holder' = [holder EXCEPT ![o] = t]
    BY <1>3, <1>5 DEF CanLock, HoldInv, ProtocolInv, OrdersTypeOK, StockTypeOK
  <1> QED
    BY <1>5, <1>6, <1>7, QuietStatementHolds

\* Units added to a set that has none of them.
LEMMA AddUnits ==
  ASSUME NEW S, NEW U, IsFiniteSet(S), IsFiniteSet(U), S \cap U = {}
  PROVE  /\ IsFiniteSet(S \cup U)
         /\ Cardinality(S \cup U) = Cardinality(S) + Cardinality(U)
  <1>1. Cardinality(S) \in Nat /\ Cardinality(U) \in Nat
    BY FS_CardinalityType
  <1>2. Cardinality(S \cap U) = 0
    BY FS_EmptySet
  <1>3. /\ IsFiniteSet(S \cup U)
        /\ Cardinality(S \cup U) =
             Cardinality(S) + Cardinality(U) - Cardinality(S \cap U)
    BY FS_Union
  <1> QED
    BY <1>1, <1>2, <1>3

\* Units taken out of a set that has them.
LEMMA RemoveUnits ==
  ASSUME NEW S, NEW U, IsFiniteSet(S), U \subseteq S
  PROVE  /\ IsFiniteSet(S \ U)
         /\ Cardinality(S \ U) = Cardinality(S) - Cardinality(U)
  <1>1. S \cap U = U
    OBVIOUS
  <1>2. /\ IsFiniteSet(S \ U)
        /\ Cardinality(S \ U) = Cardinality(S) - Cardinality(S \cap U)
    BY FS_Difference
  <1> QED
    BY <1>1, <1>2

\* The bucket b counts take units more when the order o gets a new reservation
\* of so many units, its k-th.
LEMMA CountedAfterAppend ==
  ASSUME NEW v, NEW w, NEW b \in Bucket, NEW o \in Order, NEW take \in Nat \ {0},
         Counted(v, b), v[o] \in OrderRow,
         HeldOf(w[o], o, b) =
           HeldOf(v[o], o, b) \cup Units(o, Len(v[o].reservations) + 1, take),
         \A p \in Order \ {o} : w[p] = v[p],
         Quantities(w[b]).reservedQty = Quantities(v[b]).reservedQty + take
  PROVE  Counted(w, b)
  <1> DEFINE k == Len(v[o].reservations) + 1
  <1>1. HeldUnits(w, b) = HeldUnits(v, b) \cup Units(o, k, take)
    BY DEF HeldUnits
  <1>2. HeldUnits(v, b) \cap Units(o, k, take) = {}
    <2> SUFFICES ASSUME NEW p \in Order, NEW x \in HeldOf(v[p], p, b),
                        x \in Units(o, k, take)
                 PROVE  FALSE
      BY DEF HeldUnits
    <2>1. v[p] # Absent
      BY DEF HeldOf
    <2>2. PICK j \in DOMAIN v[p].reservations :
            x \in Units(p, j, v[p].reservations[j].quantity)
      BY <2>1, HeldElements
    <2>3. p = o /\ j = k
      BY <2>2, UnitsDisjoint
    <2>4. k \in DOMAIN v[o].reservations
      BY <2>2, <2>3
    <2> QED
      BY <2>4, OrderParts, LenProperties
  <1> HIDE DEF k
  <1>3. IsFiniteSet(Units(o, k, take)) /\ Cardinality(Units(o, k, take)) = take
    BY UnitsCounted
  <1>4. IsFiniteSet(HeldUnits(v, b))
    BY DEF Counted
  <1>5. /\ IsFiniteSet(HeldUnits(w, b))
        /\ Cardinality(HeldUnits(w, b)) = Cardinality(HeldUnits(v, b)) + take
    <2>1. PICK S, U : S = HeldUnits(v, b) /\ U = Units(o, k, take)
      OBVIOUS
    <2>2. IsFiniteSet(S \cup U) /\ Cardinality(S \cup U) = Cardinality(S) + Cardinality(U)
      BY <1>2, <1>3, <1>4, <2>1, AddUnits
    <2> QED
      BY <1>1, <1>3, <2>1, <2>2
  <1> QED
    BY <1>5 DEF Counted

\* The bucket b counts q units less when the k-th reservation of the order o,
\* of so many units, is no longer active.
LEMMA CountedAfterRelease ==
  ASSUME NEW v, NEW w, NEW b \in Bucket, NEW o \in Order, NEW q \in Nat \ {0},
         NEW k, Counted(v, b),
         Units(o, k, q) \subseteq HeldOf(v[o], o, b),
         HeldOf(w[o], o, b) = HeldOf(v[o], o, b) \ Units(o, k, q),
         \A p \in Order \ {o} : w[p] = v[p],
         Quantities(w[b]).reservedQty = Quantities(v[b]).reservedQty - q
  PROVE  Counted(w, b)
  <1>1. ASSUME NEW p \in Order, p # o, NEW x \in HeldOf(v[p], p, b)
        PROVE  x \notin Units(o, k, q)
    <2>1. v[p] # Absent
      BY <1>1 DEF HeldOf
    <2>2. PICK j \in DOMAIN v[p].reservations :
            x \in Units(p, j, v[p].reservations[j].quantity)
      BY <1>1, <2>1, HeldElements
    <2> QED
      BY <1>1, <2>2, UnitsDisjoint
  <1>2. HeldUnits(w, b) = HeldUnits(v, b) \ Units(o, k, q)
    <2>1. ASSUME NEW x
          PROVE  x \in HeldUnits(w, b) <=> x \in HeldUnits(v, b) \ Units(o, k, q)
      BY <1>1 DEF HeldUnits
    <2> QED
      BY <2>1
  <1>3. Units(o, k, q) \subseteq HeldUnits(v, b) /\ IsFiniteSet(HeldUnits(v, b))
    BY DEF HeldUnits, Counted
  <1>4. Cardinality(Units(o, k, q)) = q
    BY UnitsCounted
  <1>5. /\ IsFiniteSet(HeldUnits(w, b))
        /\ Cardinality(HeldUnits(w, b)) = Cardinality(HeldUnits(v, b)) - q
    BY <1>2, <1>3, <1>4, RemoveUnits
  <1> QED
    BY <1>5 DEF Counted

\* A bucket that units are taken from counts them and had them available.
LEMMA TakeHolds ==
  ASSUME HoldInv, NEW t \in Txn, tx[t].doc \in Order, TakeBucket(t)
  PROVE  HoldsLocked' /\ HoldOK'
  <1> USE StockAssumption, OrdersAssumption
  <1>1. ProtocolInv
    BY DEF HoldInv
  <1>2. PICK o \in Order, b \in Bucket : TakesFrom(t, o, b)
    BY <1>1, TakeFacts
  <1>3. /\ o = tx[t].doc /\ ~IsIdle(t) /\ b \in Row
        /\ working[b] \in BucketRow
        /\ CanLock(t, b)
        /\ holder' = [holder EXCEPT ![b] = t]
        /\ committed' = committed
        /\ \/ SkipsBucket(t, b)
           \/ \E take \in Nat \ {0} : HoldsUnits(t, o, b, take)
    BY <1>2 DEF TakesFrom
  <1>4. /\ o \in Row /\ o # b /\ holder[o] = t
        /\ working[o] \in OrderRow /\ tx[t].line \in Nat
    BY <1>1, <1>3, OwnOrder DEF TxRow
  <1>5. /\ CanLock(t, o) /\ holder'[o] = t /\ holder'[b] = t
        /\ \A r \in Row \ {o, b} : holder'[r] = holder[r]
    BY <1>1, <1>3, <1>4 DEF CanLock, ProtocolInv, OrdersTypeOK, StockTypeOK
  <1>6. Counted(working, b) /\ Covered(working[b])
    BY DEF HoldInv, HoldOK
  <1>7. CASE SkipsBucket(t, b)
    <2>1. working' = working
      BY <1>7 DEF SkipsBucket
    <2> QED
      BY <1>3, <1>5, <1>6, <2>1, StatementHolds
  <1>8. ASSUME NEW take \in Nat \ {0}, HoldsUnits(t, o, b, take)
        PROVE  HoldsLocked' /\ HoldOK'
    <2>1. PICK held : held = [line |-> tx[t].line, inventoryId |-> b,
                              quantity |-> take, status |-> "ACTIVE"]
      OBVIOUS
    <2>2. /\ held \in Reservation
          /\ working'[b] = Moved(working[b], 0, take)
          /\ working'[b] \in BucketRow
          /\ working'[o].reservations = Append(working[o].reservations, held)
          /\ working'[o] \in OrderRow
          /\ \A r \in Row \ {b, o} : working'[r] = working[r]
      <3>1. working[b] \in BucketRow /\ working[o] \in OrderRow /\ tx[t].line \in Nat
        BY <1>3, <1>4
      <3> QED
        BY <1>1, <1>8, <2>1, <3>1, HeldRows
    <2>3. held.inventoryId = b /\ held.quantity = take /\ held.status = "ACTIVE"
      BY <2>1
    <2>4. PICK k : k = Len(working[o].reservations) + 1
      OBVIOUS
    <2>5. \A c \in Bucket : HeldOf(working'[o], o, c) =
            HeldOf(working[o], o, c) \cup (IF c = b THEN Units(o, k, take) ELSE {})
      <3> SUFFICES ASSUME NEW c \in Bucket
                   PROVE  HeldOf(working'[o], o, c) = HeldOf(working[o], o, c)
                            \cup (IF c = b THEN Units(o, k, take) ELSE {})
        OBVIOUS
      <3>1. HeldOf(working'[o], o, c) = HeldOf(working[o], o, c)
              \cup (IF c = held.inventoryId THEN Units(o, k, held.quantity) ELSE {})
        <4>1. PICK order \in OrderRow : order = working[o]
          BY <1>4
        <4>2. PICK after \in OrderRow : after = working'[o]
          BY <2>2
        <4>3. /\ after.reservations = Append(order.reservations, held)
              /\ k = Len(order.reservations) + 1
          BY <2>2, <2>4, <4>1, <4>2
        <4>4. HeldOf(after, o, c) = HeldOf(order, o, c)
                \cup (IF c = held.inventoryId THEN Units(o, k, held.quantity)
                                              ELSE {})
          BY <2>2, <2>3, <4>3, HeldAfterAppend
        <4> QED
          BY <4>1, <4>2, <4>4
      <3> QED
        BY <2>3, <3>1
    <2>6. /\ Quantities(working'[b]).reservedQty
               = Quantities(working[b]).reservedQty + take
          /\ Covered(working'[b])
      <3>1. take <= working[b].physicalQty - working[b].reservedQty
        BY <1>3, <1>8 DEF HoldsUnits, AvailableQty, Quantities
      <3> QED
        BY <1>3, <2>2, <3>1 DEF Covered, Quantities, Moved, BucketRow
    <2>7. \A p \in Order \ {o} : working'[p] = working[p]
      BY <2>2 DEF Row
    <2>8. /\ HeldOf(working'[o], o, b) = HeldOf(working[o], o, b) \cup Units(o, k, take)
          /\ \A c \in Bucket \ {b} :
               HeldOf(working'[o], o, c) = HeldOf(working[o], o, c)
      BY <2>5
    <2>9. Counted(working', b)
      BY <1>4, <1>6, <2>4, <2>6, <2>7, <2>8, CountedAfterAppend
    <2>10. \A r \in Row \ {o, b} : holder'[r] = holder[r] /\ working'[r] = working[r]
      BY <1>5, <2>2
    <2> QED
      BY <1>3, <1>5, <2>6, <2>8, <2>9, <2>10, StatementHolds
  <1> QED
    BY <1>3, <1>7, <1>8

\* A bucket that units are given back to or shipped from counts that many less.
LEMMA ReleaseHolds ==
  ASSUME HoldInv, NEW t \in Txn, tx[t].doc \in Order, ReleaseReservation(t)
  PROVE  HoldsLocked' /\ HoldOK'
  <1> USE StockAssumption, OrdersAssumption
  <1>1. ProtocolInv
    BY DEF HoldInv
  <1>2. PICK o \in Order, b \in Bucket, q \in Nat \ {0}, shipped \in Nat :
          \E k \in DOMAIN working[o].reservations :
            ReleasesUnits(t, o, b, k, q, shipped)
    BY <1>1, ReleaseFacts
  <1>3. PICK k \in DOMAIN working[o].reservations :
          ReleasesUnits(t, o, b, k, q, shipped)
    BY <1>2
  <1>4. /\ o = tx[t].doc /\ ~IsIdle(t)
        /\ k \in ActiveReservations(working[o])
        /\ working[o].reservations[k].inventoryId = b
        /\ working[o].reservations[k].quantity = q
        /\ shipped \in {0, q}
        /\ CanLock(t, b)
        /\ holder' = [holder EXCEPT ![b] = t]
        /\ committed' = committed
    BY <1>3 DEF ReleasesUnits
  <1>5. /\ o \in Row /\ b \in Row /\ o # b /\ holder[o] = t
        /\ working[o] \in OrderRow
    BY <1>1, <1>4, OwnOrder DEF Row
  <1>6. working[b] \in BucketRow
    <2>1. working[b] # Absent
      BY <1>1, <1>4, <1>5 DEF ProtocolInv, BucketsOK
    <2> QED
      BY <1>1, <2>1, BucketVersions
  <1>7. /\ CanLock(t, o) /\ holder'[o] = t /\ holder'[b] = t
        /\ \A r \in Row \ {o, b} : holder'[r] = holder[r]
    BY <1>1, <1>4, <1>5 DEF CanLock, ProtocolInv, OrdersTypeOK, StockTypeOK
  <1>8. Counted(working, b) /\ Covered(working[b])
    BY DEF HoldInv, HoldOK
  <1>9. /\ working'[b] = Moved(working[b], -shipped, -q)
        /\ working'[b] \in BucketRow
        /\ working'[o] \in OrderRow
        /\ DOMAIN working'[o].reservations = DOMAIN working[o].reservations
        /\ \A j \in DOMAIN working[o].reservations :
             working'[o].reservations[j] =
               IF j = k THEN [working[o].reservations[k] EXCEPT
                                !.status = Outcome(t)]
                        ELSE working[o].reservations[j]
        /\ \A r \in Row \ {b, o} : working'[r] = working[r]
    BY <1>1, <1>3, <1>5, <1>6, ReleasedRows
  <1>10. Outcome(t) # "ACTIVE"
    BY DEF Outcome
  <1>11. /\ HeldOf(working'[o], o, b) = HeldOf(working[o], o, b) \ Units(o, k, q)
         /\ Units(o, k, q) \subseteq HeldOf(working[o], o, b)
         /\ \A c \in Bucket \ {b} :
              HeldOf(working'[o], o, c) = HeldOf(working[o], o, c)
    <2>1. working'[o].reservations[k].status # "ACTIVE"
      <3>1. PICK old \in Reservation : old = working[o].reservations[k]
        BY <1>5, OrderParts
      <3>2. [old EXCEPT !.status = Outcome(t)].status = Outcome(t)
        BY DEF Reservation
      <3> QED
        BY <1>9, <1>10, <3>1, <3>2
    <2>2. \A j \in DOMAIN working[o].reservations \ {k} :
            working'[o].reservations[j] = working[o].reservations[j]
      BY <1>9
    <2>3. GivesBack(working[o], working'[o], k, b, q)
      BY <1>4, <1>9, <2>1, <2>2 DEF GivesBack
    <2>4. working[o] \in OrderRow /\ working'[o] \in OrderRow
      BY <1>5, <1>9
    <2> QED
      BY <2>3, <2>4, HeldAfterRelease
  <1>12. /\ Quantities(working'[b]).reservedQty
              = Quantities(working[b]).reservedQty - q
         /\ Covered(working'[b])
    BY <1>4, <1>6, <1>8, <1>9 DEF Covered, Quantities, Moved, BucketRow
  <1>13. \A p \in Order \ {o} : working'[p] = working[p]
    BY <1>9 DEF Row
  <1>14. Counted(working', b)
    BY <1>8, <1>11, <1>12, <1>13, CountedAfterRelease
  <1>15. \A r \in Row \ {o, b} : holder'[r] = holder[r] /\ working'[r] = working[r]
    BY <1>7, <1>9
  <1> QED
    BY <1>4, <1>7, <1>11, <1>12, <1>14, <1>15, StatementHolds

-----------------------------------------------------------------------------
(***************************************************************************)
(* The end of a transaction: what it has locked moves from one version to  *)
(* the other, and for the buckets it has not locked it held nothing new.   *)
(***************************************************************************)

\* A version that agrees with the working version on the locks of t and with
\* the committed version elsewhere counts what is held.
LEMMA MergedVersion ==
  ASSUME HoldInv, NEW t \in Txn, NEW v, NEW old, NEW new,
         old \in {committed, working}, new \in {committed, working},
         \A r \in Row : v[r] = IF holder[r] = t THEN new[r] ELSE old[r],
         NEW b \in Bucket
  PROVE  Counted(v, b) /\ Covered(v[b])
  <1> USE StockAssumption, OrdersAssumption
  <1>1. b \in Row /\ \A o \in Order : o \in Row
    BY DEF Row
  <1>2. \A o \in Order : holder[o] # holder[b] =>
          HeldOf(old[o], o, b) = HeldOf(new[o], o, b)
    BY DEF HoldInv, HoldsLocked
  <1>3. /\ Counted(old, b) /\ Covered(old[b])
        /\ Counted(new, b) /\ Covered(new[b])
    BY DEF HoldInv, HoldOK
  <1>4. CASE holder[b] = t
    <2>1. v[b] = new[b]
      BY <1>1, <1>4
    <2>2. \A o \in Order : HeldOf(v[o], o, b) = HeldOf(new[o], o, b)
      BY <1>1, <1>2, <1>4
    <2>3. HeldUnits(v, b) = HeldUnits(new, b)
      BY <2>2, SameHolds
    <2> QED
      BY <1>3, <2>1, <2>3 DEF Counted
  <1>5. CASE holder[b] # t
    <2>1. v[b] = old[b]
      BY <1>1, <1>5
    <2>2. \A o \in Order : HeldOf(v[o], o, b) = HeldOf(old[o], o, b)
      BY <1>1, <1>2, <1>5
    <2>3. HeldUnits(v, b) = HeldUnits(old, b)
      BY <2>2, SameHolds
    <2> QED
      BY <1>3, <2>1, <2>3 DEF Counted
  <1> QED
    BY <1>4, <1>5

\* Commit makes the working version of the locked rows the committed one,
\* Rollback the other way round.
LEMMA EndHolds ==
  ASSUME HoldInv, NEW t \in Txn, Commit(t) \/ Rollback(t)
  PROVE  HoldsLocked' /\ HoldOK'
  <1> USE StockAssumption, OrdersAssumption
  <1>1. \A b \in Bucket : b \in Row
    BY DEF Row
  <1>2. \A o \in Order : o \in Row
    BY DEF Row
  <1>3. \A r \in Row : holder'[r] = IF holder[r] = t THEN None ELSE holder[r]
    BY DEF Commit, Rollback, Finish
  <1>4. PICK new :
          /\ new \in {committed, working}
          /\ \A r \in Row :
               /\ committed'[r] = IF holder[r] = t THEN new[r] ELSE committed[r]
               /\ working'[r] = IF holder[r] = t THEN new[r] ELSE working[r]
    <2>1. CASE Commit(t)
      <3>1. \A r \in Row :
              /\ committed'[r] = IF holder[r] = t THEN working[r] ELSE committed[r]
              /\ working'[r] = working[r]
        BY <2>1 DEF Commit
      <3> QED
        BY <3>1
    <2>2. CASE Rollback(t)
      <3>1. \A r \in Row :
              /\ working'[r] = IF holder[r] = t THEN committed[r] ELSE working[r]
              /\ committed'[r] = committed[r]
        BY <2>2 DEF Rollback
      <3> QED
        BY <3>1
    <2> QED
      BY <2>1, <2>2
  <1>5. HoldsLocked'
    <2> SUFFICES ASSUME NEW o \in Order, NEW b \in Bucket, holder'[o] # holder'[b]
                 PROVE  HeldOf(working'[o], o, b) = HeldOf(committed'[o], o, b)
      BY DEF HoldsLocked
    <2>1. CASE holder[o] = t
      BY <1>2, <1>4, <2>1
    <2>2. CASE holder[o] # t
      <3>1. working'[o] = working[o] /\ committed'[o] = committed[o]
        BY <1>2, <1>4, <2>2
      <3>2. holder[o] # holder[b]
        BY <1>1, <1>2, <1>3, <2>2
      <3> QED
        BY <3>1, <3>2 DEF HoldInv, HoldsLocked
    <2> QED
      BY <2>1, <2>2
  <1>6. HoldOK'
    <2> SUFFICES ASSUME NEW b \in Bucket
                 PROVE  /\ Counted(committed', b) /\ Covered(committed'[b])
                        /\ Counted(working', b) /\ Covered(working'[b])
      BY DEF HoldOK
    <2>1. Counted(committed', b) /\ Covered(committed'[b])
      BY <1>4, MergedVersion
    <2>2. Counted(working', b) /\ Covered(working'[b])
      BY <1>4, MergedVersion
    <2> QED
      BY <2>1, <2>2
  <1> QED
    BY <1>5, <1>6

\* Every step of the specification keeps the invariant.
LEMMA StepHolds ==
  ASSUME HoldInv, [OrdersNext]_vars
  PROVE  HoldInv'
  <1>1. ProtocolInv'
    BY StepProtocol DEF HoldInv
  <1>2. CASE UNCHANGED vars
    BY <1>1, <1>2 DEF vars, HoldInv, HoldsLocked, HoldOK, Counted
  <1>3. CASE OrdersNext
    <2>1. PICK t \in Txn : OrderStep(t) \/ OrderDeadlock(t) \/ Lost(t)
      BY <1>3 DEF OrdersNext
    <2>2. CASE OrderRequest(t)
      BY <1>1, <2>2, RequestHolds DEF HoldInv
    <2>3. CASE OrderLocalStep(t)
      BY <1>1, <2>3, LocalStepHolds, EndHolds
         DEF HoldInv, OrderLocalStep, RefuseShortage, OrderCommit
    <2>4. CASE OrderLockStep(t)
      BY <1>1, <2>4, TakeHolds, ReleaseHolds DEF HoldInv, OrderLockStep
    <2>5. CASE OrderDeadlock(t)
      BY <1>1, <2>5, DeadlockRollsBack, EndHolds DEF HoldInv
    <2>6. CASE Lost(t)
      BY <1>1, <2>6, EndHolds DEF HoldInv, Lost
    <2> QED
      BY <2>1, <2>2, <2>3, <2>4, <2>5, <2>6 DEF OrderStep
  <1> QED
    BY <1>2, <1>3

\* The holds of orders are counted and covered in every reachable state.
THEOREM HoldsAreCounted == OrdersSpec => []HoldInv
  <1>1. Init => HoldInv
    BY InitHolds
  <1>2. HoldInv /\ [OrdersNext]_vars => HoldInv'
    BY StepHolds
  <1> QED
    BY <1>1, <1>2, PTL DEF OrdersSpec

\* reserved_qty of every bucket is what the ACTIVE reservations of all orders
\* hold in it: no hold is lost, leaked or counted twice, however transactions
\* interleave, commit and roll back.
THEOREM ReservedIsWhatIsHeld == OrdersSpec => []ReservedIsHeld
  <1>1. HoldInv => ReservedIsHeld
    BY DEF HoldInv, HoldOK, Counted, ReservedIsHeld
  <1> QED
    BY <1>1, HoldsAreCounted, PTL

\* No bucket ever promises more than it has, nor less than nothing, neither in
\* its committed version nor in one a transaction is writing: the UPDATE of
\* applyMovement never meets the CHECK constraint.
THEOREM NothingOversold == OrdersSpec => []NeverOversold
  <1>1. ASSUME HoldInv, NEW b \in Bucket,
               NEW version, version \in {committed, working}
        PROVE  WithinStock(version[b])
    <2>1. Counted(version, b) /\ Covered(version[b])
      BY <1>1 DEF HoldInv, HoldOK
    <2>2. Cardinality(HeldUnits(version, b)) \in Nat
      BY <2>1, FS_CardinalityType DEF Counted
    <2> QED
      BY <2>1, <2>2 DEF Counted, Covered, WithinStock
  <1>2. HoldInv => NeverOversold
    BY <1>1 DEF NeverOversold
  <1> QED
    BY <1>2, HoldsAreCounted, PTL

-----------------------------------------------------------------------------
(***************************************************************************)
(* The ledger's invariant.  The sums stay right because every movement is *)
(* new, and it is new because its idempotency key names a reservation and  *)
(* a status that the reservation did not have before.                      *)
(***************************************************************************)

\* The key names a movement that the reservations of the order o, whose row is
\* given, have gone through.
KeyKnown(key, o, order) ==
    /\ order # Absent
    /\ \E k \in DOMAIN order.reservations :
         \/ key = <<"RESERVATION", o, k, "RESERVE">>
         \/ /\ order.reservations[k].status # "ACTIVE"
            /\ key = <<"RESERVATION", o, k, order.reservations[k].status>>

\* Reservations are added and closed, never removed or opened again.
Grows(before, order) ==
    before # Absent =>
      /\ order # Absent
      /\ DOMAIN before.reservations \subseteq DOMAIN order.reservations
      /\ \A k \in DOMAIN before.reservations :
           before.reservations[k].status # "ACTIVE" =>
             order.reservations[k].status = before.reservations[k].status

\* The committed ledger knows committed orders, and what a transaction has
\* booked is about its own order as it has made it.
KeysKnown ==
    /\ \A o \in Order : Grows(committed[o], working[o])
    /\ \A e \in ledger : /\ e.refId \in Order
                         /\ KeyKnown(e.idempotencyKey, e.refId, committed[e.refId])
    /\ \A t \in Txn : \A e \in pending[t] :
         /\ e.refId = tx[t].doc
         /\ KeyKnown(e.idempotencyKey, e.refId, working[e.refId])

OrderLedgerInv == ProtocolInv /\ LedgerInv /\ KeysKnown /\ KeysUnique

-----------------------------------------------------------------------------
\* A key says which order it is about.
LEMMA KeyNamesOrder ==
  ASSUME NEW key, NEW o, NEW p, NEW order, NEW other,
         KeyKnown(key, o, order), KeyKnown(key, p, other)
  PROVE  o = p
  BY DEF KeyKnown

\* A key that is known stays known.
LEMMA KeyStaysKnown ==
  ASSUME NEW key, NEW o, NEW before, NEW order,
         KeyKnown(key, o, before), Grows(before, order)
  PROVE  KeyKnown(key, o, order)
  BY DEF KeyKnown, Grows

\* Nothing has happened to an order that is left as it is.
LEMMA GrowsNot ==
  ASSUME NEW order
  PROVE  Grows(order, order)
  BY DEF Grows

\* What a transaction has booked is about the order it runs for and has locked.
LEMMA BookedForOwnOrder ==
  ASSUME OrderLedgerInv, NEW t \in Txn, NEW e \in pending[t]
  PROVE  /\ ~IsIdle(t)
         /\ e.refId = tx[t].doc /\ e.refId \in Order /\ e.refId \in Row
         /\ holder[e.refId] = t
  <1>1. e.inventoryId \in Bucket /\ holder[e.inventoryId] = t
    BY DEF OrderLedgerInv, LedgerInv, EntriesOK, Entries, IsEntry
  <1>2. ~IsIdle(t)
    BY <1>1, StockAssumption DEF OrderLedgerInv, ProtocolInv, LocksOK, Row
  <1>3. e.refId = tx[t].doc
    BY DEF OrderLedgerInv, KeysKnown
  <1> QED
    BY <1>2, <1>3, OwnOrder DEF OrderLedgerInv

\* At the start nothing is booked.
LEMMA InitOrderLedger == Init => OrderLedgerInv
  <1> SUFFICES ASSUME Init PROVE OrderLedgerInv
    OBVIOUS
  <1>1. \A o \in Order : o \in Row
    BY OrdersAssumption DEF Row
  <1>2. KeysKnown
    BY <1>1 DEF Init, KeysKnown, Grows
  <1>3. KeysUnique
    BY DEF Init, KeysUnique
  <1> QED
    BY <1>2, <1>3, InitProtocol, InitLedger DEF OrderLedgerInv

-----------------------------------------------------------------------------
(***************************************************************************)
(* A statement of a transaction t about an order o.                        *)
(***************************************************************************)

\* What it does to the order and to the transactions.
ConcernsOrder(t, o) ==
    /\ UNCHANGED <<committed, ledger>>
    /\ CanLock(t, o) /\ holder'[o] = t
    /\ \A p \in Order \ {o} : working'[p] = working[p]
    /\ Grows(working[o], working'[o])
    /\ IsIdle(t) \/ tx[t].doc = o
    /\ tx'[t].doc = o
    /\ \A u \in Txn \ {t} : tx'[u] = tx[u] /\ pending'[u] = pending[u]

\* It books a movement under a key that its order had no use for before.
BooksNew(t, o, entry) ==
    /\ pending'[t] = pending[t] \cup {entry}
    /\ entry.refId = o
    /\ KeyKnown(entry.idempotencyKey, o, working'[o])
    /\ ~ KeyKnown(entry.idempotencyKey, o, working[o])

\* Such a key is new to the ledger and to every running transaction.
LEMMA NewKey ==
  ASSUME OrderLedgerInv, NEW t \in Txn, NEW o \in Order, NEW entry,
         ConcernsOrder(t, o), BooksNew(t, o, entry),
         NEW u \in Txn, NEW e \in ledger \cup pending[u]
  PROVE  e.idempotencyKey # entry.idempotencyKey
  <1> SUFFICES ASSUME e.idempotencyKey = entry.idempotencyKey PROVE FALSE
    OBVIOUS
  <1>1. KeyKnown(e.idempotencyKey, o, working'[o])
    BY DEF BooksNew
  <1>2. CASE e \in ledger
    <2>1. KeyKnown(e.idempotencyKey, e.refId, committed[e.refId])
      BY <1>2 DEF OrderLedgerInv, KeysKnown
    <2>2. e.refId = o
      BY <1>1, <2>1, KeyNamesOrder
    <2>3. Grows(committed[o], working[o])
      BY DEF OrderLedgerInv, KeysKnown
    <2> QED
      BY <2>1, <2>2, <2>3, KeyStaysKnown DEF BooksNew
  <1>3. CASE e \in pending[u]
    <2>1. KeyKnown(e.idempotencyKey, e.refId, working[e.refId])
      BY <1>3 DEF OrderLedgerInv, KeysKnown
    <2>2. e.refId = o
      BY <1>1, <2>1, KeyNamesOrder
    <2> QED
      BY <2>1, <2>2 DEF BooksNew
  <1> QED
    BY <1>2, <1>3

\* A statement that books nothing, or something new, keeps the keys in order.
LEMMA StatementKeys ==
  ASSUME OrderLedgerInv, NEW t \in Txn, NEW o \in Order, ConcernsOrder(t, o),
         pending'[t] = pending[t] \/ \E entry : BooksNew(t, o, entry)
  PROVE  KeysKnown' /\ KeysUnique'
  <1> USE StockAssumption, OrdersAssumption
  <1>1. ASSUME NEW u \in Txn, NEW e \in pending[u]
        PROVE  /\ e.refId = tx'[u].doc
               /\ KeyKnown(e.idempotencyKey, e.refId, working'[e.refId])
    <2>1. /\ ~IsIdle(u) /\ e.refId = tx[u].doc /\ e.refId \in Order
          /\ holder[e.refId] = u
      BY <1>1, BookedForOwnOrder
    <2>2. KeyKnown(e.idempotencyKey, e.refId, working[e.refId])
      BY <1>1 DEF OrderLedgerInv, KeysKnown
    <2>3. CASE u = t
      <3>1. e.refId = o
        BY <2>1, <2>3 DEF ConcernsOrder
      <3> QED
        BY <2>1, <2>2, <2>3, <3>1, KeyStaysKnown DEF ConcernsOrder
    <2>4. CASE u # t
      <3>1. e.refId # o
        BY <2>1, <2>4 DEF ConcernsOrder, CanLock
      <3> QED
        BY <2>1, <2>2, <2>4, <3>1 DEF ConcernsOrder
    <2> QED
      BY <2>3, <2>4
  <1>2. ASSUME NEW p \in Order
        PROVE  Grows(committed'[p], working'[p])
    <2>1. Grows(committed[p], working[p]) /\ committed' = committed
      BY DEF OrderLedgerInv, KeysKnown, ConcernsOrder
    <2>2. CASE p = o
      BY <2>1, <2>2 DEF ConcernsOrder, Grows
    <2>3. CASE p # o
      BY <2>1, <2>3 DEF ConcernsOrder
    <2> QED
      BY <2>2, <2>3
  <1>3. \A e \in ledger' :
          e.refId \in Order /\ KeyKnown(e.idempotencyKey, e.refId, committed'[e.refId])
    BY DEF OrderLedgerInv, KeysKnown, ConcernsOrder
  <1>4. ledger' = ledger /\ \A u \in Txn \ {t} : pending'[u] = pending[u]
    BY DEF ConcernsOrder
  <1>5. CASE pending'[t] = pending[t]
    <2>1. \A u \in Txn : pending'[u] = pending[u]
      BY <1>4, <1>5
    <2>2. KeysKnown'
      BY <1>1, <1>2, <1>3, <2>1 DEF KeysKnown
    <2>3. KeysUnique'
      BY <1>4, <2>1 DEF OrderLedgerInv, KeysUnique
    <2> QED
      BY <2>2, <2>3
  <1>6. ASSUME NEW entry, BooksNew(t, o, entry)
        PROVE  KeysKnown' /\ KeysUnique'
    <2>1. pending'[t] = pending[t] \cup {entry}
      BY <1>6 DEF BooksNew
    <2>2. /\ entry.refId = tx'[t].doc
          /\ KeyKnown(entry.idempotencyKey, entry.refId, working'[entry.refId])
      BY <1>6 DEF BooksNew, ConcernsOrder
    <2>3. KeysKnown'
      BY <1>1, <1>2, <1>3, <1>4, <2>1, <2>2 DEF KeysKnown
    <2>4. \A u \in Txn : \A e \in ledger \cup pending[u] :
            e.idempotencyKey # entry.idempotencyKey
      BY <1>6, NewKey
    <2>5. KeysUnique'
      <3>1. \A d, e \in ledger' : d.idempotencyKey = e.idempotencyKey => d = e
        BY <1>4 DEF OrderLedgerInv, KeysUnique
      <3>2. ASSUME NEW u \in Txn, NEW v \in Txn, NEW d \in pending'[u],
                   NEW e \in ledger' \cup pending'[v],
                   d.idempotencyKey = e.idempotencyKey
            PROVE  u = v /\ d = e /\ e \notin ledger'
        <4>1. CASE d = entry /\ u = t
          BY <1>4, <2>1, <2>4, <3>2, <4>1
        <4>2. CASE e = entry /\ v = t /\ e \notin ledger
          BY <1>4, <2>1, <2>4, <3>2, <4>2
        <4>3. CASE d \in pending[u] /\ e \in ledger \cup pending[v]
          BY <1>4, <3>2, <4>3 DEF OrderLedgerInv, KeysUnique
        <4> QED
          BY <1>4, <2>1, <4>1, <4>2, <4>3
      <3> QED
        BY <3>1, <3>2 DEF KeysUnique
    <2> QED
      BY <2>3, <2>5
  <1> QED
    BY <1>5, <1>6

\* COMMIT makes the keys of a transaction's order those of the ledger.
LEMMA CommitKeys ==
  ASSUME OrderLedgerInv, NEW t \in Txn, Commit(t)
  PROVE  KeysKnown' /\ KeysUnique'
  <1> USE StockAssumption, OrdersAssumption
  <1>1. /\ ledger' = ledger \cup pending[t] /\ working' = working
        /\ pending'[t] = {}
        /\ \A u \in Txn \ {t} : pending'[u] = pending[u] /\ tx'[u] = tx[u]
        /\ \A p \in Order : committed'[p] = IF holder[p] = t THEN working[p]
                                                           ELSE committed[p]
    BY DEF Commit, Finish, OrderLedgerInv, ProtocolInv, OrdersTypeOK,
           StockTypeOK, Row
  <1>2. ASSUME NEW p \in Order
        PROVE  /\ Grows(committed[p], committed'[p])
               /\ Grows(committed'[p], working'[p])
    <2>1. Grows(committed[p], working[p])
      BY DEF OrderLedgerInv, KeysKnown
    <2> QED
      BY <1>1, <2>1, GrowsNot
  <1>3. ASSUME NEW e \in ledger'
        PROVE  e.refId \in Order /\ KeyKnown(e.idempotencyKey, e.refId, committed'[e.refId])
    <2>1. CASE e \in ledger
      <3>1. e.refId \in Order /\ KeyKnown(e.idempotencyKey, e.refId, committed[e.refId])
        BY <2>1 DEF OrderLedgerInv, KeysKnown
      <3> QED
        BY <1>2, <3>1, KeyStaysKnown
    <2>2. CASE e \in pending[t]
      <3>1. e.refId \in Order /\ holder[e.refId] = t
        BY <2>2, BookedForOwnOrder
      <3>2. KeyKnown(e.idempotencyKey, e.refId, working[e.refId])
        BY <2>2 DEF OrderLedgerInv, KeysKnown
      <3> QED
        BY <1>1, <3>1, <3>2
    <2> QED
      BY <1>1, <2>1, <2>2
  <1>4. KeysKnown'
    BY <1>1, <1>2, <1>3 DEF OrderLedgerInv, KeysKnown
  <1>5. KeysUnique'
    BY <1>1 DEF OrderLedgerInv, KeysUnique
  <1> QED
    BY <1>4, <1>5

\* ROLLBACK takes the keys of a transaction back with its order.
LEMMA RollbackKeys ==
  ASSUME OrderLedgerInv, NEW t \in Txn, Rollback(t)
  PROVE  KeysKnown' /\ KeysUnique'
  <1> USE StockAssumption, OrdersAssumption
  <1>1. /\ ledger' = ledger /\ committed' = committed
        /\ pending'[t] = {}
        /\ \A u \in Txn \ {t} : pending'[u] = pending[u] /\ tx'[u] = tx[u]
        /\ \A p \in Order : working'[p] = IF holder[p] = t THEN committed[p]
                                                         ELSE working[p]
    BY DEF Rollback, Finish, OrderLedgerInv, ProtocolInv, OrdersTypeOK,
           StockTypeOK, Row
  <1>2. \A p \in Order : Grows(committed'[p], working'[p])
    BY <1>1, GrowsNot DEF OrderLedgerInv, KeysKnown
  <1>3. \A u \in Txn : \A e \in pending[u] : e.refId \in Order /\ holder[e.refId] = u
    BY BookedForOwnOrder
  <1>4. KeysKnown'
    BY <1>1, <1>2, <1>3 DEF OrderLedgerInv, KeysKnown
  <1>5. KeysUnique'
    BY <1>1 DEF OrderLedgerInv, KeysUnique
  <1> QED
    BY <1>4, <1>5

-----------------------------------------------------------------------------
(***************************************************************************)
(* The statements one by one.                                              *)
(***************************************************************************)

\* A statement that books nothing and writes no bucket.
QuietStatement(t, o) ==
    /\ UNCHANGED <<committed, ledger, pending>>
    /\ CanLock(t, o) /\ holder' = [holder EXCEPT ![o] = t]
    /\ \A r \in Row \ {o} : working'[r] = working[r]
    /\ Grows(working[o], working'[o])
    /\ IsIdle(t) \/ tx[t].doc = o
    /\ tx'[t].doc = o
    /\ \A u \in Txn \ {t} : tx'[u] = tx[u]

\* A statement that books nothing keeps what the ledger explains, and all keys.
LEMMA QuietLedger ==
  ASSUME OrderLedgerInv, NEW t \in Txn, NEW o \in Order, QuietStatement(t, o)
  PROVE  LedgerInv' /\ KeysKnown' /\ KeysUnique'
  <1> USE StockAssumption, OrdersAssumption
  <1>1. /\ o \in Row /\ o \notin Bucket /\ DOMAIN holder = Row
        /\ \A b \in Bucket : b \in Row
        /\ \A p \in Order : p \in Row
    BY DEF OrderLedgerInv, ProtocolInv, OrdersTypeOK, StockTypeOK, Row
  <1>2. BooksNothing(t)
    BY <1>1 DEF QuietStatement, BooksNothing
  <1>3. ConcernsOrder(t, o)
    BY <1>1 DEF QuietStatement, ConcernsOrder
  <1>4. pending'[t] = pending[t]
    BY DEF QuietStatement
  <1> QED
    BY <1>2, <1>3, <1>4, NothingBooked, StatementKeys
       DEF OrderLedgerInv, ProtocolInv, OrdersTypeOK

\* A transaction that proceeds is about the document it is told.
LEMMA ProceedsAbout ==
  ASSUME StockTypeOK, NEW t \in Txn, NEW op, NEW step, NEW doc, NEW line,
         Proceed(t, op, step, doc, line)
  PROVE  tx'[t].doc = doc /\ \A u \in Txn \ {t} : tx'[u] = tx[u]
  BY DEF Proceed, Idle, StockTypeOK

\* The statement that begins a request.
LEMMA RequestQuiet ==
  ASSUME ProtocolInv, NEW t \in Txn, OrderRequest(t)
  PROVE  \E o \in Order : QuietStatement(t, o)
  <1> USE StockAssumption, OrdersAssumption
  <1>1. StockTypeOK /\ DOMAIN working = Row /\ \A p \in Order : p \in Row
    BY DEF ProtocolInv, OrdersTypeOK, StockTypeOK, Row
  <1>2. ASSUME NEW o \in Order, LockDocument(t, o),
               NEW op, NEW step, NEW line, Proceed(t, op, step, o, line)
        PROVE  QuietStatement(t, o)
    <2>1. tx'[t].doc = o /\ \A u \in Txn \ {t} : tx'[u] = tx[u]
      BY <1>1, <1>2, ProceedsAbout
    <2> QED
      BY <1>2, <2>1, GrowsNot DEF LockDocument, QuietStatement
  <1>3. ASSUME NEW o \in Order, NEW form \in OrderForms, NEW now \in BOOLEAN,
               CreateOrder(t, o, form, now)
        PROVE  QuietStatement(t, o)
    <2>1. PICK order : InsertDocument(t, o, order)
      BY <1>3 DEF CreateOrder
    <2>2. \E op, step, line : Proceed(t, op, step, o, line)
      BY <1>3 DEF CreateOrder
    <2>3. tx'[t].doc = o /\ \A u \in Txn \ {t} : tx'[u] = tx[u]
      BY <1>1, <2>2, ProceedsAbout
    <2>4. working[o] = Absent
      BY <1>1, <2>1 DEF InsertDocument, CanLock, ProtocolInv, LocksOK,
                        ControlOK
    <2>5. \A r \in Row \ {o} : working'[r] = working[r]
      BY <1>1, <2>1 DEF InsertDocument
    <2> QED
      BY <2>1, <2>3, <2>4, <2>5 DEF InsertDocument, QuietStatement, Grows
  <1>4. ASSUME NEW o \in Order, BeginReserve(t, o)
        PROVE  QuietStatement(t, o)
    BY <1>2, <1>4 DEF BeginReserve
  <1>5. ASSUME NEW o \in Order, BeginCancel(t, o) \/ BeginFulfil(t, o)
        PROVE  QuietStatement(t, o)
    BY <1>2, <1>5 DEF BeginCancel, BeginFulfil
  <1> QED
    BY <1>3, <1>4, <1>5 DEF OrderRequest

\* FindBuckets, FinishLine and FinishRelease.
LEMMA LocalStepQuiet ==
  ASSUME ProtocolInv, NEW t \in Txn, tx[t].doc \in Order,
         FindBuckets(t) \/ FinishLine(t) \/ FinishRelease(t)
  PROVE  \E o \in Order : QuietStatement(t, o)
  <1> USE StockAssumption, OrdersAssumption
  <1>1. ~IsIdle(t) /\ StockTypeOK
    BY DEF ProtocolInv, OrdersTypeOK, FindBuckets, FinishLine, FinishRelease,
           IsIdle
  <1>2. PICK o \in Order : o = tx[t].doc
    OBVIOUS
  <1>3. o \in Row /\ holder[o] = t /\ working[o] \in OrderRow
    BY <1>1, <1>2, OwnOrder
  <1>4. DOMAIN working = Row
    BY <1>1 DEF StockTypeOK
  <1>5. /\ UNCHANGED <<committed, holder, ledger, pending>>
        /\ \A r \in Row \ {o} : working'[r] = working[r]
        /\ working'[o] \in OrderRow
        /\ working'[o].reservations = working[o].reservations
    <2>1. CASE FindBuckets(t)
      BY <1>3, <2>1 DEF FindBuckets, rows
    <2>2. CASE FinishLine(t)
      <3>1. PICK p \in Order, order \in OrderRow : FinishesLine(t, p, order)
        BY <2>2, FinishLineFacts
      <3>2. /\ p = o
            /\ order.reservations = working[p].reservations
            /\ working' = [working EXCEPT ![p] = order]
            /\ UNCHANGED <<committed, holder, ledger, pending>>
        BY <1>2, <3>1 DEF FinishesLine
      <3> QED
        BY <1>3, <1>4, <3>2
    <2>3. CASE FinishRelease(t)
      <3>1. PICK status \in OrderStatus :
              status = IF tx[t].op = "fulfil" THEN "FULFILLED" ELSE "CANCELLED"
        BY DEF OrderStatus
      <3>2. PICK order : order = Closed(working[o], status)
        OBVIOUS
      <3>3. order \in OrderRow /\ order.reservations = working[o].reservations
        BY <1>3, <3>2, ClosedOrder
      <3>4. /\ working' = [working EXCEPT ![o] = order]
            /\ UNCHANGED <<committed, holder, ledger, pending>>
        BY <1>2, <2>3, <3>1, <3>2 DEF FinishRelease
      <3> QED
        BY <1>3, <1>4, <3>3, <3>4
    <2> QED
      BY <2>1, <2>2, <2>3
  <1>6. tx'[t].doc = o /\ \A u \in Txn \ {t} : tx'[u] = tx[u]
    <2>1. CASE FindBuckets(t)
      <3>1. tx[t] \in TxRow
        BY <1>1 DEF StockTypeOK
      <3> QED
        BY <1>1, <1>2, <2>1, <3>1 DEF FindBuckets, StockTypeOK, TxRow
    <2>2. CASE FinishLine(t) \/ FinishRelease(t)
      <3>1. \E op, step, line : Proceed(t, op, step, o, line)
        BY <1>2, <2>2 DEF FinishLine, FinishRelease
      <3> QED
        BY <1>1, <3>1, ProceedsAbout
    <2> QED
      BY <2>1, <2>2
  <1>7. Grows(working[o], working'[o])
    BY <1>3, <1>5 DEF Grows
  <1>8. holder' = [holder EXCEPT ![o] = t]
    BY <1>1, <1>3, <1>5 DEF StockTypeOK
  <1> QED
    BY <1>2, <1>3, <1>5, <1>6, <1>7, <1>8 DEF QuietStatement, CanLock

\* A statement that locks the bucket b and books a movement of it.
MovingStatement(t, o, b, entry) ==
    /\ ConcernsOrder(t, o)
    /\ BooksNew(t, o, entry)
    /\ entry.physicalDelta \in Int /\ entry.reservedDelta \in Int
    /\ BooksMovement(t, entry.idempotencyKey, b, entry.physicalDelta,
                     entry.reservedDelta, o)

\* So does one that books a movement under a new key.
LEMMA MovementLedger ==
  ASSUME OrderLedgerInv, NEW t \in Txn, NEW o \in Order, NEW b \in Bucket,
         NEW entry, MovingStatement(t, o, b, entry)
  PROVE  LedgerInv' /\ KeysKnown' /\ KeysUnique'
  <1>1. KeysKnown' /\ KeysUnique'
    BY StatementKeys DEF MovingStatement
  <1>2. \A e \in ledger \cup pending[t] : e.idempotencyKey # entry.idempotencyKey
    BY NewKey DEF MovingStatement
  <1>3. LedgerInv'
    BY <1>2, MovementBooked
       DEF MovingStatement, OrderLedgerInv, ProtocolInv, OrdersTypeOK
  <1> QED
    BY <1>1, <1>3

\* What a statement of t leaves to the other transactions.
LeavesOthers(t) ==
    /\ committed' = committed
    /\ \A u \in Txn \ {t} :
         /\ tx'[u] = tx[u]
         /\ \A r \in Row : /\ holder'[r] = u <=> holder[r] = u
                           /\ holder[r] = u => working'[r] = working[r]

\* TakeBucket: the key names the reservation that has just been added.
LEMMA TakeMoves ==
  ASSUME ProtocolInv, NEW t \in Txn, tx[t].doc \in Order, TakeBucket(t)
  PROVE  /\ LeavesOthers(t)
         /\ \E o \in Order, b \in Bucket :
              \/ /\ ConcernsOrder(t, o) /\ BooksNothing(t)
                 /\ UNCHANGED <<pending, working>>
              \/ \E entry : /\ MovingStatement(t, o, b, entry)
                            /\ entry.physicalDelta = 0
  <1> USE StockAssumption, OrdersAssumption
  <1>1. PICK o \in Order, b \in Bucket : TakesFrom(t, o, b)
    BY TakeFacts
  <1>2. /\ o = tx[t].doc /\ ~IsIdle(t) /\ b \in Row
        /\ working[b] \in BucketRow
        /\ CanLock(t, b)
        /\ holder' = [holder EXCEPT ![b] = t]
        /\ UNCHANGED <<committed, ledger>>
        /\ \/ SkipsBucket(t, b)
           \/ \E take \in Nat \ {0} : HoldsUnits(t, o, b, take)
    BY <1>1 DEF TakesFrom
  <1>3. /\ o \in Row /\ o # b /\ holder[o] = t
        /\ working[o] \in OrderRow /\ tx[t].line \in Nat
        /\ tx[t] \in TxRow
    BY <1>2, OwnOrder DEF TxRow
  <1>4. /\ CanLock(t, o) /\ holder'[o] = t /\ holder'[b] = t
        /\ \A r \in Row \ {b} : holder'[r] = holder[r]
        /\ \A c \in Bucket : c \in Row
        /\ \A p \in Order : p \in Row /\ p # b
    BY <1>2, <1>3 DEF CanLock, ProtocolInv, OrdersTypeOK, StockTypeOK, Row
  <1>5. tx'[t].doc = o /\ \A u \in Txn \ {t} : tx'[u] = tx[u]
    <2>1. tx \in [Txn -> TxRow]
      BY DEF ProtocolInv, OrdersTypeOK, StockTypeOK
    <2>2. \/ tx' = [tx EXCEPT ![t].todo = @ \ {b}]
          \/ \E take : tx' = [tx EXCEPT ![t].todo = @ \ {b}, ![t].remaining = @ - take]
      BY <1>2 DEF SkipsBucket, HoldsUnits
    <2> QED
      BY <1>2, <2>1, <2>2 DEF TxRow
  <1>6. ASSUME SkipsBucket(t, b)
        PROVE  /\ working' = working
               /\ ConcernsOrder(t, o) /\ BooksNothing(t)
               /\ UNCHANGED <<pending, working>>
    <2>1. UNCHANGED <<working, pending>>
      BY <1>6 DEF SkipsBucket
    <2>2. BooksNothing(t)
      BY <1>2, <1>4, <2>1 DEF BooksNothing, CanLock
    <2>3. ConcernsOrder(t, o)
      BY <1>2, <1>4, <1>5, <2>1, GrowsNot DEF ConcernsOrder
    <2> QED
      BY <2>1, <2>2, <2>3
  <1>7. ASSUME NEW take \in Nat \ {0}, HoldsUnits(t, o, b, take)
        PROVE  /\ \A r \in Row \ {b, o} : working'[r] = working[r]
               /\ \E entry : /\ MovingStatement(t, o, b, entry)
                             /\ entry.physicalDelta = 0
    <2>1. PICK held : held = [line |-> tx[t].line, inventoryId |-> b,
                              quantity |-> take, status |-> "ACTIVE"]
      OBVIOUS
    <2>2. /\ held \in Reservation
          /\ working'[b] = Moved(working[b], 0, take)
          /\ working'[o].reservations = Append(working[o].reservations, held)
          /\ working'[o] \in OrderRow
          /\ \A r \in Row \ {b, o} : working'[r] = working[r]
      <3>1. working[b] \in BucketRow /\ working[o] \in OrderRow /\ tx[t].line \in Nat
        BY <1>2, <1>3
      <3> QED
        BY <1>7, <2>1, <3>1, HeldRows
    <2>3. PICK k : k = Len(working[o].reservations) + 1
      OBVIOUS
    <2>4. PICK key : key = <<"RESERVATION", o, k, "RESERVE">>
      OBVIOUS
    <2>5. PICK entry : entry = [idempotencyKey |-> key, inventoryId |-> b,
                                physicalDelta |-> 0, reservedDelta |-> take,
                                refId |-> o]
      OBVIOUS
    <2>6. /\ entry.idempotencyKey = key /\ entry.physicalDelta = 0
          /\ entry.reservedDelta = take /\ entry.refId = o
      BY <2>5
    <2>7. Book(t, key, b, 0, take, o)
      BY <1>7, <2>3, <2>4 DEF HoldsUnits
    <2>8. /\ pending'[t] = pending[t] \cup {entry}
          /\ \A u \in Txn \ {t} : pending'[u] = pending[u]
      BY <2>5, <2>7 DEF Book, ProtocolInv, OrdersTypeOK, StockTypeOK
    <2>9. /\ working[o].reservations \in Seq(Reservation)
          /\ Len(working[o].reservations) \in Nat
          /\ DOMAIN working[o].reservations = 1 .. Len(working[o].reservations)
          /\ DOMAIN working'[o].reservations = 1 .. k
          /\ \A j \in DOMAIN working[o].reservations :
               working'[o].reservations[j] = working[o].reservations[j]
      BY <1>3, <2>2, <2>3, OrderParts, LenProperties, AppendProperties
    <2>10. Grows(working[o], working'[o])
      BY <1>3, <2>2, <2>3, <2>9 DEF Grows
    <2>11. ConcernsOrder(t, o)
      BY <1>2, <1>4, <1>5, <2>2, <2>8, <2>10 DEF ConcernsOrder
    <2>12. KeyKnown(key, o, working'[o]) /\ ~ KeyKnown(key, o, working[o])
      <3>1. k \in DOMAIN working'[o].reservations
        BY <2>3, <2>9
      <3>2. \A j \in DOMAIN working[o].reservations : j # k
        BY <2>3, <2>9
      <3> QED
        BY <2>2, <2>4, <3>1, <3>2 DEF KeyKnown
    <2>13. BooksNew(t, o, entry)
      BY <2>6, <2>8, <2>12 DEF BooksNew
    <2>14. BooksMovement(t, key, b, 0, take, o)
      BY <1>2, <1>3, <1>4, <2>2, <2>7 DEF BooksMovement
    <2>15. MovingStatement(t, o, b, entry)
      BY <2>6, <2>11, <2>13, <2>14 DEF MovingStatement
    <2> QED
      BY <2>2, <2>6, <2>15
  <1>8. LeavesOthers(t)
    <2>1. \A r \in Row \ {b, o} : working'[r] = working[r]
      BY <1>2, <1>6, <1>7
    <2> QED
      BY <1>2, <1>3, <1>4, <1>5, <2>1 DEF LeavesOthers, CanLock
  <1> QED
    BY <1>2, <1>6, <1>7, <1>8

\* ReleaseReservation: the key names the status the reservation has just got.
LEMMA ReleaseMoves ==
  ASSUME ProtocolInv, NEW t \in Txn, tx[t].doc \in Order, ReleaseReservation(t)
  PROVE  /\ LeavesOthers(t)
         /\ \E o \in Order, b \in Bucket : \E entry :
              /\ MovingStatement(t, o, b, entry)
              /\ tx[t].op # "fulfil" => entry.physicalDelta = 0
  <1> USE StockAssumption, OrdersAssumption
  <1>1. PICK o \in Order, b \in Bucket, q \in Nat \ {0}, shipped \in Nat :
          \E k \in DOMAIN working[o].reservations :
            ReleasesUnits(t, o, b, k, q, shipped)
    BY ReleaseFacts
  <1>2. PICK k \in DOMAIN working[o].reservations :
          ReleasesUnits(t, o, b, k, q, shipped)
    BY <1>1
  <1>3. /\ o = tx[t].doc /\ ~IsIdle(t)
        /\ k \in ActiveReservations(working[o])
        /\ working[o].reservations[k].inventoryId = b
        /\ shipped \in {0, q}
        /\ tx[t].op # "fulfil" => shipped = 0
        /\ CanLock(t, b)
        /\ holder' = [holder EXCEPT ![b] = t]
        /\ UNCHANGED <<committed, ledger, tx>>
        /\ Book(t, <<"RESERVATION", o, k, Outcome(t)>>, b, -shipped, -q, o)
    BY <1>2 DEF ReleasesUnits, Shipped
  <1>4. /\ o \in Row /\ b \in Row /\ o # b /\ holder[o] = t
        /\ working[o] \in OrderRow
    BY <1>3, OwnOrder DEF Row
  <1>5. working[b] \in BucketRow
    <2>1. working[b] # Absent
      BY <1>3, <1>4 DEF ProtocolInv, BucketsOK
    <2> QED
      BY <2>1, BucketVersions
  <1>6. /\ CanLock(t, o) /\ holder'[o] = t /\ holder'[b] = t
        /\ \A r \in Row \ {b} : holder'[r] = holder[r]
        /\ \A c \in Bucket : c \in Row
        /\ \A p \in Order : p \in Row /\ p # b
    BY <1>3, <1>4 DEF CanLock, ProtocolInv, OrdersTypeOK, StockTypeOK, Row
  <1>7. /\ working'[b] = Moved(working[b], -shipped, -q)
        /\ working'[o] \in OrderRow
        /\ DOMAIN working'[o].reservations = DOMAIN working[o].reservations
        /\ \A j \in DOMAIN working[o].reservations :
             working'[o].reservations[j] =
               IF j = k THEN [working[o].reservations[k] EXCEPT
                                !.status = Outcome(t)]
                        ELSE working[o].reservations[j]
        /\ \A r \in Row \ {b, o} : working'[r] = working[r]
    BY <1>2, <1>4, <1>5, ReleasedRows
  <1>8. PICK outcome : outcome = Outcome(t) /\ outcome \in {"CONSUMED", "RELEASED"}
    BY DEF Outcome
  <1>9. /\ working'[o].reservations[k].status = outcome
        /\ working[o].reservations[k].status = "ACTIVE"
    <2>1. PICK old \in Reservation : old = working[o].reservations[k]
      BY <1>4, OrderParts
    <2>2. [old EXCEPT !.status = outcome].status = outcome
      BY DEF Reservation
    <2> QED
      BY <1>3, <1>7, <1>8, <2>1, <2>2 DEF ActiveReservations
  <1>10. PICK key : key = <<"RESERVATION", o, k, outcome>>
    OBVIOUS
  <1>11. PICK entry : entry = [idempotencyKey |-> key, inventoryId |-> b,
                               physicalDelta |-> -shipped, reservedDelta |-> -q,
                               refId |-> o]
    OBVIOUS
  <1>12. /\ entry.idempotencyKey = key /\ entry.physicalDelta = -shipped
         /\ entry.reservedDelta = -q /\ entry.refId = o
    BY <1>11
  <1>13. Book(t, key, b, -shipped, -q, o)
    BY <1>3, <1>8, <1>10
  <1>14. /\ pending'[t] = pending[t] \cup {entry}
         /\ \A u \in Txn \ {t} : pending'[u] = pending[u]
    BY <1>11, <1>13 DEF Book, ProtocolInv, OrdersTypeOK, StockTypeOK
  <1>15. Grows(working[o], working'[o])
    <2>1. working'[o] # Absent
      BY <1>7
    <2> QED
      BY <1>7, <1>9, <2>1 DEF Grows
  <1>16. ConcernsOrder(t, o)
    BY <1>3, <1>6, <1>7, <1>14, <1>15 DEF ConcernsOrder
  <1>17. KeyKnown(key, o, working'[o]) /\ ~ KeyKnown(key, o, working[o])
    <2>1. working'[o] # Absent
      BY <1>7
    <2> QED
      BY <1>7, <1>8, <1>9, <1>10, <2>1 DEF KeyKnown
  <1>18. BooksNew(t, o, entry)
    BY <1>12, <1>14, <1>17 DEF BooksNew
  <1>19. BooksMovement(t, key, b, -shipped, -q, o)
    BY <1>3, <1>5, <1>6, <1>7, <1>13 DEF BooksMovement
  <1>20. MovingStatement(t, o, b, entry)
    BY <1>12, <1>16, <1>18, <1>19 DEF MovingStatement
  <1>21. tx[t].op # "fulfil" => entry.physicalDelta = 0
    BY <1>3, <1>12
  <1>22. LeavesOthers(t)
    BY <1>3, <1>4, <1>6, <1>7 DEF LeavesOthers, CanLock
  <1> QED
    BY <1>20, <1>21, <1>22

-----------------------------------------------------------------------------
\* Every step of the specification keeps the ledger true.
LEMMA StepLedger ==
  ASSUME OrderLedgerInv, [OrdersNext]_vars
  PROVE  OrderLedgerInv'
  <1>1. ProtocolInv /\ ProtocolInv'
    BY StepProtocol DEF OrderLedgerInv
  <1>2. CASE UNCHANGED vars
    BY <1>1, <1>2 DEF vars, OrderLedgerInv, LedgerInv, EntriesOK, BooksOK,
                      KeysKnown, KeysUnique
  <1>3. CASE OrdersNext
    <2>1. PICK t \in Txn : OrderStep(t) \/ OrderDeadlock(t) \/ Lost(t)
      BY <1>3 DEF OrdersNext
    <2>2. ASSUME Rollback(t)
          PROVE  LedgerInv' /\ KeysKnown' /\ KeysUnique'
      BY <2>2, RollbackLedger, RollbackKeys
         DEF OrderLedgerInv, ProtocolInv, OrdersTypeOK
    <2>3. ASSUME Commit(t)
          PROVE  LedgerInv' /\ KeysKnown' /\ KeysUnique'
      BY <2>3, CommitLedger, CommitKeys
         DEF OrderLedgerInv, ProtocolInv, OrdersTypeOK
    <2>4. CASE OrderRequest(t)
      BY <1>1, <2>4, RequestQuiet, QuietLedger DEF OrderLedgerInv
    <2>5. CASE OrderLocalStep(t)
      <3>1. CASE FindBuckets(t) \/ FinishLine(t) \/ FinishRelease(t)
        BY <1>1, <2>5, <3>1, LocalStepQuiet, QuietLedger
           DEF OrderLedgerInv, OrderLocalStep
      <3>2. CASE RefuseShortage(t)
        BY <1>1, <2>2, <3>2 DEF OrderLedgerInv, RefuseShortage
      <3>3. CASE OrderCommit(t)
        BY <1>1, <2>3, <3>3 DEF OrderLedgerInv, OrderCommit
      <3> QED
        BY <2>5, <3>1, <3>2, <3>3 DEF OrderLocalStep
    <2>6. CASE OrderLockStep(t)
      <3>1. CASE TakeBucket(t)
        <4>1. PICK o \in Order, b \in Bucket :
                \/ /\ ConcernsOrder(t, o) /\ BooksNothing(t)
                   /\ UNCHANGED <<pending, working>>
                \/ \E entry : MovingStatement(t, o, b, entry)
          BY <1>1, <2>6, <3>1, TakeMoves DEF OrderLockStep
        <4>2. CASE ConcernsOrder(t, o) /\ BooksNothing(t) /\ UNCHANGED pending
          BY <1>1, <4>2, NothingBooked, StatementKeys
             DEF OrderLedgerInv, ProtocolInv, OrdersTypeOK
        <4>3. CASE \E entry : MovingStatement(t, o, b, entry)
          BY <1>1, <4>3, MovementLedger DEF OrderLedgerInv
        <4> QED
          BY <4>1, <4>2, <4>3
      <3>2. CASE ReleaseReservation(t)
        <4>1. PICK o \in Order, b \in Bucket : \E entry : MovingStatement(t, o, b, entry)
          BY <1>1, <2>6, <3>2, ReleaseMoves DEF OrderLockStep
        <4> QED
          BY <1>1, <4>1, MovementLedger DEF OrderLedgerInv
      <3> QED
        BY <2>6, <3>1, <3>2 DEF OrderLockStep
    <2>7. CASE OrderDeadlock(t)
      BY <1>1, <2>2, <2>7, DeadlockRollsBack DEF OrderLedgerInv
    <2>8. CASE Lost(t)
      BY <1>1, <2>2, <2>8 DEF OrderLedgerInv, Lost
    <2> QED
      BY <1>1, <2>1, <2>4, <2>5, <2>6, <2>7, <2>8 DEF OrderStep, OrderLedgerInv
  <1> QED
    BY <1>2, <1>3

\* The ledger is true of orders and buckets in every reachable state.
THEOREM LedgerIsTrue == OrdersSpec => []OrderLedgerInv
  <1>1. Init => OrderLedgerInv
    BY InitOrderLedger
  <1>2. OrderLedgerInv /\ [OrdersNext]_vars => OrderLedgerInv'
    BY StepLedger
  <1> QED
    BY <1>1, <1>2, PTL DEF OrdersSpec

\* No movement of stock is booked twice, neither in the committed ledger nor by
\* two transactions that run at the same time.
THEOREM NothingBookedTwice == OrdersSpec => []KeysUnique
  <1>1. OrderLedgerInv => KeysUnique
    BY DEF OrderLedgerInv
  <1> QED
    BY <1>1, LedgerIsTrue, PTL

\* The sum of the committed ledger rows of a bucket is what has become of its
\* initial stock, for both quantities: reconcile finds no difference.
THEOREM StockIsExplained == OrdersSpec => []LedgerExplainsStock
  <1>1. OrderLedgerInv => LedgerExplainsStock
    BY LedgerInvExplains DEF OrderLedgerInv
  <1> QED
    BY <1>1, LedgerIsTrue, PTL

-----------------------------------------------------------------------------
(***************************************************************************)
(* Goods leave only with the order that reserved them.                     *)
(***************************************************************************)

\* A transaction that ships is about an order that was RESERVED, and only one
\* that ships has changed the physical quantity of a bucket it has locked.
ShipsOK(t) ==
    ~IsIdle(t) =>
      /\ tx[t].op = "fulfil" =>
           /\ tx[t].step \in {"release", "commit"}
           /\ committed[tx[t].doc] # Absent
           /\ committed[tx[t].doc].status = "RESERVED"
           /\ tx[t].step = "commit" => working[tx[t].doc].status = "FULFILLED"
      /\ tx[t].op # "fulfil" =>
           \A b \in Bucket : holder[b] = t =>
             Quantities(working[b]).physicalQty = Quantities(committed[b]).physicalQty

ShippingInv == OrderLedgerInv /\ \A t \in Txn : ShipsOK(t)

\* Nothing ships at the start.
LEMMA InitShipping == Init => ShippingInv
  <1>1. Init => \A t \in Txn : ShipsOK(t)
    BY DEF Init, ShipsOK, IsIdle, Idle
  <1> QED
    BY <1>1, InitOrderLedger DEF ShippingInv

\* They ship what they shipped.
LEMMA OthersShip ==
  ASSUME ShippingInv, NEW t \in Txn, LeavesOthers(t), NEW u \in Txn, u # t
  PROVE  ShipsOK(u)'
  <1>1. ShipsOK(u)
    BY DEF ShippingInv
  <1>2. /\ tx'[u] = tx[u] /\ committed' = committed
        /\ \A r \in Row : /\ holder'[r] = u <=> holder[r] = u
                          /\ holder[r] = u => working'[r] = working[r]
    BY DEF LeavesOthers
  <1>3. \A b \in Bucket : b \in Row
    BY DEF Row
  <1>4. ~IsIdle(u) => tx[u].doc \in Row /\ holder[tx[u].doc] = u
    BY OwnOrder DEF ShippingInv, OrderLedgerInv
  <1> QED
    BY <1>1, <1>2, <1>3, <1>4 DEF ShipsOK, IsIdle

\* A transaction that has not begun has locked no bucket.
LEMMA IdleHoldsNothing ==
  ASSUME ProtocolInv, NEW t \in Txn, IsIdle(t), NEW r \in Row
  PROVE  holder[r] # t
  BY StockAssumption DEF ProtocolInv, LocksOK

\* The statements that write no bucket leave the others alone.
LEMMA QuietLeaves ==
  ASSUME ProtocolInv, NEW t \in Txn, NEW o \in Order, QuietStatement(t, o)
  PROVE  /\ LeavesOthers(t)
         /\ \A b \in Bucket : holder'[b] = holder[b] /\ working'[b] = working[b]
  <1>1. /\ o \in Row /\ o \notin Bucket /\ DOMAIN holder = Row
        /\ \A b \in Bucket : b \in Row
    BY StockAssumption, OrdersAssumption
       DEF ProtocolInv, OrdersTypeOK, StockTypeOK, Row
  <1>2. \A u \in Txn : u # None
    BY StockAssumption
  <1> QED
    BY <1>1, <1>2 DEF QuietStatement, LeavesOthers, CanLock

\* The request of t begins, or it reads, writes its order or ends a loop.
LEMMA QuietShips ==
  ASSUME ShippingInv, NEW t \in Txn,
         \/ OrderRequest(t)
         \/ /\ tx[t].doc \in Order
            /\ FindBuckets(t) \/ FinishLine(t) \/ FinishRelease(t)
  PROVE  /\ committed' = committed
         /\ \A u \in Txn : ShipsOK(u)'
  <1> USE StockAssumption, OrdersAssumption
  <1>1. ProtocolInv /\ StockTypeOK /\ ShipsOK(t)
    BY DEF ShippingInv, OrderLedgerInv, ProtocolInv, OrdersTypeOK
  <1>2. PICK o \in Order : QuietStatement(t, o)
    BY <1>1, RequestQuiet, LocalStepQuiet
  <1>3. /\ LeavesOthers(t)
        /\ \A b \in Bucket : holder'[b] = holder[b] /\ working'[b] = working[b]
    BY <1>1, <1>2, QuietLeaves
  <1>4. committed' = committed /\ tx'[t].doc = o
    BY <1>2 DEF QuietStatement
  <1>5. ShipsOK(t)'
    <2>1. ASSUME IsIdle(t)
          PROVE  \A b \in Bucket : holder'[b] # t
      BY <1>1, <1>3, <2>1, IdleHoldsNothing DEF Row
    <2>2. ASSUME NEW p \in Order, NEW op, NEW step, NEW line,
                 Proceed(t, op, step, p, line)
          PROVE  tx'[t].op = op /\ tx'[t].step = step /\ tx'[t].doc = p
      BY <1>1, <2>2 DEF Proceed, Idle, StockTypeOK
    <2>3. ASSUME NEW p \in Order, BeginFulfil(t, p)
          PROVE  ShipsOK(t)'
      BY <1>4, <2>2, <2>3 DEF BeginFulfil, LockDocument, ShipsOK
    <2>4. ASSUME NEW p \in Order, NEW form \in OrderForms, NEW now \in BOOLEAN,
                 CreateOrder(t, p, form, now)
          PROVE  ShipsOK(t)'
      <3>1. IsIdle(t) /\ tx'[t].op # "fulfil"
        BY <2>2, <2>4 DEF CreateOrder, InsertDocument
      <3> QED
        BY <2>1, <3>1 DEF ShipsOK
    <2>5. ASSUME NEW p \in Order, BeginReserve(t, p) \/ BeginCancel(t, p)
          PROVE  ShipsOK(t)'
      <3>1. IsIdle(t) /\ tx'[t].op # "fulfil"
        BY <2>2, <2>5 DEF BeginReserve, BeginCancel, LockDocument
      <3> QED
        BY <2>1, <3>1 DEF ShipsOK
    <2>6. CASE tx[t].doc \in Order /\ (FindBuckets(t) \/ FinishLine(t))
      <3>1. ~IsIdle(t) /\ tx[t].op # "fulfil"
        BY <1>1, <2>6 DEF FindBuckets, FinishLine, IsIdle, ShipsOK
      <3>2. tx'[t].op # "fulfil"
        <4>1. CASE FindBuckets(t)
          <5>1. tx[t] \in TxRow
            BY <1>1 DEF StockTypeOK
          <5> QED
            BY <1>1, <3>1, <4>1, <5>1 DEF FindBuckets, StockTypeOK, TxRow
        <4>2. CASE FinishLine(t)
          BY <2>2, <2>6, <4>2 DEF FinishLine
        <4> QED
          BY <2>6, <4>1, <4>2
      <3> QED
        BY <1>1, <1>3, <1>4, <3>1, <3>2 DEF ShipsOK
    <2>7. CASE tx[t].doc \in Order /\ FinishRelease(t)
      <3>1. PICK p \in Order : p = tx[t].doc
        BY <2>7
      <3>2. /\ ~IsIdle(t) /\ tx'[t].op = tx[t].op /\ tx'[t].step = "commit"
            /\ tx'[t].doc = p
        BY <2>2, <2>7, <3>1 DEF FinishRelease, IsIdle
      <3>3. ASSUME tx[t].op = "fulfil"
            PROVE  working'[p].status = "FULFILLED"
        <4>1. p \in Row /\ working[p] \in OrderRow
          BY <1>1, <3>1, <3>2, OwnOrder
        <4>2. working' = [working EXCEPT ![p] = Closed(working[p], "FULFILLED")]
          BY <2>7, <3>1, <3>3 DEF FinishRelease
        <4>3. Closed(working[p], "FULFILLED").status = "FULFILLED"
          BY <4>1 DEF Closed, OrderRow
        <4> QED
          BY <1>1, <4>1, <4>2, <4>3 DEF StockTypeOK
      <3> QED
        BY <1>1, <1>3, <1>4, <3>1, <3>2, <3>3 DEF ShipsOK
    <2> QED
      BY <2>3, <2>4, <2>5, <2>6, <2>7 DEF OrderRequest
  <1> QED
    BY <1>3, <1>4, <1>5, OthersShip

\* A statement that takes or gives back units.
LEMMA LockStepShips ==
  ASSUME ShippingInv, NEW t \in Txn, tx[t].doc \in Order,
         TakeBucket(t) \/ ReleaseReservation(t)
  PROVE  /\ committed' = committed
         /\ \A u \in Txn : ShipsOK(u)'
  <1> USE StockAssumption, OrdersAssumption
  <1>1. ProtocolInv /\ StockTypeOK /\ ShipsOK(t) /\ ~IsIdle(t)
    BY DEF ShippingInv, OrderLedgerInv, ProtocolInv, OrdersTypeOK, TakeBucket,
           ReleaseReservation, IsIdle
  <1>2. tx[t] \in TxRow
    BY <1>1 DEF StockTypeOK
  <1>3. /\ tx'[t].op = tx[t].op /\ tx'[t].step = tx[t].step
        /\ tx'[t].doc = tx[t].doc
        /\ \A u \in Txn \ {t} : tx'[u] = tx[u]
    <2>1. CASE ReleaseReservation(t)
      BY <2>1 DEF ReleaseReservation
    <2>2. CASE TakeBucket(t)
      <3>1. \/ \E b : tx' = [tx EXCEPT ![t].todo = @ \ {b}]
            \/ \E b, take : tx' = [tx EXCEPT ![t].todo = @ \ {b},
                                            ![t].remaining = @ - take]
        BY <2>2 DEF TakeBucket
      <3>2. tx \in [Txn -> TxRow]
        BY <1>1 DEF StockTypeOK
      <3>3. ASSUME NEW b, tx' = [tx EXCEPT ![t].todo = @ \ {b}]
            PROVE  /\ tx'[t].op = tx[t].op /\ tx'[t].step = tx[t].step
                   /\ tx'[t].doc = tx[t].doc
                   /\ \A u \in Txn \ {t} : tx'[u] = tx[u]
        BY <3>2, <3>3 DEF TxRow
      <3>4. ASSUME NEW b, NEW take, tx' = [tx EXCEPT ![t].todo = @ \ {b},
                                            ![t].remaining = @ - take]
            PROVE  /\ tx'[t].op = tx[t].op /\ tx'[t].step = tx[t].step
                   /\ tx'[t].doc = tx[t].doc
                   /\ \A u \in Txn \ {t} : tx'[u] = tx[u]
        BY <3>2, <3>4 DEF TxRow
      <3> QED
        BY <3>1, <3>3, <3>4
    <2> QED
      BY <2>1, <2>2
  <1>4. /\ LeavesOthers(t)
        /\ \E b \in Bucket :
             \/ UNCHANGED working /\ BooksNothing(t)
             \/ \E physicalDelta \in Int, reservedDelta \in Int : \E key, ref :
                  /\ BooksMovement(t, key, b, physicalDelta, reservedDelta, ref)
                  /\ tx[t].op # "fulfil" => physicalDelta = 0
    <2>1. CASE TakeBucket(t)
      <3>1. LeavesOthers(t)
        BY <1>1, <2>1, TakeMoves
      <3>2. PICK o \in Order, b \in Bucket :
              \/ ConcernsOrder(t, o) /\ BooksNothing(t) /\ UNCHANGED <<pending, working>>
              \/ \E entry : MovingStatement(t, o, b, entry) /\ entry.physicalDelta = 0
        BY <1>1, <2>1, TakeMoves
      <3>3. ASSUME NEW entry, MovingStatement(t, o, b, entry),
                   entry.physicalDelta = 0
            PROVE  \E physicalDelta \in Int, reservedDelta \in Int : \E key, ref :
                     /\ BooksMovement(t, key, b, physicalDelta, reservedDelta, ref)
                     /\ physicalDelta = 0
        <4>1. /\ entry.physicalDelta \in Int /\ entry.reservedDelta \in Int
              /\ BooksMovement(t, entry.idempotencyKey, b, entry.physicalDelta,
                               entry.reservedDelta, o)
          BY <3>3 DEF MovingStatement
        <4> QED
          BY <3>3, <4>1
      <3> QED
        BY <3>1, <3>2, <3>3
    <2>2. CASE ReleaseReservation(t)
      <3>1. LeavesOthers(t)
        BY <1>1, <2>2, ReleaseMoves
      <3>2. PICK o \in Order, b \in Bucket : \E entry :
              /\ MovingStatement(t, o, b, entry)
              /\ tx[t].op # "fulfil" => entry.physicalDelta = 0
        BY <1>1, <2>2, ReleaseMoves
      <3>3. \E physicalDelta \in Int, reservedDelta \in Int : \E key, ref :
              /\ BooksMovement(t, key, b, physicalDelta, reservedDelta, ref)
              /\ tx[t].op # "fulfil" => physicalDelta = 0
        <4>1. PICK entry : /\ MovingStatement(t, o, b, entry)
                           /\ tx[t].op # "fulfil" => entry.physicalDelta = 0
          BY <3>2
        <4>2. /\ entry.physicalDelta \in Int /\ entry.reservedDelta \in Int
              /\ BooksMovement(t, entry.idempotencyKey, b, entry.physicalDelta,
                               entry.reservedDelta, o)
          BY <4>1 DEF MovingStatement
        <4> QED
          BY <4>1, <4>2
      <3> QED
        BY <3>1, <3>3
    <2> QED
      BY <2>1, <2>2
  <1>5. committed' = committed
    BY <1>4 DEF LeavesOthers
  <1>6. ASSUME tx[t].op # "fulfil", NEW c \in Bucket, holder'[c] = t
        PROVE  Quantities(working'[c]).physicalQty
                 = Quantities(committed[c]).physicalQty
    <2>1. CASE holder[c] = t /\ working'[c] = working[c]
      BY <1>1, <1>6, <2>1 DEF ShipsOK
    <2>2. CASE holder[c] # t /\ working'[c] = working[c]
      <3>1. holder[c] = None
        BY <1>4, <1>6, <2>2 DEF BooksNothing, BooksMovement, CanLock
      <3> QED
        BY <1>1, <2>2, <3>1 DEF ProtocolInv, LocksOK, Row
    <2>3. CASE working'[c] # working[c]
      <3>1. PICK physicalDelta \in Int, reservedDelta \in Int : \E key, ref :
              BooksMovement(t, key, c, physicalDelta, reservedDelta, ref)
              /\ physicalDelta = 0
        BY <1>4, <1>6, <2>3 DEF BooksMovement
      <3>2. /\ working[c] \in BucketRow
            /\ working'[c] = Moved(working[c], 0, reservedDelta)
        BY <1>1, <3>1 DEF BooksMovement, StockTypeOK
      <3>3. /\ working'[c] \in BucketRow
            /\ working'[c].physicalQty = working[c].physicalQty
        BY <3>2 DEF Moved, BucketRow
      <3>4. Quantities(working'[c]).physicalQty = Quantities(working[c]).physicalQty
        BY <3>2, <3>3, StockAssumption DEF Quantities
      <3>5. CASE holder[c] = t
        BY <1>1, <1>6, <3>4, <3>5 DEF ShipsOK
      <3>6. CASE holder[c] = None
        BY <1>1, <3>4, <3>6 DEF ProtocolInv, LocksOK, Row
      <3> QED
        BY <3>1, <3>5, <3>6 DEF BooksMovement, CanLock
    <2> QED
      BY <2>1, <2>2, <2>3
  <1>7. ShipsOK(t)'
    <2>1. ASSUME tx[t].op = "fulfil"
          PROVE  tx[t].step # "commit"
      BY DEF TakeBucket, ReleaseReservation
    <2> QED
      BY <1>1, <1>3, <1>5, <1>6, <2>1 DEF ShipsOK
  <1> QED
    BY <1>4, <1>5, <1>7, OthersShip

\* The end of a transaction: it is idle, and the others are left alone.
LEMMA EndShips ==
  ASSUME ShippingInv, NEW t \in Txn, Commit(t) \/ Rollback(t)
  PROVE  \A u \in Txn : ShipsOK(u)'
  <1> USE StockAssumption
  <1>1. ProtocolInv /\ StockTypeOK
    BY DEF ShippingInv, OrderLedgerInv, ProtocolInv, OrdersTypeOK
  <1>2. /\ tx'[t] = Idle
        /\ \A u \in Txn \ {t} : tx'[u] = tx[u]
        /\ \A r \in Row : /\ holder'[r] = IF holder[r] = t THEN None ELSE holder[r]
                          /\ holder[r] # t => /\ working'[r] = working[r]
                                              /\ committed'[r] = committed[r]
    BY <1>1 DEF Commit, Rollback, Finish, StockTypeOK
  <1>3. ShipsOK(t)'
    BY <1>2 DEF ShipsOK, IsIdle, Idle
  <1>4. ASSUME NEW u \in Txn, u # t
        PROVE  ShipsOK(u)'
    <2>1. ShipsOK(u)
      BY DEF ShippingInv
    <2>2. ~IsIdle(u) => tx[u].doc \in Row /\ holder[tx[u].doc] = u
      BY <1>1, OwnOrder
    <2>3. \A b \in Bucket : b \in Row
      BY DEF Row
    <2> QED
      BY <1>2, <1>4, <2>1, <2>2, <2>3 DEF ShipsOK, IsIdle
  <1> QED
    BY <1>3, <1>4

\* Every step of the specification.
LEMMA StepShips ==
  ASSUME ShippingInv, [OrdersNext]_vars
  PROVE  ShippingInv'
  <1>1. OrderLedgerInv'
    BY StepLedger DEF ShippingInv
  <1>2. CASE UNCHANGED vars
    BY <1>1, <1>2 DEF vars, ShippingInv, ShipsOK, IsIdle
  <1>3. CASE OrdersNext
    <2>1. PICK t \in Txn : OrderStep(t) \/ OrderDeadlock(t) \/ Lost(t)
      BY <1>3 DEF OrdersNext
    <2>2. CASE \/ OrderRequest(t)
               \/ /\ tx[t].doc \in Order
                  /\ FindBuckets(t) \/ FinishLine(t) \/ FinishRelease(t)
      BY <1>1, <2>2, QuietShips DEF ShippingInv
    <2>3. CASE tx[t].doc \in Order /\ (TakeBucket(t) \/ ReleaseReservation(t))
      BY <1>1, <2>3, LockStepShips DEF ShippingInv
    <2>4. CASE Rollback(t)
      BY <1>1, <2>4, EndShips DEF ShippingInv, Rollback
    <2>5. CASE tx[t].doc \in Order /\ OrderCommit(t)
      BY <1>1, <2>5, EndShips DEF ShippingInv, OrderCommit
    <2> QED
      BY <2>1, <2>2, <2>3, <2>4, <2>5, DeadlockRollsBack
         DEF OrderStep, OrderLocalStep, OrderLockStep, RefuseShortage, Lost
  <1> QED
    BY <1>2, <1>3

-----------------------------------------------------------------------------
(***************************************************************************)
(* Orders are filled as a whole.  The inductive invariant says what a      *)
(* committed order holds in each status, and how far the transaction that  *)
(* has it locked has come in filling or closing it.                        *)
(***************************************************************************)

\* The reservations of the line l, whatever their status, and what they come to.
LineReservations(order, l) ==
    {k \in DOMAIN order.reservations : order.reservations[k].line = l}
LineTotal(order, l) == QuantityOf(order, LineReservations(order, l))

\* All reservations have one status; a line has been filled, or not begun.
AllAre(order, status) ==
    \A k \in DOMAIN order.reservations : order.reservations[k].status = status
Filled(order, l) == LineTotal(order, l) = order.lines[l].quantity
Untouched(order, l) ==
    order.lines[l].reservedQty = 0 /\ LineReservations(order, l) = {}

\* An order as it is committed, by its status.
Settled(order) ==
    /\ order.status = "DRAFT" =>
         /\ DOMAIN order.reservations = {}
         /\ \A l \in DOMAIN order.lines : order.lines[l].reservedQty = 0
    /\ order.status = "RESERVED" =>
         /\ AllAre(order, "ACTIVE")
         /\ \A l \in DOMAIN order.lines :
              /\ Filled(order, l)
              /\ order.lines[l].reservedQty = order.lines[l].quantity
    /\ order.status = "FULFILLED" =>
         /\ AllAre(order, "CONSUMED")
         /\ \A l \in DOMAIN order.lines :
              Filled(order, l) /\ order.lines[l].reservedQty = 0
    /\ order.status = "CANCELLED" =>
         /\ AllAre(order, "RELEASED")
         /\ \A l \in DOMAIN order.lines : order.lines[l].reservedQty = 0

\* An order that is being filled: each line has been filled or not touched,
\* but for the line l, where something is still to be taken.
BeingFilled(order, l, step, remaining) ==
    /\ order.status = "DRAFT" /\ AllAre(order, "ACTIVE")
    /\ \A m \in DOMAIN order.lines \ {l} :
         \/ Filled(order, m) /\ order.lines[m].reservedQty = order.lines[m].quantity
         \/ Untouched(order, m)
    /\ order.lines[l].reservedQty = 0
    /\ step = "find" => Untouched(order, l)
    /\ step = "take" => /\ remaining \in Nat
                        /\ LineTotal(order, l) + remaining = order.lines[l].quantity

\* An order whose reservations are being closed, as outcome says.
BeingClosed(order, op, outcome) ==
    /\ \A k \in DOMAIN order.reservations :
         order.reservations[k].status \in {"ACTIVE", outcome}
    /\ op = "fulfil" => \A l \in DOMAIN order.lines : Filled(order, l)

\* What a running transaction has made of its order, by the statement it is at.
InHand(t) ==
    LET order == working[tx[t].doc]
    IN  /\ tx[t].step \in {"find", "take"} =>
             BeingFilled(order, tx[t].line, tx[t].step, tx[t].remaining)
        /\ tx[t].step = "release" => BeingClosed(order, tx[t].op, Outcome(t))
        /\ tx[t].step = "commit" => Settled(order)

\* A transaction locks no order but the one it is about.
OwnOrderOnly == \A o \in Order : holder[o] # None => tx[holder[o]].doc = o

\* Committed orders are settled, and the others are in somebody's hand.
FillOK ==
    /\ \A o \in Order : committed[o] # Absent => Settled(committed[o])
    /\ OwnOrderOnly
    /\ \A t \in Txn : ~IsIdle(t) => InHand(t)

-----------------------------------------------------------------------------
(* What the reservations of a line amount to.                              *)

\* The quantities of reservations are summed as any function is.
LEMMA QuantityOfIs ==
  ASSUME NEW S, IsFiniteSet(S), NEW order, NEW f,
         \A k \in S : f[k] = order.reservations[k].quantity
  PROVE  QuantityOf(order, S) = SumOf(f, S)
  <1> DEFINE Folds(g) == g = [T \in SUBSET S |->
                                IF T = {} THEN 0
                                ELSE LET k == CHOOSE k \in T : TRUE
                                     IN  order.reservations[k].quantity + g[T \ {k}]]
             iter == CHOOSE g : Folds(g)
  <1>1. QuantityOf(order, S) = iter[S]
    BY DEF QuantityOf, MapThenSumSet, MapThenFoldSet
  <1>2. ASSUME NEW g
        PROVE  Folds(g) <=> IsSum(g, f, S)
    BY DEF IsSum, PickOf
  <1>3. \E g : IsSum(g, f, S)
    BY SumExists
  <1> HIDE DEF Folds
  <1>4. Folds(iter)
    BY <1>2, <1>3
  <1> HIDE DEF iter
  <1> QED
    BY <1>1, <1>2, <1>3, <1>4, SumUnique DEF SumOf

\* An order has finitely many reservations, of whole quantities.
LEMMA LineTotalType ==
  ASSUME NEW order \in OrderRow, NEW l
  PROVE  /\ IsFiniteSet(LineReservations(order, l))
         /\ LineTotal(order, l) \in Int
         /\ LineReservations(order, l) = {} => LineTotal(order, l) = 0
  <1> DEFINE S == LineReservations(order, l)
             f == [k \in S |-> order.reservations[k].quantity]
  <1>1. /\ order.reservations \in Seq(Reservation)
        /\ \A k \in DOMAIN order.reservations :
             order.reservations[k] \in Reservation
    BY OrderParts
  <1>2. IsFiniteSet(S)
    <2>1. /\ DOMAIN order.reservations = 1 .. Len(order.reservations)
          /\ Len(order.reservations) \in Nat
      BY <1>1, LenProperties
    <2>2. IsFiniteSet(DOMAIN order.reservations)
      BY <2>1, FS_Interval
    <2> QED
      BY <2>2, FS_Subset DEF LineReservations
  <1>3. \A k \in S : f[k] \in Int /\ f[k] = order.reservations[k].quantity
    BY <1>1 DEF LineReservations, Reservation
  <1>4. LineTotal(order, l) = SumOf(f, S)
    <2> HIDE DEF f
    <2> QED
      BY <1>2, <1>3, QuantityOfIs DEF LineTotal
  <1> HIDE DEF S, f
  <1>5. SumOf(f, S) \in Int /\ SumOf(f, {}) = 0
    BY <1>2, <1>3, SumOfInt, SumOfStep
  <1> QED
    BY <1>2, <1>4, <1>5 DEF S

\* Reservations that keep their lines and quantities amount to the same.
LEMMA SameLineTotal ==
  ASSUME NEW order \in OrderRow, NEW after \in OrderRow,
         DOMAIN after.reservations = DOMAIN order.reservations,
         \A k \in DOMAIN order.reservations :
           /\ after.reservations[k].line = order.reservations[k].line
           /\ after.reservations[k].quantity = order.reservations[k].quantity,
         NEW l
  PROVE  /\ LineReservations(after, l) = LineReservations(order, l)
         /\ LineTotal(after, l) = LineTotal(order, l)
  <1> DEFINE S == LineReservations(order, l)
             f == [k \in S |-> order.reservations[k].quantity]
  <1>1. LineReservations(after, l) = S
    BY DEF LineReservations
  <1>2. IsFiniteSet(S)
    BY LineTotalType
  <1>3. \A k \in S : /\ f[k] = order.reservations[k].quantity
                     /\ f[k] = after.reservations[k].quantity
    BY DEF LineReservations
  <1> HIDE DEF f, S
  <1>4. QuantityOf(order, S) = SumOf(f, S) /\ QuantityOf(after, S) = SumOf(f, S)
    BY <1>2, <1>3, QuantityOfIs
  <1> QED
    BY <1>1, <1>4 DEF LineTotal, S

\* One more reservation adds its quantity to its line, and to no other.
LEMMA LineTotalAfterAppend ==
  ASSUME NEW order \in OrderRow, NEW after \in OrderRow, NEW held \in Reservation,
         after.reservations = Append(order.reservations, held),
         NEW l
  PROVE  /\ l = held.line =>
              /\ LineTotal(after, l) = LineTotal(order, l) + held.quantity
              /\ LineReservations(after, l) =
                   LineReservations(order, l) \cup {Len(order.reservations) + 1}
         /\ l # held.line =>
              /\ LineReservations(after, l) = LineReservations(order, l)
              /\ LineTotal(after, l) = LineTotal(order, l)
  <1> DEFINE k == Len(order.reservations) + 1
             S == LineReservations(order, l)
             f == [j \in S \cup {k} |-> after.reservations[j].quantity]
  <1>1. /\ order.reservations \in Seq(Reservation)
        /\ after.reservations \in Seq(Reservation)
        /\ \A j \in DOMAIN after.reservations :
             after.reservations[j] \in Reservation
    BY OrderParts
  <1>2. /\ Len(order.reservations) \in Nat
        /\ DOMAIN order.reservations = 1 .. Len(order.reservations)
        /\ DOMAIN after.reservations = 1 .. k
        /\ after.reservations[k] = held
        /\ \A j \in DOMAIN order.reservations :
             after.reservations[j] = order.reservations[j]
    BY <1>1, LenProperties, AppendProperties
  <1>3. IsFiniteSet(S) /\ LineTotal(order, l) \in Int
    BY LineTotalType
  <1>4. k \notin S /\ k \in Nat /\ k \in DOMAIN after.reservations
    BY <1>2 DEF LineReservations
  <1>5. DOMAIN after.reservations = DOMAIN order.reservations \cup {k}
    BY <1>2
  <1>6. /\ l = held.line => LineReservations(after, l) = S \cup {k}
        /\ l # held.line => LineReservations(after, l) = S
    BY <1>2, <1>4, <1>5 DEF LineReservations
  <1>7. \A j \in S : /\ f[j] = order.reservations[j].quantity
                     /\ f[j] = after.reservations[j].quantity
                     /\ j \in DOMAIN after.reservations
    BY <1>2, <1>5 DEF LineReservations
  <1>8. f[k] = held.quantity /\ f[k] = after.reservations[k].quantity
    BY <1>2
  <1>9. \A j \in S \cup {k} : f[j] \in Int
    <2>1. \A j \in DOMAIN after.reservations : after.reservations[j].quantity \in Int
      BY <1>1 DEF Reservation
    <2>2. \A j \in S \cup {k} : /\ j \in DOMAIN after.reservations
                               /\ f[j] = after.reservations[j].quantity
      BY <1>4, <1>7
    <2> HIDE DEF f, S, k
    <2> QED
      BY <2>1, <2>2
  <1> HIDE DEF f, S, k
  <1>10. IsFiniteSet(S \cup {k})
    BY <1>3, FS_AddElement
  <1>11. /\ QuantityOf(order, S) = SumOf(f, S)
         /\ QuantityOf(after, S) = SumOf(f, S)
         /\ QuantityOf(after, S \cup {k}) = SumOf(f, S \cup {k})
    BY <1>3, <1>7, <1>8, <1>10, QuantityOfIs
  <1>12. SumOf(f, S \cup {k}) = f[k] + SumOf(f, S)
    BY <1>3, <1>4, <1>9, SumOfAdd
  <1>13. held.quantity \in Int
    BY DEF Reservation
  <1>14. LineTotal(order, l) = SumOf(f, S)
    BY <1>11 DEF LineTotal, S
  <1>15. l = held.line => LineTotal(after, l) = SumOf(f, S \cup {k})
    BY <1>6, <1>11 DEF LineTotal
  <1>16. l # held.line => LineTotal(after, l) = SumOf(f, S)
    BY <1>6, <1>11 DEF LineTotal
  <1> QED
    BY <1>3, <1>6, <1>8, <1>12, <1>13, <1>14, <1>15, <1>16 DEF k, S

-----------------------------------------------------------------------------
(* The life of an order, statement by statement.                           *)

\* When all reservations have one status, they are those of that status.
LEMMA TotalsByStatus ==
  ASSUME NEW order \in OrderRow, NEW l, NEW status, NEW other,
         AllAre(order, status)
  PROVE  QuantityOf(order, ReservationsOfLine(order, l, other)) =
           IF other = status THEN LineTotal(order, l) ELSE 0
  <1>1. CASE other = status
    <2>1. ReservationsOfLine(order, l, other) = LineReservations(order, l)
      BY <1>1 DEF AllAre, ReservationsOfLine, LineReservations
    <2> QED
      BY <1>1, <2>1 DEF LineTotal
  <1>2. CASE other # status
    <2>1. ReservationsOfLine(order, l, other) = {}
      BY <1>2 DEF AllAre, ReservationsOfLine
    <2>2. PICK f : f = [k \in {} |-> 0]
      OBVIOUS
    <2>3. QuantityOf(order, {}) = SumOf(f, {})
      BY FS_EmptySet, QuantityOfIs
    <2>4. SumOf(f, {}) = 0
      BY FS_EmptySet, SumOfStep
    <2> QED
      BY <1>2, <2>1, <2>3, <2>4
  <1> QED
    BY <1>1, <1>2

\* What a settled order says of a line.
LEMMA SettledIsAllOrNone ==
  ASSUME NEW order \in OrderRow, Settled(order), NEW l \in DOMAIN order.lines
  PROVE  LET line == order.lines[l]
             Held(status) ==
               QuantityOf(order, ReservationsOfLine(order, l, status))
         IN  /\ line.reservedQty = Held("ACTIVE")
             /\ Held("ACTIVE") = IF order.status = "RESERVED"
                                 THEN line.quantity ELSE 0
             /\ Held("CONSUMED") = IF order.status = "FULFILLED"
                                   THEN line.quantity ELSE 0
             /\ order.status \in {"DRAFT", "RESERVED", "FULFILLED"}
                  => Held("RELEASED") = 0
  <1>1. order.status \in OrderStatus
    BY DEF OrderRow
  <1>2. CASE order.status = "DRAFT"
    <2>1. AllAre(order, "ACTIVE") /\ LineReservations(order, l) = {}
      BY <1>2 DEF Settled, AllAre, LineReservations
    <2>2. LineTotal(order, l) = 0
      BY <2>1, LineTotalType
    <2> QED
      BY <1>2, <2>1, <2>2, TotalsByStatus DEF Settled
  <1>3. CASE order.status = "RESERVED"
    BY <1>3, TotalsByStatus DEF Settled, Filled
  <1>4. CASE order.status = "FULFILLED"
    BY <1>4, TotalsByStatus DEF Settled, Filled
  <1>5. CASE order.status = "CANCELLED"
    BY <1>5, TotalsByStatus DEF Settled
  <1> QED
    BY <1>1, <1>2, <1>3, <1>4, <1>5 DEF OrderStatus

\* A new order is settled, and it can be filled from any of its lines on.
LEMMA DraftIsReady ==
  ASSUME NEW order \in OrderRow, Settled(order), order.status = "DRAFT",
         NEW l \in DOMAIN order.lines, NEW remaining
  PROVE  BeingFilled(order, l, "find", remaining)
  BY DEF Settled, BeingFilled, AllAre, Untouched, LineReservations

\* An order that still wants something is a DRAFT, with nothing reserved.
LEMMA OutstandingIsDraft ==
  ASSUME NEW order \in OrderRow, Settled(order), NEW l \in Outstanding(order),
         order.status \notin {"CANCELLED", "FULFILLED"}
  PROVE  order.status = "DRAFT" /\ l \in DOMAIN order.lines
  <1>1. l \in DOMAIN order.lines /\ order.lines[l] \in OrderLine
    BY OrderParts DEF Outstanding
  <1>2. order.lines[l].reservedQty < order.lines[l].quantity
    BY DEF Outstanding
  <1>3. order.status # "RESERVED"
    BY <1>1, <1>2 DEF Settled, OrderLine
  <1> QED
    BY <1>1, <1>3 DEF OrderRow, OrderStatus

\* The loop over the candidates starts with all that the line asks for.
LEMMA LoopStarts ==
  ASSUME NEW order \in OrderRow, NEW l \in DOMAIN order.lines, NEW remaining,
         BeingFilled(order, l, "find", remaining)
  PROVE  BeingFilled(order, l, "take",
                     order.lines[l].quantity - order.lines[l].reservedQty)
  <1>1. order.lines[l] \in OrderLine
    BY OrderParts
  <1>2. Untouched(order, l) /\ order.lines[l].reservedQty = 0
    BY DEF BeingFilled
  <1>3. LineTotal(order, l) = 0
    BY <1>2, LineTotalType DEF Untouched
  <1> QED
    BY <1>1, <1>2, <1>3 DEF BeingFilled, OrderLine

\* Each turn of it leaves the rest.
LEMMA LoopTurns ==
  ASSUME NEW order \in OrderRow, NEW after \in OrderRow, NEW l \in DOMAIN order.lines,
         NEW remaining, BeingFilled(order, l, "take", remaining),
         NEW held \in Reservation, held.line = l, held.status = "ACTIVE",
         held.quantity <= remaining,
         after.reservations = Append(order.reservations, held),
         after.lines = order.lines, after.status = order.status
  PROVE  BeingFilled(after, l, "take", remaining - held.quantity)
  <1>1. remaining \in Nat /\ held.quantity \in Nat
        /\ LineTotal(order, l) + remaining = order.lines[l].quantity
        /\ LineTotal(order, l) \in Int
    BY LineTotalType DEF BeingFilled, Reservation
  <1>2. LineTotal(after, l) = LineTotal(order, l) + held.quantity
    BY LineTotalAfterAppend
  <1>3. ASSUME NEW m \in DOMAIN order.lines, m # l
        PROVE  /\ LineReservations(after, m) = LineReservations(order, m)
               /\ LineTotal(after, m) = LineTotal(order, m)
    BY <1>3, LineTotalAfterAppend
  <1>4. AllAre(after, "ACTIVE")
    <2>1. order.reservations \in Seq(Reservation)
      BY OrderParts
    <2>2. /\ DOMAIN order.reservations = 1 .. Len(order.reservations)
          /\ Len(order.reservations) \in Nat
          /\ DOMAIN after.reservations = 1 .. Len(order.reservations) + 1
          /\ after.reservations[Len(order.reservations) + 1] = held
          /\ \A k \in DOMAIN order.reservations :
               after.reservations[k] = order.reservations[k]
      BY <2>1, LenProperties, AppendProperties
    <2>3. \A k \in DOMAIN after.reservations :
            k \in DOMAIN order.reservations \/ k = Len(order.reservations) + 1
      BY <2>2
    <2> QED
      BY <2>2, <2>3 DEF AllAre, BeingFilled
  <1>5. /\ remaining - held.quantity \in Nat
        /\ LineTotal(after, l) + (remaining - held.quantity) = after.lines[l].quantity
    BY <1>1, <1>2
  <1> QED
    BY <1>3, <1>4, <1>5 DEF BeingFilled, Filled, Untouched

\* The row after the end of the loop: the line is filled.
LEMMA LineIsFilled ==
  ASSUME NEW order \in OrderRow, NEW l \in DOMAIN order.lines, NEW remaining,
         BeingFilled(order, l, "take", remaining), remaining <= 0,
         NEW after, after = [order EXCEPT !.lines[l].reservedQty =
                               @ + (order.lines[l].quantity - @)]
  PROVE  /\ after \in OrderRow
         /\ after.status = "DRAFT" /\ AllAre(after, "ACTIVE")
         /\ DOMAIN after.lines = DOMAIN order.lines
         /\ \A m \in DOMAIN order.lines :
              \/ /\ Filled(after, m)
                 /\ after.lines[m].reservedQty = after.lines[m].quantity
              \/ Untouched(after, m)
  <1>1. order.lines[l] \in OrderLine
    BY OrderParts
  <1>2. PICK q \in Int : q = order.lines[l].quantity
    BY <1>1 DEF OrderLine
  <1>3. order.lines[l].reservedQty + (q - order.lines[l].reservedQty) = q
    BY <1>1, <1>2 DEF OrderLine
  <1>4. after = [order EXCEPT !.lines[l].reservedQty = q]
    BY <1>2, <1>3
  <1>5. /\ after \in OrderRow
        /\ after.reservations = order.reservations
        /\ after.status = order.status
        /\ DOMAIN after.lines = DOMAIN order.lines
    BY <1>2, <1>4, LineUpdated
  <1>6. /\ \A m \in DOMAIN order.lines \ {l} : after.lines[m] = order.lines[m]
        /\ after.lines[l].reservedQty = q /\ after.lines[l].quantity = q
    <2>1. PICK lines : lines = [order.lines EXCEPT ![l].reservedQty = q]
      OBVIOUS
    <2>2. after.lines = lines
      BY <1>4, <2>1 DEF OrderRow
    <2>3. lines[l] = [order.lines[l] EXCEPT !.reservedQty = q]
      BY <2>1
    <2> QED
      BY <1>1, <1>2, <2>1, <2>2, <2>3 DEF OrderLine
  <1>7. \A m \in DOMAIN order.lines :
          /\ LineReservations(after, m) = LineReservations(order, m)
          /\ LineTotal(after, m) = LineTotal(order, m)
    BY <1>5, SameLineTotal
  <1>8. LineTotal(order, l) = q
    BY <1>2, LineTotalType DEF BeingFilled
  <1>9. Filled(after, l)
    BY <1>6, <1>7, <1>8 DEF Filled
  <1>10. ASSUME NEW m \in DOMAIN order.lines \ {l}
         PROVE  \/ /\ Filled(after, m)
                   /\ after.lines[m].reservedQty = after.lines[m].quantity
                \/ Untouched(after, m)
    <2>1. \/ /\ Filled(order, m)
             /\ order.lines[m].reservedQty = order.lines[m].quantity
          \/ Untouched(order, m)
      BY DEF BeingFilled
    <2> QED
      BY <1>6, <1>7, <2>1 DEF Filled, Untouched
  <1>11. AllAre(after, "ACTIVE") /\ after.status = "DRAFT"
    BY <1>5 DEF BeingFilled, AllAre
  <1> QED
    BY <1>5, <1>6, <1>9, <1>10, <1>11

\* The next line that still wants something.
LEMMA NextLineStarts ==
  ASSUME NEW order \in OrderRow, order.status = "DRAFT", AllAre(order, "ACTIVE"),
         \A m \in DOMAIN order.lines :
           \/ Filled(order, m) /\ order.lines[m].reservedQty = order.lines[m].quantity
           \/ Untouched(order, m),
         NEW l \in Outstanding(order), NEW remaining
  PROVE  BeingFilled(order, l, "find", remaining)
  <1>1. l \in DOMAIN order.lines /\ order.lines[l] \in OrderLine
    BY OrderParts DEF Outstanding
  <1>2. order.lines[l].reservedQty < order.lines[l].quantity
    BY DEF Outstanding
  <1>3. Untouched(order, l)
    BY <1>1, <1>2 DEF OrderLine
  <1> QED
    BY <1>3 DEF BeingFilled, Untouched

\* When no line wants anything any more, the order is filled.
LEMMA AllLinesFilled ==
  ASSUME NEW order \in OrderRow, AllAre(order, "ACTIVE"),
         \A m \in DOMAIN order.lines :
           \/ Filled(order, m) /\ order.lines[m].reservedQty = order.lines[m].quantity
           \/ Untouched(order, m),
         Outstanding(order) = {},
         NEW after, after = [order EXCEPT !.status = "RESERVED"]
  PROVE  Settled(after)
  <1>1. /\ after \in OrderRow /\ after.status = "RESERVED"
        /\ after.lines = order.lines /\ after.reservations = order.reservations
    BY DEF OrderRow, OrderStatus
  <1>2. ASSUME NEW m \in DOMAIN order.lines
        PROVE  Filled(order, m) /\ order.lines[m].reservedQty = order.lines[m].quantity
    <2>1. order.lines[m] \in OrderLine
      BY OrderParts
    <2>2. ~ (order.lines[m].reservedQty < order.lines[m].quantity)
      BY DEF Outstanding
    <2>3. ~ Untouched(order, m)
      BY <2>1, <2>2 DEF Untouched, OrderLine
    <2> QED
      BY <2>3
  <1>3. \A m \in DOMAIN order.lines : LineTotal(after, m) = LineTotal(order, m)
    BY <1>1, SameLineTotal
  <1> QED
    BY <1>1, <1>2, <1>3 DEF Settled, Filled, AllAre

\* A settled order that is not final can be cancelled, and one that is filled
\* can be shipped.
LEMMA ClosingStarts ==
  ASSUME NEW order \in OrderRow, Settled(order),
         order.status \notin {"CANCELLED", "FULFILLED"},
         NEW op, op = "fulfil" => order.status = "RESERVED", NEW outcome
  PROVE  BeingClosed(order, op, outcome)
  <1>1. order.status \in {"DRAFT", "RESERVED"}
    BY DEF OrderRow, OrderStatus
  <1>2. AllAre(order, "ACTIVE")
    BY <1>1 DEF Settled, AllAre
  <1>3. order.status = "RESERVED" => \A l \in DOMAIN order.lines : Filled(order, l)
    BY DEF Settled
  <1> QED
    BY <1>2, <1>3 DEF BeingClosed, AllAre

\* One reservation after the other is closed.
LEMMA ClosingGoesOn ==
  ASSUME NEW order \in OrderRow, NEW after \in OrderRow, NEW op, NEW outcome,
         BeingClosed(order, op, outcome), NEW k \in DOMAIN order.reservations,
         after.lines = order.lines,
         DOMAIN after.reservations = DOMAIN order.reservations,
         \A j \in DOMAIN order.reservations :
           after.reservations[j] =
             IF j = k THEN [order.reservations[k] EXCEPT !.status = outcome]
                      ELSE order.reservations[j]
  PROVE  BeingClosed(after, op, outcome)
  <1>1. order.reservations[k] \in Reservation
    BY OrderParts
  <1>2. /\ after.reservations[k].status = outcome
        /\ after.reservations[k].line = order.reservations[k].line
        /\ after.reservations[k].quantity = order.reservations[k].quantity
    BY <1>1 DEF Reservation
  <1>3. \A j \in DOMAIN order.reservations :
          /\ after.reservations[j].line = order.reservations[j].line
          /\ after.reservations[j].quantity = order.reservations[j].quantity
          /\ after.reservations[j].status \in {outcome, order.reservations[j].status}
    BY <1>2
  <1>4. \A l \in DOMAIN order.lines : LineTotal(after, l) = LineTotal(order, l)
    BY <1>3, SameLineTotal
  <1> QED
    BY <1>3, <1>4 DEF BeingClosed, Filled

\* When none is active any more, the order is closed.
LEMMA ClosingEnds ==
  ASSUME NEW order \in OrderRow, NEW op, NEW outcome, NEW status \in OrderStatus,
         BeingClosed(order, op, outcome), ActiveReservations(order) = {},
         \/ op = "fulfil" /\ outcome = "CONSUMED" /\ status = "FULFILLED"
         \/ outcome = "RELEASED" /\ status = "CANCELLED"
  PROVE  Settled(Closed(order, status))
  <1>1. PICK after : after = Closed(order, status)
    OBVIOUS
  <1>2. /\ after \in OrderRow /\ after.reservations = order.reservations
        /\ after.status = status
    BY <1>1, ClosedOrder
  <1>3. AllAre(after, outcome)
    BY <1>2 DEF BeingClosed, ActiveReservations, AllAre
  <1>4. /\ DOMAIN after.lines = DOMAIN order.lines
        /\ \A l \in DOMAIN order.lines :
             /\ after.lines[l].reservedQty = 0
             /\ after.lines[l].quantity = order.lines[l].quantity
    <2>1. after.lines = [l \in DOMAIN order.lines |->
                           [order.lines[l] EXCEPT !.reservedQty = 0]]
      BY <1>1 DEF Closed, OrderRow
    <2>2. ASSUME NEW l \in DOMAIN order.lines
          PROVE  /\ after.lines[l].reservedQty = 0
                 /\ after.lines[l].quantity = order.lines[l].quantity
      <3>1. order.lines[l] \in OrderLine
        BY OrderParts
      <3>2. after.lines[l] = [order.lines[l] EXCEPT !.reservedQty = 0]
        BY <2>1
      <3> QED
        BY <3>1, <3>2 DEF OrderLine
    <2> QED
      BY <2>1, <2>2
  <1>5. \A l \in DOMAIN order.lines : LineTotal(after, l) = LineTotal(order, l)
    BY <1>2, SameLineTotal
  <1> QED
    BY <1>1, <1>2, <1>3, <1>4, <1>5 DEF Settled, BeingClosed, Filled

-----------------------------------------------------------------------------
(* The transactions.                                                       *)

\* The inductive invariant of filling.
FillInv == ProtocolInv /\ FillOK

\* There are no orders at the start.
LEMMA InitFill == Init => FillInv
  <1> SUFFICES ASSUME Init PROVE FillInv
    OBVIOUS
  <1> USE StockAssumption, OrdersAssumption
  <1>1. \A o \in Order : o \in Row /\ o \notin Bucket
    BY DEF Row
  <1>2. \A o \in Order : committed[o] = Absent /\ holder[o] = None
    BY <1>1 DEF Init
  <1>3. \A t \in Txn : IsIdle(t)
    BY DEF Init, IsIdle, Idle
  <1> QED
    BY <1>2, <1>3, InitProtocol DEF FillInv, FillOK, OwnOrderOnly

\* A statement of t about the order o leaves the others what they have in hand.
LEMMA StatementFills ==
  ASSUME FillInv, NEW t \in Txn, NEW o \in Order, committed' = committed,
         CanLock(t, o), holder'[o] = t,
         \A p \in Order \ {o} : working'[p] = working[p] /\ holder'[p] = holder[p],
         IsIdle(t) \/ tx[t].doc = o, tx'[t].doc = o,
         \A u \in Txn \ {t} : tx'[u] = tx[u],
         InHand(t)'
  PROVE  FillOK'
  <1>1. ProtocolInv /\ FillOK
    BY DEF FillInv
  <1>2. \A p \in Order : p \in Row
    BY OrdersAssumption DEF Row
  <1>3. OwnOrderOnly'
    <2> SUFFICES ASSUME NEW p \in Order, holder'[p] # None
                 PROVE  tx'[holder'[p]].doc = p
      BY DEF OwnOrderOnly
    <2>1. CASE p = o
      BY <2>1
    <2>2. CASE p # o
      <3>1. holder'[p] = holder[p] /\ tx[holder[p]].doc = p
        BY <1>1, <2>2 DEF FillOK, OwnOrderOnly
      <3>2. ~ IsIdle(holder[p]) /\ holder[p] \in Txn
        BY <1>1, <1>2, <3>1
           DEF ProtocolInv, LocksOK, OrdersTypeOK, StockTypeOK
      <3>3. holder[p] # t
        BY <2>2, <3>1, <3>2
      <3> QED
        BY <3>1, <3>2, <3>3
    <2> QED
      BY <2>1, <2>2
  <1>4. ASSUME NEW u \in Txn, u # t, ~ IsIdle(u)'
        PROVE  InHand(u)'
    <2>1. tx'[u] = tx[u] /\ ~ IsIdle(u)
      BY <1>4 DEF IsIdle
    <2>2. PICK p \in Order : p = tx[u].doc
      BY <1>1, <2>1, OwnOrder
    <2>3. holder[p] = u
      BY <1>1, <2>1, <2>2, OwnOrder
    <2>4. p # o
      BY <1>4, <2>3, StockAssumption DEF CanLock
    <2>5. working'[p] = working[p] /\ tx'[u].doc = p
      BY <2>1, <2>2, <2>4
    <2>6. InHand(u)
      BY <1>1, <2>1 DEF FillOK
    <2> QED
      BY <2>1, <2>2, <2>5, <2>6 DEF InHand, Outcome
  <1>5. \A p \in Order : committed'[p] # Absent => Settled(committed'[p])
    BY <1>1 DEF FillOK
  <1> QED
    BY <1>3, <1>4, <1>5 DEF FillOK

\* A transaction that proceeds has exactly what it is told in its record.
LEMMA ProceedsWith ==
  ASSUME StockTypeOK, NEW t \in Txn, NEW op, NEW step, NEW doc, NEW line,
         Proceed(t, op, step, doc, line)
  PROVE  /\ tx'[t].op = op /\ tx'[t].step = step /\ tx'[t].doc = doc
         /\ tx'[t].line = line
         /\ \A u \in Txn \ {t} : tx'[u] = tx[u]
  BY DEF Proceed, Idle, StockTypeOK

\* POST /orders: the new order is settled, and ready to be filled.
LEMMA CreateFills ==
  ASSUME FillInv, ProtocolInv', NEW t \in Txn, NEW o \in Order,
         NEW form \in OrderForms, NEW now \in BOOLEAN, CreateOrder(t, o, form, now)
  PROVE  FillOK'
  <1>1. StockTypeOK /\ o \in Row /\ \A p \in Order : p \in Row
    BY OrdersAssumption DEF FillInv, ProtocolInv, OrdersTypeOK, Row
  <1>2. PICK order :
          order = [status |-> "DRAFT",
                   lines |-> [l \in DOMAIN form |->
                                [item |-> form[l].item, location |-> form[l].location,
                                 quantity |-> form[l].quantity, reservedQty |-> 0]],
                   reservations |-> <<>>]
    OBVIOUS
  <1>3. InsertDocument(t, o, order)
    BY <1>2 DEF CreateOrder
  <1>4. /\ IsIdle(t) /\ CanLock(t, o) /\ UNCHANGED committed
        /\ holder' = [holder EXCEPT ![o] = t]
        /\ working' = [working EXCEPT ![o] = order]
    BY <1>3 DEF InsertDocument
  <1>5. /\ holder'[o] = t /\ working'[o] = order
        /\ \A p \in Order \ {o} : working'[p] = working[p] /\ holder'[p] = holder[p]
    BY <1>1, <1>4 DEF StockTypeOK
  <1>6. order \in OrderRow
    <2>1. order # Absent
      <3>1. PICK op, step, line : Proceed(t, op, step, o, line)
        BY DEF CreateOrder
      <3>2. tx'[t].doc = o /\ tx'[t].step \in {"find", "commit"}
        BY <1>1, ProceedsWith DEF CreateOrder
      <3>3. ~ IsIdle(t)'
        BY <3>2 DEF IsIdle
      <3> QED
        BY <1>5, <3>2, <3>3 DEF ProtocolInv, ControlOK
    <2> QED
      BY <1>5, <2>1 DEF ProtocolInv, OrdersTypeOK
  <1>7. Settled(order) /\ order.status = "DRAFT"
    <2>1. /\ order.status = "DRAFT" /\ DOMAIN order.reservations = {}
          /\ \A l \in DOMAIN order.lines : order.lines[l].reservedQty = 0
      BY <1>2
    <2> QED
      BY <2>1 DEF Settled
  <1>8. InHand(t)'
    <2>1. CASE now
      <3>1. Proceed(t, "reserve", "find", o, 1)
        BY <2>1 DEF CreateOrder
      <3>2. /\ tx'[t].op = "reserve" /\ tx'[t].step = "find" /\ tx'[t].doc = o
            /\ tx'[t].line = 1
        BY <1>1, <3>1, ProceedsWith
      <3>3. 1 \in DOMAIN order.lines
        <4>1. ~ IsIdle(t)'
          BY <3>2 DEF IsIdle
        <4> QED
          BY <1>5, <3>2, <4>1 DEF ProtocolInv, ControlOK
      <3>4. BeingFilled(order, 1, "find", tx'[t].remaining)
        BY <1>6, <1>7, <3>3, DraftIsReady
      <3> QED
        BY <1>5, <3>2, <3>4 DEF InHand
    <2>2. CASE ~ now
      <3>1. Proceed(t, "create", "commit", o, 0)
        BY <2>2 DEF CreateOrder
      <3>2. tx'[t].step = "commit" /\ tx'[t].doc = o
        BY <1>1, <3>1, ProceedsWith
      <3> QED
        BY <1>5, <1>7, <3>2 DEF InHand
    <2> QED
      BY <2>1, <2>2
  <1>9. tx'[t].doc = o /\ \A u \in Txn \ {t} : tx'[u] = tx[u]
    BY <1>1, ProceedsWith DEF CreateOrder
  <1> QED
    BY <1>4, <1>5, <1>8, <1>9, StatementFills

\* A request about an order that is there begins with a settled one.
LEMMA BeginFills ==
  ASSUME FillInv, NEW t \in Txn, NEW o \in Order, LockDocument(t, o),
         NEW op, NEW step, NEW line, Proceed(t, op, step, o, line),
         step \in {"find", "release"},
         step = "find" => BeingFilled(committed[o], line, "find", tx'[t].remaining),
         step = "release" =>
           BeingClosed(committed[o], op,
                       IF op = "fulfil" THEN "CONSUMED" ELSE "RELEASED")
  PROVE  FillOK'
  <1>1. StockTypeOK /\ o \in Row /\ \A p \in Order : p \in Row
    BY OrdersAssumption DEF FillInv, ProtocolInv, OrdersTypeOK, Row
  <1>2. /\ IsIdle(t) /\ CanLock(t, o) /\ UNCHANGED <<committed, working>>
        /\ holder' = [holder EXCEPT ![o] = t]
    BY DEF LockDocument
  <1>3. /\ holder'[o] = t
        /\ \A p \in Order \ {o} : working'[p] = working[p] /\ holder'[p] = holder[p]
    BY <1>1, <1>2 DEF StockTypeOK
  <1>4. working'[o] = committed[o]
    BY <1>1, <1>2, StockAssumption
       DEF CanLock, FillInv, ProtocolInv, LocksOK
  <1>5. /\ tx'[t].op = op /\ tx'[t].step = step /\ tx'[t].doc = o
        /\ tx'[t].line = line
        /\ \A u \in Txn \ {t} : tx'[u] = tx[u]
    BY <1>1, ProceedsWith
  <1>6. InHand(t)'
    BY <1>4, <1>5 DEF InHand, Outcome
  <1> QED
    BY <1>2, <1>3, <1>5, <1>6, StatementFills

\* The statement that begins a request.
LEMMA RequestFills ==
  ASSUME FillInv, ProtocolInv', NEW t \in Txn, OrderRequest(t)
  PROVE  FillOK'
  <1>1. ASSUME NEW o \in Order, LockDocument(t, o)
        PROVE  committed[o] \in OrderRow /\ Settled(committed[o])
    BY <1>1 DEF LockDocument, FillInv, FillOK, ProtocolInv, OrdersTypeOK
  <1>2. ASSUME NEW o \in Order, BeginReserve(t, o)
        PROVE  FillOK'
    <2>1. /\ LockDocument(t, o)
          /\ committed[o].status \notin {"CANCELLED", "FULFILLED"}
          /\ Outstanding(committed[o]) # {}
      BY <1>2 DEF BeginReserve
    <2>2. PICK order \in OrderRow : order = committed[o] /\ Settled(order)
      BY <1>1, <2>1
    <2>3. PICK l : l = Min(Outstanding(order))
      OBVIOUS
    <2>4. DOMAIN order.lines \subseteq Nat
      BY OrderParts, LenProperties
    <2>5. l \in Outstanding(order)
      BY <2>1, <2>2, <2>3, <2>4, MinIsLeast DEF Outstanding
    <2>6. order.status = "DRAFT" /\ l \in DOMAIN order.lines
      BY <2>1, <2>2, <2>5, OutstandingIsDraft
    <2>7. BeingFilled(order, l, "find", tx'[t].remaining)
      BY <2>2, <2>6, DraftIsReady
    <2>8. Proceed(t, "reserve", "find", o, l)
      BY <1>2, <2>2, <2>3 DEF BeginReserve
    <2> QED
      BY <2>1, <2>2, <2>7, <2>8, BeginFills
  <1>3. ASSUME NEW o \in Order, BeginCancel(t, o)
        PROVE  FillOK'
    <2>1. /\ LockDocument(t, o)
          /\ committed[o].status \notin {"CANCELLED", "FULFILLED"}
          /\ Proceed(t, "cancel", "release", o, 0)
      BY <1>3 DEF BeginCancel
    <2>2. BeingClosed(committed[o], "cancel", "RELEASED")
      BY <1>1, <2>1, ClosingStarts
    <2> QED
      BY <2>1, <2>2, BeginFills
  <1>4. ASSUME NEW o \in Order, BeginFulfil(t, o)
        PROVE  FillOK'
    <2>1. /\ LockDocument(t, o)
          /\ committed[o].status = "RESERVED"
          /\ Proceed(t, "fulfil", "release", o, 0)
      BY <1>4 DEF BeginFulfil
    <2>2. BeingClosed(committed[o], "fulfil", "CONSUMED")
      BY <1>1, <2>1, ClosingStarts
    <2> QED
      BY <2>1, <2>2, BeginFills
  <1> QED
    BY <1>2, <1>3, <1>4, CreateFills DEF OrderRequest

\* The unlocked read: the line is still to be taken as a whole.
LEMMA FindFills ==
  ASSUME FillInv, NEW t \in Txn, tx[t].doc \in Order, FindBuckets(t)
  PROVE  FillOK'
  <1>1. PICK o \in Order : o = tx[t].doc
    OBVIOUS
  <1>2. ProtocolInv /\ StockTypeOK /\ ~ IsIdle(t) /\ tx[t].step = "find"
    BY DEF FillInv, ProtocolInv, OrdersTypeOK, FindBuckets, IsIdle
  <1>3. holder[o] = t /\ working[o] \in OrderRow /\ tx[t] \in TxRow
    BY <1>1, <1>2, OwnOrder
  <1>4. PICK l \in DOMAIN working[o].lines : l = tx[t].line
    BY <1>1, <1>2 DEF ProtocolInv, ControlOK
  <1>5. PICK remaining : remaining = working[o].lines[l].quantity
                                       - working[o].lines[l].reservedQty
    OBVIOUS
  <1>6. /\ UNCHANGED <<committed, working, holder>>
        /\ tx'[t].step = "take" /\ tx'[t].remaining = remaining
        /\ tx'[t].doc = o /\ tx'[t].line = l
        /\ \A u \in Txn \ {t} : tx'[u] = tx[u]
    <2>1. PICK todo : tx' = [tx EXCEPT ![t].step = "take",
                                       ![t].remaining = remaining,
                                       ![t].todo = todo]
      BY <1>1, <1>4, <1>5 DEF FindBuckets
    <2>2. UNCHANGED <<committed, working, holder>>
      BY DEF FindBuckets, rows
    <2> QED
      BY <1>1, <1>2, <1>3, <1>4, <2>1, <2>2 DEF StockTypeOK, TxRow
  <1>7. BeingFilled(working[o], l, "find", tx[t].remaining)
    BY <1>1, <1>2, <1>4 DEF FillInv, FillOK, InHand
  <1>8. BeingFilled(working[o], l, "take", remaining)
    BY <1>3, <1>5, <1>7, LoopStarts
  <1>9. InHand(t)'
    BY <1>6, <1>8 DEF InHand
  <1> QED
    BY <1>1, <1>3, <1>6, <1>9, StatementFills DEF CanLock

\* The end of reserveLine: one more line is filled, or all are.
LEMMA FinishLineFills ==
  ASSUME FillInv, NEW t \in Txn, tx[t].doc \in Order, FinishLine(t)
  PROVE  FillOK'
  <1>1. PICK o \in Order : o = tx[t].doc
    OBVIOUS
  <1>2. ProtocolInv /\ StockTypeOK /\ ~ IsIdle(t) /\ tx[t].step = "take"
        /\ tx[t].remaining <= 0
    BY DEF FillInv, ProtocolInv, OrdersTypeOK, FinishLine, IsIdle
  <1>3. holder[o] = t /\ o \in Row
    BY <1>1, <1>2, OwnOrder
  <1>4. PICK order \in OrderRow : order = working[o]
    BY <1>1, <1>2, OwnOrder
  <1>5. PICK l \in DOMAIN order.lines : l = tx[t].line
    BY <1>1, <1>2, <1>4 DEF ProtocolInv, ControlOK
  <1>6. PICK after : after = [order EXCEPT !.lines[l].reservedQty =
                                @ + (order.lines[l].quantity - @)]
    OBVIOUS
  <1>7. BeingFilled(order, l, "take", tx[t].remaining)
    BY <1>1, <1>2, <1>4, <1>5 DEF FillInv, FillOK, InHand
  <1>8. /\ after \in OrderRow
        /\ after.status = "DRAFT" /\ AllAre(after, "ACTIVE")
        /\ \A m \in DOMAIN after.lines :
             \/ /\ Filled(after, m)
                /\ after.lines[m].reservedQty = after.lines[m].quantity
             \/ Untouched(after, m)
    BY <1>2, <1>6, <1>7, LineIsFilled
  <1>9. /\ IF Outstanding(after) # {}
           THEN /\ working' = [working EXCEPT ![o] = after]
                /\ Proceed(t, "reserve", "find", o, Min(Outstanding(after)))
           ELSE /\ working' = [working EXCEPT
                                 ![o] = [after EXCEPT !.status = "RESERVED"]]
                /\ Proceed(t, "reserve", "commit", o, 0)
        /\ UNCHANGED <<committed, holder, ledger, pending>>
    BY <1>1, <1>4, <1>5, <1>6 DEF FinishLine
  <1>10. DOMAIN working = Row /\ \A p \in Order : p \in Row
    BY <1>2, OrdersAssumption DEF StockTypeOK, Row
  <1>11. /\ \A p \in Order \ {o} : working'[p] = working[p]
         /\ tx'[t].doc = o /\ \A u \in Txn \ {t} : tx'[u] = tx[u]
         /\ UNCHANGED <<committed, holder>>
    BY <1>2, <1>9, <1>10, ProceedsWith
  <1>12. InHand(t)'
    <2>1. CASE Outstanding(after) # {}
      <3>1. PICK m : m = Min(Outstanding(after))
        OBVIOUS
      <3>2. DOMAIN after.lines \subseteq Nat
        BY <1>8, OrderParts, LenProperties
      <3>3. m \in Outstanding(after)
        BY <2>1, <3>1, <3>2, MinIsLeast DEF Outstanding
      <3>4. BeingFilled(after, m, "find", tx'[t].remaining)
        BY <1>8, <3>3, NextLineStarts
      <3>5. working'[o] = after
        BY <1>3, <1>9, <1>10, <2>1
      <3>6. tx'[t].step = "find" /\ tx'[t].line = m /\ tx'[t].doc = o
        BY <1>2, <1>9, <2>1, <3>1, ProceedsWith
      <3> QED
        BY <3>4, <3>5, <3>6 DEF InHand
    <2>2. CASE Outstanding(after) = {}
      <3>1. PICK filled : filled = [after EXCEPT !.status = "RESERVED"]
        OBVIOUS
      <3>2. Settled(filled)
        BY <1>8, <2>2, <3>1, AllLinesFilled
      <3>3. working'[o] = filled
        BY <1>3, <1>9, <1>10, <2>2, <3>1
      <3>4. tx'[t].step = "commit" /\ tx'[t].doc = o
        BY <1>2, <1>9, <2>2, ProceedsWith
      <3> QED
        BY <3>2, <3>3, <3>4 DEF InHand
    <2> QED
      BY <2>1, <2>2
  <1> QED
    BY <1>1, <1>3, <1>11, <1>12, StatementFills DEF CanLock

\* The end of cancel and fulfil: the order is closed.
LEMMA FinishReleaseFills ==
  ASSUME FillInv, NEW t \in Txn, tx[t].doc \in Order, FinishRelease(t)
  PROVE  FillOK'
  <1>1. PICK o \in Order : o = tx[t].doc
    OBVIOUS
  <1>2. ProtocolInv /\ StockTypeOK /\ ~ IsIdle(t) /\ tx[t].step = "release"
    BY DEF FillInv, ProtocolInv, OrdersTypeOK, FinishRelease, IsIdle
  <1>3. holder[o] = t /\ o \in Row /\ working[o] \in OrderRow
    BY <1>1, <1>2, OwnOrder
  <1>4. PICK status \in OrderStatus :
          status = IF tx[t].op = "fulfil" THEN "FULFILLED" ELSE "CANCELLED"
    BY DEF OrderStatus
  <1>5. PICK closed : closed = Closed(working[o], status)
    OBVIOUS
  <1>6. /\ ActiveReservations(working[o]) = {}
        /\ working' = [working EXCEPT ![o] = closed]
        /\ Proceed(t, tx[t].op, "commit", o, 0)
        /\ UNCHANGED <<committed, holder>>
    BY <1>1, <1>4, <1>5 DEF FinishRelease
  <1>7. BeingClosed(working[o], tx[t].op, Outcome(t))
    BY <1>1, <1>2 DEF FillInv, FillOK, InHand
  <1>8. Settled(closed)
    BY <1>3, <1>4, <1>5, <1>6, <1>7, ClosingEnds DEF Outcome
  <1>9. DOMAIN working = Row /\ \A p \in Order : p \in Row
    BY <1>2, OrdersAssumption DEF StockTypeOK, Row
  <1>10. /\ working'[o] = closed
         /\ \A p \in Order \ {o} : working'[p] = working[p]
    BY <1>3, <1>6, <1>9
  <1>11. /\ tx'[t].step = "commit" /\ tx'[t].doc = o
         /\ \A u \in Txn \ {t} : tx'[u] = tx[u]
    BY <1>2, <1>6, ProceedsWith
  <1>12. InHand(t)'
    BY <1>8, <1>10, <1>11 DEF InHand
  <1> QED
    BY <1>1, <1>3, <1>6, <1>10, <1>11, <1>12, StatementFills DEF CanLock

\* TakeBucket: what is taken is what the line still wants, or less.
LEMMA TakeFills ==
  ASSUME FillInv, NEW t \in Txn, tx[t].doc \in Order, TakeBucket(t)
  PROVE  FillOK'
  <1> USE StockAssumption, OrdersAssumption
  <1>1. ProtocolInv /\ StockTypeOK
    BY DEF FillInv, ProtocolInv, OrdersTypeOK
  <1>2. PICK o \in Order, b \in Bucket : TakesFrom(t, o, b)
    BY <1>1, TakeFacts
  <1>3. /\ o = tx[t].doc /\ ~ IsIdle(t) /\ tx[t].step = "take"
        /\ tx[t].line \in DOMAIN working[o].lines
        /\ working[b] \in BucketRow /\ b \in Row
        /\ holder' = [holder EXCEPT ![b] = t]
        /\ UNCHANGED committed
        /\ \/ SkipsBucket(t, b)
           \/ \E take \in Nat \ {0} : HoldsUnits(t, o, b, take)
    BY <1>2 DEF TakesFrom
  <1>4. holder[o] = t /\ o \in Row /\ working[o] \in OrderRow /\ tx[t] \in TxRow
    BY <1>1, <1>3, OwnOrder
  <1>5. \A p \in Order : p \in Row /\ p # b
    BY DEF Row
  <1>6. \A p \in Order : holder'[p] = holder[p]
    BY <1>1, <1>3, <1>5 DEF StockTypeOK
  <1>7. BeingFilled(working[o], tx[t].line, "take", tx[t].remaining)
    BY <1>3 DEF FillInv, FillOK, InHand
  <1>8. CASE SkipsBucket(t, b)
    <2>1. /\ working' = working
          /\ tx'[t].step = "take" /\ tx'[t].remaining = tx[t].remaining
          /\ tx'[t].doc = o /\ tx'[t].line = tx[t].line
          /\ \A u \in Txn \ {t} : tx'[u] = tx[u]
      BY <1>1, <1>3, <1>4, <1>8 DEF SkipsBucket, StockTypeOK, TxRow
    <2>2. InHand(t)'
      BY <1>7, <2>1 DEF InHand
    <2> QED
      BY <1>3, <1>4, <1>6, <2>1, <2>2, StatementFills DEF CanLock
  <1>9. ASSUME NEW take \in Nat \ {0}, HoldsUnits(t, o, b, take)
        PROVE  FillOK'
    <2>1. PICK held : held = [line |-> tx[t].line, inventoryId |-> b,
                              quantity |-> take, status |-> "ACTIVE"]
      OBVIOUS
    <2>2. /\ tx[t].line \in Nat /\ working[o] \in OrderRow
          /\ working[b] \in BucketRow
      BY <1>3, <1>4 DEF TxRow
    <2>3. /\ held \in Reservation
          /\ working'[o].reservations = Append(working[o].reservations, held)
          /\ working'[o].lines = working[o].lines
          /\ working'[o].status = working[o].status
          /\ working'[o] \in OrderRow
          /\ \A r \in Row \ {b, o} : working'[r] = working[r]
      BY <1>1, <1>9, <2>1, <2>2, HeldRows
    <2>4. /\ tx'[t].step = "take" /\ tx'[t].remaining = tx[t].remaining - take
          /\ tx'[t].doc = o /\ tx'[t].line = tx[t].line
          /\ \A u \in Txn \ {t} : tx'[u] = tx[u]
      BY <1>1, <1>3, <1>4, <1>9 DEF HoldsUnits, StockTypeOK, TxRow
    <2>5. take <= tx[t].remaining
      BY <1>9 DEF HoldsUnits
    <2>6. PICK order \in OrderRow : order = working'[o]
      BY <2>3
    <2>7. held.line = tx[t].line /\ held.status = "ACTIVE" /\ held.quantity = take
      BY <2>1
    <2>8. BeingFilled(order, tx[t].line, "take", tx[t].remaining - take)
      BY <1>3, <1>4, <1>7, <2>3, <2>5, <2>6, <2>7, LoopTurns
    <2>9. InHand(t)'
      BY <2>4, <2>6, <2>8 DEF InHand
    <2>10. \A p \in Order \ {o} : working'[p] = working[p]
      BY <1>5, <2>3
    <2> QED
      BY <1>3, <1>4, <1>6, <2>4, <2>9, <2>10, StatementFills DEF CanLock
  <1> QED
    BY <1>3, <1>8, <1>9

\* ReleaseReservation: one reservation more has the outcome of the request.
LEMMA ReleaseFills ==
  ASSUME FillInv, NEW t \in Txn, tx[t].doc \in Order, ReleaseReservation(t)
  PROVE  FillOK'
  <1> USE StockAssumption, OrdersAssumption
  <1>1. ProtocolInv /\ StockTypeOK
    BY DEF FillInv, ProtocolInv, OrdersTypeOK
  <1>2. PICK o \in Order, b \in Bucket, q \in Nat \ {0}, shipped \in Nat :
          \E k \in DOMAIN working[o].reservations :
            ReleasesUnits(t, o, b, k, q, shipped)
    BY <1>1, ReleaseFacts
  <1>3. PICK k \in DOMAIN working[o].reservations :
          ReleasesUnits(t, o, b, k, q, shipped)
    BY <1>2
  <1>4. /\ o = tx[t].doc /\ ~ IsIdle(t) /\ tx[t].step = "release"
        /\ working[o].reservations[k].inventoryId = b
        /\ holder' = [holder EXCEPT ![b] = t]
        /\ UNCHANGED <<committed, tx>>
    BY <1>3 DEF ReleasesUnits
  <1>5. holder[o] = t /\ o \in Row /\ working[o] \in OrderRow
    BY <1>1, <1>4, OwnOrder
  <1>6. working[b] \in BucketRow
    BY <1>1, <1>4, <1>5, BucketVersions DEF ProtocolInv, BucketsOK
  <1>7. /\ working'[o] \in OrderRow
        /\ working'[o].lines = working[o].lines
        /\ DOMAIN working'[o].reservations = DOMAIN working[o].reservations
        /\ \A j \in DOMAIN working[o].reservations :
             working'[o].reservations[j] =
               IF j = k THEN [working[o].reservations[k] EXCEPT !.status = Outcome(t)]
                        ELSE working[o].reservations[j]
        /\ \A r \in Row \ {b, o} : working'[r] = working[r]
    BY <1>1, <1>3, <1>5, <1>6, ReleasedRows
  <1>8. \A p \in Order : p \in Row /\ p # b
    BY DEF Row
  <1>9. \A p \in Order : holder'[p] = holder[p]
    BY <1>1, <1>4, <1>8 DEF StockTypeOK
  <1>10. BeingClosed(working[o], tx[t].op, Outcome(t))
    BY <1>4 DEF FillInv, FillOK, InHand
  <1>11. PICK order \in OrderRow : order = working'[o]
    BY <1>7
  <1>12. BeingClosed(order, tx[t].op, Outcome(t))
    <2>1. PICK outcome : outcome = Outcome(t)
      OBVIOUS
    <2>2. PICK before \in OrderRow : before = working[o]
      BY <1>5
    <2>3. PICK op : op = tx[t].op
      OBVIOUS
    <2>4. /\ BeingClosed(before, op, outcome)
          /\ k \in DOMAIN before.reservations
          /\ order.lines = before.lines
          /\ DOMAIN order.reservations = DOMAIN before.reservations
          /\ \A j \in DOMAIN before.reservations :
               order.reservations[j] =
                 IF j = k THEN [before.reservations[k] EXCEPT !.status = outcome]
                          ELSE before.reservations[j]
      BY <1>7, <1>10, <1>11, <2>1, <2>2, <2>3
    <2> QED
      BY <2>1, <2>3, <2>4, ClosingGoesOn
  <1>13. InHand(t)'
    BY <1>4, <1>11, <1>12 DEF InHand, Outcome
  <1>14. \A p \in Order \ {o} : working'[p] = working[p]
    BY <1>7, <1>8
  <1> QED
    BY <1>4, <1>5, <1>9, <1>13, <1>14, StatementFills DEF CanLock

\* The end of a transaction: what it commits is settled.
LEMMA EndFills ==
  ASSUME FillInv, NEW t \in Txn,
         (tx[t].doc \in Order /\ OrderCommit(t)) \/ Rollback(t)
  PROVE  FillOK'
  <1> USE StockAssumption
  <1>1. ProtocolInv /\ StockTypeOK /\ FillOK
    BY DEF FillInv, ProtocolInv, OrdersTypeOK
  <1>2. /\ tx'[t] = Idle
        /\ \A u \in Txn \ {t} : tx'[u] = tx[u]
        /\ \A r \in Row : /\ holder'[r] = IF holder[r] = t THEN None ELSE holder[r]
                          /\ holder[r] # t => /\ working'[r] = working[r]
                                              /\ committed'[r] = committed[r]
    BY <1>1 DEF OrderCommit, Commit, Rollback, Finish, StockTypeOK
  <1>3. \A p \in Order : p \in Row
    BY OrdersAssumption DEF Row
  <1>4. OwnOrderOnly'
    <2> SUFFICES ASSUME NEW p \in Order, holder'[p] # None
                 PROVE  tx'[holder'[p]].doc = p
      BY DEF OwnOrderOnly
    <2>1. holder'[p] = holder[p] /\ holder[p] # t /\ holder[p] \in Txn
      BY <1>1, <1>2, <1>3 DEF StockTypeOK
    <2> QED
      BY <1>1, <1>2, <2>1 DEF FillOK, OwnOrderOnly
  <1>5. ASSUME NEW u \in Txn, ~ IsIdle(u)'
        PROVE  InHand(u)'
    <2>1. u # t /\ tx'[u] = tx[u] /\ ~ IsIdle(u)
      BY <1>2, <1>5 DEF IsIdle, Idle
    <2>2. PICK p \in Order : p = tx[u].doc
      BY <1>1, <2>1, OwnOrder
    <2>3. working'[p] = working[p] /\ tx'[u].doc = p
      BY <1>1, <1>2, <1>3, <2>1, <2>2, OwnOrder
    <2>4. InHand(u)
      BY <1>1, <2>1 DEF FillOK
    <2> QED
      BY <2>1, <2>2, <2>3, <2>4 DEF InHand, Outcome
  <1>6. ASSUME NEW p \in Order, committed'[p] # Absent
        PROVE  Settled(committed'[p])
    <2>1. CASE committed'[p] = committed[p]
      BY <1>1, <1>6, <2>1 DEF FillOK
    <2>2. CASE committed'[p] # committed[p]
      <3>1. holder[p] = t /\ OrderCommit(t) /\ committed'[p] = working[p]
        BY <1>2, <1>3, <2>2 DEF OrderCommit, Commit, Rollback
      <3>2. tx[t].doc = p
        BY <1>1, <3>1 DEF FillOK, OwnOrderOnly
      <3>3. tx[t].step = "commit" /\ ~ IsIdle(t)
        BY <3>1 DEF OrderCommit, IsIdle
      <3> QED
        BY <1>1, <3>1, <3>2, <3>3 DEF FillOK, InHand
    <2> QED
      BY <2>1, <2>2
  <1> QED
    BY <1>4, <1>5, <1>6 DEF FillOK

\* Every step of the specification.
LEMMA StepFills ==
  ASSUME FillInv, [OrdersNext]_vars
  PROVE  FillInv'
  <1>1. ProtocolInv'
    BY StepProtocol DEF FillInv
  <1>2. CASE UNCHANGED vars
    BY <1>1, <1>2 DEF vars, FillInv, FillOK, OwnOrderOnly, InHand, Outcome, IsIdle
  <1>3. CASE OrdersNext
    <2>1. PICK t \in Txn : OrderStep(t) \/ OrderDeadlock(t) \/ Lost(t)
      BY <1>3 DEF OrdersNext
    <2>2. CASE OrderRequest(t)
      BY <1>1, <2>2, RequestFills DEF FillInv
    <2>3. CASE tx[t].doc \in Order /\ (FindBuckets(t) \/ FinishLine(t) \/ FinishRelease(t))
      BY <1>1, <2>3, FindFills, FinishLineFills, FinishReleaseFills DEF FillInv
    <2>4. CASE tx[t].doc \in Order /\ (TakeBucket(t) \/ ReleaseReservation(t))
      BY <1>1, <2>4, TakeFills, ReleaseFills DEF FillInv
    <2>5. CASE Rollback(t) \/ (tx[t].doc \in Order /\ OrderCommit(t))
      BY <1>1, <2>5, EndFills DEF FillInv
    <2> QED
      BY <2>1, <2>2, <2>3, <2>4, <2>5, DeadlockRollsBack
         DEF OrderStep, OrderLocalStep, OrderLockStep, RefuseShortage, Lost
  <1> QED
    BY <1>2, <1>3

\* Orders are filled line by line, and an order that is committed is settled.
THEOREM OrdersAreSettled == OrdersSpec => []FillInv
  BY InitFill, StepFills, PTL DEF OrdersSpec

\* All lines or none: every committed order holds all it asked for, has had it
\* shipped, or holds nothing.
THEOREM FilledEntirelyOrNotAtAll == OrdersSpec => []AllLinesOrNone
  <1>1. ASSUME FillInv, NEW o \in Order, committed[o] # Absent
        PROVE  committed[o] \in OrderRow /\ Settled(committed[o])
    BY <1>1 DEF FillInv, FillOK, ProtocolInv, OrdersTypeOK
  <1>2. FillInv => AllLinesOrNone
    BY <1>1, SettledIsAllOrNone DEF AllLinesOrNone
  <1> QED
    BY <1>2, OrdersAreSettled, PTL


-----------------------------------------------------------------------------
(***************************************************************************)
(* First expired, first out.                                               *)
(***************************************************************************)

\* What a line takes from, among the buckets of its item.
ByExpiry(t) ==
    LET order == working[tx[t].doc]
        line == order.lines[tx[t].line]
    IN  \A b \in BucketsOf(line.item, line.location) :
          /\ (holder[b] = t /\ b \notin tx[t].todo /\ tx[t].remaining > 0) =>
               AvailableQty(working[b]) <= 0
          /\ \A k \in LineReservations(order, tx[t].line) :
               FefoRank[b[1]] < FefoRank[order.reservations[k].inventoryId[1]] =>
                 /\ b \notin tx[t].todo
                 /\ holder[b] = t => AvailableQty(working[b]) <= 0

\* So it is in every loop over candidates.
ExpiryOK == \A t \in Txn : tx[t].step = "take" => ByExpiry(t)

\* The inductive invariant of the order of expiry.
ExpiryInv == FillInv /\ ExpiryOK

\* The transactions but t go on where they are, with what they have locked.
KeepsOthers(t) ==
    \A u \in Txn \ {t} :
      /\ tx'[u] = tx[u]
      /\ \A r \in Row : /\ holder'[r] = u <=> holder[r] = u
                        /\ holder[r] = u => working'[r] = working[r]

\* The requests, the ends of the loops, a reservation that is closed, and the end
\* of a transaction lead to another statement.
LEMMA LeavesLoop ==
  ASSUME ProtocolInv, NEW t \in Txn,
         \/ OrderRequest(t)
         \/ tx[t].doc \in Order /\ (FinishLine(t) \/ FinishRelease(t))
         \/ tx[t].doc \in Order /\ ReleaseReservation(t)
         \/ Commit(t) \/ Rollback(t)
  PROVE  KeepsOthers(t) /\ tx'[t].step # "take"
  <1>1. StockTypeOK
    BY DEF ProtocolInv, OrdersTypeOK
  <1>2. CASE \/ OrderRequest(t)
             \/ tx[t].doc \in Order /\ (FinishLine(t) \/ FinishRelease(t))
    <2>1. PICK o \in Order : QuietStatement(t, o)
      BY <1>1, <1>2, RequestQuiet, LocalStepQuiet
    <2>2. KeepsOthers(t)
      BY <2>1, QuietLeaves DEF LeavesOthers, KeepsOthers
    <2>3. PICK op, step, doc, line :
            Proceed(t, op, step, doc, line) /\ step # "take"
      <3>1. ASSUME NEW p \in Order, NEW form \in OrderForms, NEW now \in BOOLEAN,
                   CreateOrder(t, p, form, now)
            PROVE  \/ Proceed(t, "reserve", "find", p, 1)
                   \/ Proceed(t, "create", "commit", p, 0)
        BY <3>1 DEF CreateOrder
      <3>2. ASSUME NEW p \in Order, BeginReserve(t, p)
            PROVE  \E line : Proceed(t, "reserve", "find", p, line)
        BY <3>2 DEF BeginReserve
      <3>3. ASSUME NEW p \in Order, BeginCancel(t, p) \/ BeginFulfil(t, p)
            PROVE  \E op : Proceed(t, op, "release", p, 0)
        BY <3>3 DEF BeginCancel, BeginFulfil
      <3>4. ASSUME FinishLine(t)
            PROVE  \E line : \/ Proceed(t, "reserve", "find", tx[t].doc, line)
                             \/ Proceed(t, "reserve", "commit", tx[t].doc, line)
        BY <3>4, Zenon DEF FinishLine
      <3>5. ASSUME FinishRelease(t)
            PROVE  Proceed(t, tx[t].op, "commit", tx[t].doc, 0)
        BY <3>5 DEF FinishRelease
      <3>6. "find" # "take" /\ "commit" # "take" /\ "release" # "take"
        OBVIOUS
      <3> QED
        BY <1>2, <3>1, <3>2, <3>3, <3>4, <3>5, <3>6 DEF OrderRequest
    <2>4. tx'[t].step # "take"
      BY <1>1, <2>3, ProceedsWith
    <2> QED
      BY <2>2, <2>4
  <1>3. CASE tx[t].doc \in Order /\ ReleaseReservation(t)
    <2>1. LeavesOthers(t)
      BY <1>1, <1>3, ReleaseMoves
    <2>2. tx'[t].step # "take"
      BY <1>3 DEF ReleaseReservation
    <2> QED
      BY <2>1, <2>2 DEF LeavesOthers, KeepsOthers
  <1>4. CASE Commit(t) \/ Rollback(t)
    <2>1. /\ tx'[t] = Idle
          /\ \A u \in Txn \ {t} : tx'[u] = tx[u]
          /\ \A r \in Row :
               /\ holder'[r] = IF holder[r] = t THEN None ELSE holder[r]
               /\ holder[r] # t => working'[r] = working[r]
      BY <1>1, <1>4 DEF Commit, Rollback, Finish, StockTypeOK
    <2>2. \A u \in Txn : u # None
      BY StockAssumption
    <2> QED
      BY <2>1, <2>2 DEF KeepsOthers, Idle
  <1> QED
    BY <1>2, <1>3, <1>4

\* The line and the buckets of a transaction are left as they are by any step
\* that respects its locks.
LEMMA OthersExpire ==
  ASSUME ExpiryInv, NEW t \in Txn, KeepsOthers(t), NEW u \in Txn \ {t},
         tx[u].step = "take"
  PROVE  ByExpiry(u)'
  <1>1. PICK o : o = tx[u].doc
    OBVIOUS
  <1>2. ProtocolInv /\ ~ IsIdle(u) /\ ByExpiry(u)
    BY DEF ExpiryInv, ExpiryOK, FillInv, IsIdle
  <1>3. working'[o] = working[o]
    BY <1>1, <1>2, OwnOrder DEF KeepsOthers
  <1>4. \A item, location : \A b \in BucketsOf(item, location) : b \in Row
    BY DEF BucketsOf, Row
  <1>5. /\ tx'[u] = tx[u]
        /\ \A r \in Row : /\ holder'[r] = u <=> holder[r] = u
                          /\ holder[r] = u => working'[r] = working[r]
    BY DEF KeepsOthers
  <1> QED
    BY <1>1, <1>2, <1>3, <1>4, <1>5 DEF ByExpiry

\* A step that leaves the transactions but t alone, and t out of the loop, or
\* in it as it should be.
LEMMA StatementExpires ==
  ASSUME ExpiryInv, NEW t \in Txn, KeepsOthers(t),
         tx'[t].step = "take" => ByExpiry(t)'
  PROVE  ExpiryOK'
  <1> SUFFICES ASSUME NEW u \in Txn, tx'[u].step = "take" PROVE ByExpiry(u)'
    BY DEF ExpiryOK
  <1> QED
    BY OthersExpire DEF KeepsOthers

\* FindBuckets: the line holds nothing yet, and what the transaction has locked
\* and left out of the candidates is empty.
LEMMA FindExpires ==
  ASSUME ExpiryInv, NEW t \in Txn, tx[t].doc \in Order, FindBuckets(t)
  PROVE  ExpiryOK'
  <1>1. ProtocolInv /\ StockTypeOK /\ ~ IsIdle(t) /\ tx[t].step = "find"
    BY DEF ExpiryInv, FillInv, ProtocolInv, OrdersTypeOK, FindBuckets, IsIdle
  <1>2. KeepsOthers(t)
    BY <1>1, LocalStepQuiet, QuietLeaves DEF LeavesOthers, KeepsOthers
  <1>3. PICK o : o = tx[t].doc
    OBVIOUS
  <1>4. working[o] \in OrderRow /\ tx[t] \in TxRow
    BY <1>1, <1>3, OwnOrder
  <1>5. PICK l \in DOMAIN working[o].lines : l = tx[t].line
    BY <1>1, <1>3 DEF ProtocolInv, ControlOK
  <1>6. PICK line \in OrderLine : line = working[o].lines[l]
    BY <1>4, OrderParts
  <1>7. PICK todo : todo = AvailableBuckets(t, line.item, line.location)
    OBVIOUS
  <1>8. /\ tx'[t].todo = todo /\ tx'[t].doc = o /\ tx'[t].line = l
        /\ UNCHANGED <<working, holder>>
    <2>1. PICK remaining : tx' = [tx EXCEPT ![t].step = "take",
                                            ![t].remaining = remaining,
                                            ![t].todo = todo]
      BY <1>3, <1>5, <1>6, <1>7 DEF FindBuckets
    <2>2. UNCHANGED <<working, holder>>
      BY DEF FindBuckets, rows
    <2> QED
      BY <1>1, <1>3, <1>4, <1>5, <2>1, <2>2 DEF StockTypeOK, TxRow
  <1>9. LineReservations(working[o], l) = {}
    BY <1>1, <1>3, <1>5
       DEF ExpiryInv, FillInv, FillOK, InHand, BeingFilled, Untouched
  <1>10. ASSUME NEW b \in BucketsOf(line.item, line.location),
                holder[b] = t, b \notin todo
         PROVE  AvailableQty(working[b]) <= 0
    <2>1. ~ (AvailableQty(working[b]) > 0)
      BY <1>7, <1>10 DEF AvailableBuckets, View
    <2>2. AvailableQty(working[b]) \in Int
      BY <1>1, StockAssumption
         DEF BucketsOf, StockTypeOK, AvailableQty, Quantities, BucketRow
    <2> QED
      BY <2>1, <2>2
  <1>11. ByExpiry(t)'
    BY <1>6, <1>8, <1>9, <1>10 DEF ByExpiry
  <1> QED
    BY <1>2, <1>11, StatementExpires

\* The reservations of an order after one more has been made.
LEMMA ReservationsAfterAppend ==
  ASSUME NEW order \in OrderRow, NEW after \in OrderRow, NEW held \in Reservation,
         after.reservations = Append(order.reservations, held),
         NEW k \in DOMAIN after.reservations
  PROVE  \/ /\ k \in DOMAIN order.reservations
            /\ after.reservations[k] = order.reservations[k]
         \/ after.reservations[k] = held
  <1>1. order.reservations \in Seq(Reservation)
    BY OrderParts
  <1>2. /\ Len(order.reservations) \in Nat
        /\ DOMAIN order.reservations = 1 .. Len(order.reservations)
        /\ DOMAIN after.reservations = 1 .. Len(order.reservations) + 1
        /\ after.reservations[Len(order.reservations) + 1] = held
        /\ \A j \in DOMAIN order.reservations :
             after.reservations[j] = order.reservations[j]
    BY <1>1, LenProperties, AppendProperties
  <1>3. k \in DOMAIN order.reservations \/ k = Len(order.reservations) + 1
    BY <1>2
  <1> QED
    BY <1>2, <1>3

\* TakeBucket: what is left out of the candidates is empty or not needed, and
\* the one that is taken from expires first of those that are left.
LEMMA TakeExpires ==
  ASSUME ExpiryInv, NEW t \in Txn, tx[t].doc \in Order, TakeBucket(t)
  PROVE  ExpiryOK'
  <1> USE StockAssumption, OrdersAssumption
  <1>1. ProtocolInv /\ StockTypeOK
    BY DEF ExpiryInv, FillInv, ProtocolInv, OrdersTypeOK
  <1>2. KeepsOthers(t)
    BY <1>1, TakeMoves DEF LeavesOthers, KeepsOthers
  <1>3. PICK o \in Order, c \in Bucket : TakesFrom(t, o, c)
    BY <1>1, TakeFacts
  <1>4. /\ o = tx[t].doc /\ ~ IsIdle(t) /\ tx[t].step = "take"
        /\ c = FirstExpiring(tx[t].todo) /\ c \in tx[t].todo /\ c \in Row
        /\ tx[t].line \in DOMAIN working[o].lines
        /\ tx[t].remaining \in Nat \ {0}
        /\ working[c] \in BucketRow
        /\ holder' = [holder EXCEPT ![c] = t]
        /\ \/ SkipsBucket(t, c)
           \/ \E take \in Nat \ {0} : HoldsUnits(t, o, c, take)
    BY <1>3 DEF TakesFrom
  <1>5. holder[o] = t /\ o \in Row /\ working[o] \in OrderRow /\ tx[t] \in TxRow
        /\ o \notin Bucket
    BY <1>1, <1>4, OwnOrder
  <1>6. PICK order \in OrderRow : order = working[o]
    BY <1>5
  <1>7. PICK l \in DOMAIN order.lines : l = tx[t].line /\ l \in Nat
    BY <1>4, <1>5, <1>6 DEF TxRow
  <1>8. PICK line : line = order.lines[l]
    OBVIOUS
  <1>9. PICK todo \in SUBSET Bucket : todo = tx[t].todo
    BY <1>5 DEF TxRow
  <1>10. \A b \in todo : FefoRank[c[1]] <= FefoRank[b[1]]
    BY <1>4, <1>9, FirstExpiringIn
  <1>11. \A b \in Bucket : FefoRank[b[1]] \in Nat
    BY DEF Bucket
  <1>12. \A b \in BucketsOf(line.item, line.location) :
           /\ b \in Bucket /\ b \in Row /\ b # o
           /\ b # c => holder'[b] = holder[b]
           /\ (holder[b] = t /\ b \notin todo) => AvailableQty(working[b]) <= 0
           /\ \A k \in LineReservations(order, l) :
                FefoRank[b[1]] < FefoRank[order.reservations[k].inventoryId[1]] =>
                  /\ b \notin todo
                  /\ holder[b] = t => AvailableQty(working[b]) <= 0
    <2>1. \A b \in BucketsOf(line.item, line.location) :
            b \in Bucket /\ b \in Row /\ b # o
      BY <1>5 DEF BucketsOf, Row
    <2>2. ByExpiry(t)
      BY <1>4 DEF ExpiryInv, ExpiryOK
    <2>3. tx[t].remaining > 0
      BY <1>4
    <2>4. \A b \in BucketsOf(line.item, line.location) :
            /\ (holder[b] = t /\ b \notin todo) => AvailableQty(working[b]) <= 0
            /\ \A k \in LineReservations(order, l) :
                 FefoRank[b[1]] < FefoRank[order.reservations[k].inventoryId[1]] =>
                   /\ b \notin todo
                   /\ holder[b] = t => AvailableQty(working[b]) <= 0
      BY <1>4, <1>6, <1>7, <1>8, <1>9, <2>2, <2>3 DEF ByExpiry
    <2>5. \A b \in Row : b # c => holder'[b] = holder[b]
      BY <1>1, <1>4 DEF StockTypeOK
    <2> QED
      BY <2>1, <2>4, <2>5
  <1>13. CASE SkipsBucket(t, c)
    <2>1. /\ working' = working /\ AvailableQty(working[c]) <= 0
          /\ tx'[t].doc = o /\ tx'[t].line = l /\ tx'[t].todo = todo \ {c}
      BY <1>1, <1>4, <1>5, <1>7, <1>9, <1>13 DEF SkipsBucket, StockTypeOK, TxRow
    <2>2. ByExpiry(t)'
      BY <1>6, <1>8, <1>12, <2>1 DEF ByExpiry
    <2> QED
      BY <1>2, <2>2, StatementExpires
  <1>14. ASSUME NEW take \in Nat \ {0}, HoldsUnits(t, o, c, take)
         PROVE  ExpiryOK'
    <2>1. PICK held : held = [line |-> tx[t].line, inventoryId |-> c,
                              quantity |-> take, status |-> "ACTIVE"]
      OBVIOUS
    <2>2. /\ held \in Reservation
          /\ working'[c] = Moved(working[c], 0, take)
          /\ working'[o].reservations = Append(order.reservations, held)
          /\ working'[o].lines = order.lines
          /\ working'[o] \in OrderRow
          /\ \A r \in Row \ {c, o} : working'[r] = working[r]
      <3>1. /\ tx[t].line \in Nat /\ working[o] \in OrderRow
            /\ working[c] \in BucketRow
        BY <1>4, <1>5, <1>7
      <3>2. /\ held \in Reservation
            /\ working'[c] = Moved(working[c], 0, take)
            /\ working'[o].reservations = Append(working[o].reservations, held)
            /\ working'[o].lines = working[o].lines
            /\ working'[o] \in OrderRow
            /\ \A r \in Row \ {c, o} : working'[r] = working[r]
        BY <1>1, <1>14, <2>1, <3>1, HeldRows
      <3> QED
        BY <1>6, <3>2
    <2>3. /\ tx'[t].doc = o /\ tx'[t].line = l /\ tx'[t].todo = todo \ {c}
          /\ tx'[t].remaining = tx[t].remaining - take
      BY <1>1, <1>4, <1>5, <1>7, <1>9, <1>14 DEF HoldsUnits, StockTypeOK, TxRow
    <2>4. tx'[t].remaining > 0 => AvailableQty(working'[c]) <= 0
      <3>1. take = AvailableQty(working[c]) \/ take = tx[t].remaining
        BY <1>14 DEF HoldsUnits
      <3>2. AvailableQty(working'[c]) = AvailableQty(working[c]) - take
            /\ AvailableQty(working[c]) \in Int
        BY <1>4, <2>2 DEF Moved, AvailableQty, Quantities, BucketRow
      <3> QED
        BY <1>4, <2>3, <3>1, <3>2
    <2>5. PICK after \in OrderRow : after = working'[o]
      BY <2>2
    <2>6. /\ held.line = l /\ held.inventoryId = c
      BY <1>7, <2>1
    <2>7. ASSUME NEW k \in LineReservations(after, l)
          PROVE  \/ /\ k \in LineReservations(order, l)
                    /\ after.reservations[k] = order.reservations[k]
                 \/ after.reservations[k].inventoryId = c
      <3>1. after.reservations = Append(order.reservations, held)
        BY <2>2, <2>5
      <3>2. k \in DOMAIN after.reservations /\ after.reservations[k].line = l
        BY <2>7 DEF LineReservations
      <3>3. \/ /\ k \in DOMAIN order.reservations
               /\ after.reservations[k] = order.reservations[k]
            \/ after.reservations[k] = held
        <4>1. held \in Reservation /\ k \in DOMAIN after.reservations
          BY <2>2, <3>2
        <4> QED
          BY <1>6, <2>5, <3>1, <4>1, ReservationsAfterAppend
      <3> QED
        BY <2>6, <3>2, <3>3 DEF LineReservations
    <2>8. ASSUME NEW b \in BucketsOf(line.item, line.location)
          PROVE  /\ (holder'[b] = t /\ b \notin todo \ {c} /\ tx'[t].remaining > 0)
                      => AvailableQty(working'[b]) <= 0
                 /\ \A k \in LineReservations(after, l) :
                      FefoRank[b[1]] < FefoRank[after.reservations[k].inventoryId[1]]
                        => /\ b \notin todo \ {c}
                           /\ holder'[b] = t => AvailableQty(working'[b]) <= 0
      <3>1. b \in Bucket /\ b \in Row /\ b # o
        BY <1>12
      <3>2. CASE b = c
        <4>1. c \in todo
          BY <1>4, <1>9
        <4>2. ASSUME NEW k \in LineReservations(after, l)
              PROVE  ~ (FefoRank[c[1]] < FefoRank[after.reservations[k].inventoryId[1]])
          BY <1>11, <1>12, <2>7, <3>2, <4>1, <4>2
        <4> QED
          BY <2>4, <3>2, <4>2
      <3>3. CASE b # c
        <4>1. working'[b] = working[b] /\ holder'[b] = holder[b]
          BY <1>12, <2>2, <3>1, <3>3
        <4>2. FefoRank[b[1]] < FefoRank[c[1]] => b \notin todo
          BY <1>10, <1>11, <3>1
        <4> QED
          BY <1>12, <2>7, <3>3, <4>1, <4>2
      <3> QED
        BY <3>2, <3>3
    <2>9. ByExpiry(t)'
      BY <1>8, <2>2, <2>3, <2>5, <2>8 DEF ByExpiry
    <2> QED
      BY <1>2, <2>9, StatementExpires
  <1> QED
    BY <1>4, <1>13, <1>14

\* Every step of the specification.
LEMMA StepExpires ==
  ASSUME ExpiryInv, [OrdersNext]_vars
  PROVE  ExpiryInv'
  <1>1. FillInv'
    BY StepFills DEF ExpiryInv
  <1>2. CASE UNCHANGED vars
    BY <1>1, <1>2 DEF vars, ExpiryInv, ExpiryOK, ByExpiry
  <1>3. CASE OrdersNext
    <2>1. PICK t \in Txn : OrderStep(t) \/ OrderDeadlock(t) \/ Lost(t)
      BY <1>3 DEF OrdersNext
    <2>2. CASE tx[t].doc \in Order /\ (FindBuckets(t) \/ TakeBucket(t))
      BY <1>1, <2>2, FindExpires, TakeExpires DEF ExpiryInv
    <2>3. CASE ~ (tx[t].doc \in Order /\ (FindBuckets(t) \/ TakeBucket(t)))
      <3>1. KeepsOthers(t) /\ tx'[t].step # "take"
        BY <2>1, <2>3, LeavesLoop, DeadlockRollsBack
           DEF ExpiryInv, FillInv, OrderStep, OrderLocalStep, OrderLockStep,
               RefuseShortage, OrderCommit, Lost
      <3> QED
        BY <1>1, <3>1, StatementExpires DEF ExpiryInv
    <2> QED
      BY <2>2, <2>3
  <1> QED
    BY <1>2, <1>3

\* Candidates are visited as they expire, and left only when they are empty or
\* when the line needs no more.
THEOREM BucketsAreVisitedInOrder == OrdersSpec => []ExpiryInv
  <1>1. Init => ExpiryInv
    <2>1. Init => ExpiryOK
      BY DEF Init, ExpiryOK, Idle
    <2> QED
      BY <2>1, InitFill DEF ExpiryInv
  <1> QED
    BY <1>1, StepExpires, PTL DEF OrdersSpec

-----------------------------------------------------------------------------
(***************************************************************************)
(* The same with the history of FefoHistory: every bucket of a line under  *)
(* way was listed and is still to come, was not listed, or is locked.      *)
(***************************************************************************)

Accounted(t) ==
    LET line == working[tx[t].doc].lines[tx[t].line]
    IN  \A b \in BucketsOf(line.item, line.location) :
          b \in tx[t].todo \/ b \in seenEmpty[t] \/ holder[b] = t

AccountedOK == \A t \in Txn : tx[t].step = "take" => Accounted(t)

\* What a transaction in the loop has seen stays what it was.
LEMMA SeenStays ==
  ASSUME ProtocolInv, Observe, NEW u \in Txn, tx[u].step = "take",
         tx'[u].step = "take"
  PROVE  seenEmpty'[u] = seenEmpty[u]
  <1>1. tx[u].doc \in Order
    BY OwnOrder DEF IsIdle
  <1> QED
    BY <1>1 DEF Observe

\* The others are where they were.
LEMMA StatementAccounts ==
  ASSUME ProtocolInv, AccountedOK, Observe, NEW t \in Txn, KeepsOthers(t),
         tx'[t].step = "take" => Accounted(t)'
  PROVE  AccountedOK'
  <1> SUFFICES ASSUME NEW u \in Txn \ {t}, tx'[u].step = "take" PROVE Accounted(u)'
    BY DEF AccountedOK
  <1>1. tx'[u] = tx[u] /\ ~ IsIdle(u) /\ Accounted(u)
    BY DEF KeepsOthers, AccountedOK, IsIdle
  <1>2. PICK o : o = tx[u].doc
    OBVIOUS
  <1>3. working'[o] = working[o]
    BY <1>1, <1>2, OwnOrder DEF KeepsOthers
  <1>4. \A item, location : \A b \in BucketsOf(item, location) : b \in Row
    BY DEF BucketsOf, Row
  <1>5. seenEmpty'[u] = seenEmpty[u]
    BY <1>1, SeenStays
  <1> QED
    BY <1>1, <1>2, <1>3, <1>4, <1>5 DEF Accounted, KeepsOthers

\* findAvailableBuckets lists a bucket of the line, or is seen not to.
LEMMA FindAccounts ==
  ASSUME ProtocolInv, Observe, NEW t \in Txn, tx[t].doc \in Order, FindBuckets(t)
  PROVE  KeepsOthers(t) /\ Accounted(t)'
  <1>1. StockTypeOK /\ tx[t].step = "find"
    BY DEF ProtocolInv, OrdersTypeOK, FindBuckets
  <1>2. KeepsOthers(t)
    BY LocalStepQuiet, QuietLeaves DEF LeavesOthers, KeepsOthers
  <1>3. PICK line : line = working[tx[t].doc].lines[tx[t].line]
    OBVIOUS
  <1>4. PICK todo : todo = AvailableBuckets(t, line.item, line.location)
    OBVIOUS
  <1>5. /\ tx'[t].step = "take" /\ tx'[t].todo = todo
        /\ tx'[t].doc = tx[t].doc /\ tx'[t].line = tx[t].line
        /\ working' = working
    <2>1. PICK remaining : tx' = [tx EXCEPT ![t].step = "take",
                                            ![t].remaining = remaining,
                                            ![t].todo = todo]
      BY <1>3, <1>4 DEF FindBuckets
    <2>2. tx[t] \in TxRow /\ DOMAIN tx = Txn
      BY <1>1 DEF StockTypeOK
    <2>3. working' = working
      BY DEF FindBuckets, rows
    <2> QED
      BY <2>1, <2>2, <2>3 DEF TxRow
  <1>6. seenEmpty'[t] = NotListed(t, line.item, line.location)
    BY <1>1, <1>3, <1>5 DEF Observe
  <1>7. Accounted(t)'
    BY <1>3, <1>4, <1>5, <1>6 DEF Accounted, NotListed
  <1> QED
    BY <1>2, <1>7

\* The candidate that TakeBucket looks at is locked from then on.
LEMMA TakeAccounts ==
  ASSUME ProtocolInv, AccountedOK, Observe, NEW t \in Txn, tx[t].doc \in Order,
         TakeBucket(t)
  PROVE  KeepsOthers(t) /\ (tx'[t].step = "take" => Accounted(t)')
  <1>1. StockTypeOK
    BY DEF ProtocolInv, OrdersTypeOK
  <1>2. KeepsOthers(t)
    BY TakeMoves DEF LeavesOthers, KeepsOthers
  <1>3. PICK o \in Order, c \in Bucket : TakesFrom(t, o, c)
    BY TakeFacts
  <1>4. /\ o = tx[t].doc /\ ~ IsIdle(t) /\ tx[t].step = "take" /\ c \in Row
        /\ holder' = [holder EXCEPT ![c] = t]
        /\ \/ SkipsBucket(t, c)
           \/ \E take \in Nat \ {0} : HoldsUnits(t, o, c, take)
    BY <1>3 DEF TakesFrom
  <1>5. o \in Row /\ o \notin Bucket /\ working[o] \in OrderRow /\ tx[t] \in TxRow
    BY <1>4, OwnOrder
  <1>6. /\ tx'[t].doc = o /\ tx'[t].line = tx[t].line /\ tx'[t].step = "take"
        /\ tx'[t].todo = tx[t].todo \ {c}
    <2>1. \/ tx' = [tx EXCEPT ![t].todo = @ \ {c}]
          \/ \E take : tx' = [tx EXCEPT ![t].todo = @ \ {c},
                                        ![t].remaining = @ - take]
      BY <1>4 DEF SkipsBucket, HoldsUnits
    <2> QED
      BY <1>1, <1>4, <1>5, <2>1 DEF StockTypeOK, TxRow
  <1>7. working'[o].lines = working[o].lines
    <2>1. CASE SkipsBucket(t, c)
      BY <2>1 DEF SkipsBucket
    <2>2. ASSUME NEW take, HoldsUnits(t, o, c, take)
          PROVE  working'[o].lines = working[o].lines
      <3>1. PICK held : held = [line |-> tx[t].line, inventoryId |-> c,
                                quantity |-> take, status |-> "ACTIVE"]
        OBVIOUS
      <3>2. working' = [working EXCEPT ![c] = Moved(@, 0, take),
                                       ![o].reservations = Append(@, held)]
        BY <2>2, <3>1 DEF HoldsUnits
      <3>3. o # c /\ DOMAIN working = Row
        BY <1>1, <1>5 DEF StockTypeOK
      <3> QED
        BY <1>4, <1>5, <3>2, <3>3 DEF OrderRow
    <2> QED
      BY <1>4, <2>1, <2>2
  <1>8. holder'[c] = t /\ \A b \in Bucket \ {c} : holder'[b] = holder[b]
    BY <1>1, <1>4 DEF StockTypeOK, Row
  <1>9. seenEmpty'[t] = seenEmpty[t] /\ Accounted(t)
    BY <1>4, <1>6, SeenStays DEF AccountedOK
  <1>10. \A item, location : BucketsOf(item, location) \subseteq Bucket
    BY DEF BucketsOf
  <1>11. Accounted(t)'
    BY <1>4, <1>6, <1>7, <1>8, <1>9, <1>10 DEF Accounted
  <1> QED
    BY <1>2, <1>11

\* Every step of the specification with its history.
LEMMA StepAccounts ==
  ASSUME ProtocolInv, AccountedOK, [FefoNext]_history
  PROVE  AccountedOK'
  <1>1. CASE UNCHANGED history
    BY <1>1 DEF history, vars, AccountedOK, Accounted
  <1>2. CASE FefoNext
    <2>1. PICK t \in Txn : OrderStep(t) \/ OrderDeadlock(t) \/ Lost(t)
      BY <1>2 DEF FefoNext, OrdersNext
    <2>2. Observe
      BY <1>2 DEF FefoNext
    <2>3. CASE tx[t].doc \in Order /\ (FindBuckets(t) \/ TakeBucket(t))
      BY <2>2, <2>3, FindAccounts, TakeAccounts, StatementAccounts
    <2>4. CASE ~ (tx[t].doc \in Order /\ (FindBuckets(t) \/ TakeBucket(t)))
      <3>1. KeepsOthers(t) /\ tx'[t].step # "take"
        BY <2>1, <2>4, LeavesLoop, DeadlockRollsBack
           DEF OrderStep, OrderLocalStep, OrderLockStep, RefuseShortage,
               OrderCommit, Lost
      <3> QED
        BY <2>2, <3>1, StatementAccounts
    <2> QED
      BY <2>3, <2>4
  <1> QED
    BY <1>1, <1>2

\* First expired, first out: when a line has taken from a bucket, each bucket of
\* its item that expires earlier was not listed by the line's query, or has been
\* visited: the transaction has it locked, with nothing left in it.
THEOREM FirstExpiredFirstOut == FefoSpec => []EarlierExpiryFirst
  <1>1. ASSUME ExpiryInv, AccountedOK, NeverOversold, NEW t \in Txn,
               tx[t].step = "take"
        PROVE  LET line == working[tx[t].doc].lines[tx[t].line]
               IN  \A b \in BucketsOf(line.item, line.location), c \in Taken(t) :
                     FefoRank[b[1]] < FefoRank[c[1]] =>
                       \/ b \in seenEmpty[t]
                       \/ holder[b] = t /\ AvailableQty(working[b]) = 0
    <2>1. ByExpiry(t) /\ Accounted(t)
      BY <1>1 DEF ExpiryInv, ExpiryOK, AccountedOK
    <2>2. \A order, l : ReservationsOfLine(order, l, "ACTIVE")
                          \subseteq LineReservations(order, l)
      BY DEF ReservationsOfLine, LineReservations
    <2>3. ASSUME NEW b \in Bucket, AvailableQty(working[b]) <= 0
          PROVE  AvailableQty(working[b]) = 0
      <3>1. WithinStock(working[b])
        BY <1>1 DEF NeverOversold
      <3>2. working[b] \in BucketRow \cup {Absent}
        BY <1>1 DEF ExpiryInv, FillInv, ProtocolInv, OrdersTypeOK, StockTypeOK
      <3> QED
        BY <2>3, <3>1, <3>2, StockAssumption
           DEF WithinStock, AvailableQty, Quantities, BucketRow
    <2>4. \A item, location : BucketsOf(item, location) \subseteq Bucket
      BY DEF BucketsOf
    <2> QED
      BY <2>1, <2>2, <2>3, <2>4 DEF ByExpiry, Accounted, Taken
  <1>2. ExpiryInv /\ AccountedOK /\ NeverOversold => EarlierExpiryFirst
    BY <1>1 DEF EarlierExpiryFirst
  <1>3. FefoInit => Init /\ AccountedOK
    BY DEF FefoInit, Init, AccountedOK, Idle
  <1>4. [FefoNext]_history => [OrdersNext]_vars
    BY DEF FefoNext, history
  <1>5. ExpiryInv => ProtocolInv
    BY DEF ExpiryInv, FillInv
  <1>6. FefoSpec => OrdersSpec
    BY <1>3, <1>4, PTL DEF FefoSpec, OrdersSpec
  <1> QED
    BY <1>2, <1>3, <1>5, <1>6, StepAccounts, BucketsAreVisitedInOrder,
       NothingOversold, PTL DEF FefoSpec

------------------------------------------------------------------------------
(****************************************************************************)
(* What the orders promise (module OrderBook).  First the sums of the       *)
(* book: an order asks a shelf for what its lines ask, and what is          *)
(* promised is the sum over the RESERVED orders.                            *)
(****************************************************************************)

\* The lines that ask something of the shelf s.
LinesFor(lines, s) ==
    {l \in DOMAIN lines : <<lines[l].item, lines[l].location>> = s}

\* What they ask for is summed as any function is.
LEMMA DemandIs ==
  ASSUME NEW lines, NEW s \in Shelf, IsFiniteSet(LinesFor(lines, s)), NEW f,
         \A l \in LinesFor(lines, s) : f[l] = lines[l].quantity
  PROVE  DemandOf(lines)[s] = SumOf(f, LinesFor(lines, s))
  <1> DEFINE S == LinesFor(lines, s)
             Folds(g) == g = [T \in SUBSET S |->
                                IF T = {} THEN 0
                                ELSE LET l == CHOOSE l \in T : TRUE
                                     IN  lines[l].quantity + g[T \ {l}]]
             iter == CHOOSE g : Folds(g)
  <1>1. DemandOf(lines)[s] = iter[S]
    BY DEF DemandOf, MapThenSumSet, MapThenFoldSet, LinesFor
  <1>2. ASSUME NEW g
        PROVE  Folds(g) <=> IsSum(g, f, S)
    BY DEF IsSum, PickOf
  <1> HIDE DEF S
  <1>3. IsFiniteSet(S)
    BY DEF S
  <1>4. \E g : IsSum(g, f, S)
    BY <1>3, SumExists
  <1> HIDE DEF Folds
  <1>5. Folds(iter)
    BY <1>2, <1>4
  <1> HIDE DEF iter
  <1>6. IsSum(iter, f, S) /\ IsSum(CHOOSE g : IsSum(g, f, S), f, S)
    BY <1>2, <1>4, <1>5
  <1>7. iter[S] = (CHOOSE g : IsSum(g, f, S))[S]
    BY <1>3, <1>6, SumUnique
  <1> QED
    BY <1>1, <1>7 DEF SumOf, S

\* Lines that differ in what they hold ask for the same.
LEMMA SameDemand ==
  ASSUME NEW lines, NEW other, IsFiniteSet(DOMAIN lines),
         DOMAIN other = DOMAIN lines,
         \A l \in DOMAIN lines : /\ other[l].item = lines[l].item
                                 /\ other[l].location = lines[l].location
                                 /\ other[l].quantity = lines[l].quantity
  PROVE  DemandOf(other) = DemandOf(lines)
  <1>1. ASSUME NEW s \in Shelf
        PROVE  DemandOf(other)[s] = DemandOf(lines)[s]
    <2> DEFINE S == LinesFor(lines, s)
               f == [l \in S |-> lines[l].quantity]
    <2>1. LinesFor(other, s) = S
      BY DEF LinesFor
    <2>2. IsFiniteSet(S)
      BY FS_Subset DEF LinesFor
    <2>3. \A l \in S : f[l] = lines[l].quantity /\ f[l] = other[l].quantity
      BY DEF LinesFor
    <2> HIDE DEF f, S
    <2>4. DemandOf(lines)[s] = SumOf(f, S)
      BY <2>2, <2>3, DemandIs DEF S
    <2>5. DemandOf(other)[s] = SumOf(f, S)
      BY <2>1, <2>2, <2>3, DemandIs
    <2> QED
      BY <2>4, <2>5
  <1> QED
    BY <1>1 DEF DemandOf

\* The buckets of a shelf are finitely many.
LEMMA FiniteShelf ==
  ASSUME NEW s \in Shelf
  PROVE  /\ IsFiniteSet(BucketsOf(s[1], s[2]))
         /\ BucketsOf(s[1], s[2]) \subseteq Bucket
  <1>1. IsFiniteSet(Batch \X {s[2]})
    BY FS_Singleton, FS_Product, OrderBookAssumption
  <1>2. BucketsOf(s[1], s[2]) \subseteq Batch \X {s[2]}
    BY DEF BucketsOf, Bucket
  <1> QED
    BY <1>1, <1>2, FS_Subset DEF BucketsOf

\* What is on hand is summed over them as any function is.
LEMMA OnHandIs ==
  ASSUME NEW version, NEW s \in Shelf, NEW f,
         \A b \in BucketsOf(s[1], s[2]) : f[b] = Quantities(version[b]).physicalQty
  PROVE  OnHand(version)[s] = SumOf(f, BucketsOf(s[1], s[2]))
  <1> DEFINE S == BucketsOf(s[1], s[2])
             Folds(g) == g = [T \in SUBSET S |->
                                IF T = {} THEN 0
                                ELSE LET b == CHOOSE b \in T : TRUE
                                     IN  Quantities(version[b]).physicalQty
                                           + g[T \ {b}]]
             iter == CHOOSE g : Folds(g)
  <1>1. OnHand(version)[s] = iter[S]
    BY DEF OnHand, MapThenSumSet, MapThenFoldSet
  <1>2. ASSUME NEW g
        PROVE  Folds(g) <=> IsSum(g, f, S)
    BY DEF IsSum, PickOf
  <1>3. IsFiniteSet(S)
    BY FiniteShelf
  <1> HIDE DEF S
  <1>4. \E g : IsSum(g, f, S)
    BY <1>3, SumExists
  <1> HIDE DEF Folds
  <1>5. Folds(iter)
    BY <1>2, <1>4
  <1> HIDE DEF iter
  <1>6. IsSum(iter, f, S) /\ IsSum(CHOOSE g : IsSum(g, f, S), f, S)
    BY <1>2, <1>4, <1>5
  <1>7. iter[S] = (CHOOSE g : IsSum(g, f, S))[S]
    BY <1>3, <1>6, SumUnique
  <1> QED
    BY <1>1, <1>7 DEF SumOf, S

\* The orders that a version of the rows shows as RESERVED.
Reserving(version) ==
    {o \in Order : version[o] # Absent /\ version[o].status = "RESERVED"}

\* What they have been promised of each shelf.
Claims(version, s) ==
    [o \in Reserving(version) |-> DemandOf(version[o].lines)[s]]
PromisedIn(version, s) == SumOf(Claims(version, s), Reserving(version))

\* An order's lines are finitely many, and they ask for whole quantities.
LEMMA DemandType ==
  ASSUME NEW order \in OrderRow
  PROVE  /\ IsFiniteSet(DOMAIN order.lines)
         /\ DemandOf(order.lines) \in [Shelf -> Int]
  <1>1. order.lines \in Seq(OrderLine)
        /\ \A l \in DOMAIN order.lines : order.lines[l] \in OrderLine
    BY OrderParts
  <1>2. IsFiniteSet(DOMAIN order.lines)
    <2>1. DOMAIN order.lines = 1 .. Len(order.lines) /\ Len(order.lines) \in Nat
      BY <1>1, LenProperties
    <2> QED
      BY <2>1, FS_Interval
  <1>3. ASSUME NEW s \in Shelf
        PROVE  DemandOf(order.lines)[s] \in Int
    <2> DEFINE S == LinesFor(order.lines, s)
               f == [l \in S |-> order.lines[l].quantity]
    <2>1. IsFiniteSet(S)
      BY <1>2, FS_Subset DEF LinesFor
    <2>2. \A l \in S : f[l] = order.lines[l].quantity /\ f[l] \in Int
      BY <1>1 DEF LinesFor, OrderLine
    <2> HIDE DEF f, S
    <2>3. DemandOf(order.lines)[s] = SumOf(f, S)
      BY <2>1, <2>2, DemandIs DEF S
    <2> QED
      BY <2>1, <2>2, <2>3, SumOfInt
  <1>4. DemandOf(order.lines) = [s \in Shelf |-> DemandOf(order.lines)[s]]
    BY DEF DemandOf
  <1> QED
    BY <1>2, <1>3, <1>4

\* The book sees the status of an order and what its lines ask for.
LEMMA SeenOrder ==
  ASSUME NEW order \in OrderRow
  PROVE  /\ OrderSeen(order) = [status |-> order.status,
                                form |-> DemandOf(order.lines)]
         /\ OrderSeen(order) # Absent
  <1>1. order # Absent
    BY OrdersAssumption
  <1>2. OrderSeen(order) = [status |-> order.status,
                            form |-> DemandOf(order.lines)]
    BY <1>1 DEF OrderSeen
  <1>3. OrderSeen(order) \in [status : OrderStatus, form : [Shelf -> Int]]
    BY <1>2, DemandType DEF OrderRow
  <1> QED
    BY <1>2, <1>3, OrderBookAssumption

Committed == \A o \in Order : committed[o] \in OrderRow \cup {Absent}

\* So it knows which orders there are, in which status, and what is promised.
LEMMA SeenStatus ==
  ASSUME Committed
  PROVE  /\ Promise!Placed = {o \in Order : committed[o] # Absent}
         /\ \A status : Promise!InStatus(status) =
              {o \in Order : committed[o] # Absent /\ committed[o].status = status}
  <1> DEFINE map == [o \in Order |-> OrderSeen(committed[o])]
  <1>1. ASSUME NEW o \in Order
        PROVE  /\ committed[o] = Absent => map[o] = Absent
               /\ committed[o] # Absent => /\ map[o] # Absent
                                           /\ map[o].status = committed[o].status
    <2>1. CASE committed[o] = Absent
      BY <2>1 DEF OrderSeen
    <2>2. CASE committed[o] # Absent
      BY <2>2, SeenOrder DEF Committed
    <2> QED
      BY <2>1, <2>2
  <1>2. Promise!Placed = {o \in Order : map[o] # Absent}
    BY DEF Promise!Placed
  <1>3. \A status : Promise!InStatus(status) =
                      {o \in Promise!Placed : map[o].status = status}
    BY DEF Promise!InStatus
  <1> HIDE DEF map
  <1> QED
    BY <1>1, <1>2, <1>3

LEMMA PromisedIs ==
  ASSUME Committed, NEW s \in Shelf
  PROVE  Promise!Promised(s) = PromisedIn(committed, s)
  <1> DEFINE map == [o \in Order |-> OrderSeen(committed[o])]
             S == Reserving(committed)
             f == Claims(committed, s)
             Folds(g) == g = [T \in SUBSET S |->
                                IF T = {} THEN 0
                                ELSE LET o == CHOOSE o \in T : TRUE
                                     IN  map[o].form[s] + g[T \ {o}]]
             iter == CHOOSE g : Folds(g)
  <1>1. Promise!InStatus("RESERVED") = S
    BY SeenStatus DEF Reserving
  <1>2. Promise!Promised(s) = iter[S]
    BY <1>1 DEF Promise!Promised, Promise!MapThenSumSet, Promise!MapThenFoldSet
  <1>3. \A o \in S : map[o].form[s] = f[o]
    BY SeenOrder DEF Committed, Reserving, Claims
  <1>4. IsFiniteSet(S)
    BY OrderBookAssumption, FS_Subset DEF Reserving
  <1> HIDE DEF map, f, S
  <1>5. ASSUME NEW g
        PROVE  Folds(g) <=> IsSum(g, f, S)
    BY <1>3 DEF IsSum, PickOf
  <1>6. \E g : IsSum(g, f, S)
    BY <1>4, SumExists
  <1> HIDE DEF Folds
  <1>7. Folds(iter)
    BY <1>5, <1>6
  <1> HIDE DEF iter
  <1>8. IsSum(iter, f, S) /\ IsSum(CHOOSE g : IsSum(g, f, S), f, S)
    BY <1>5, <1>6, <1>7
  <1>9. iter[S] = (CHOOSE g : IsSum(g, f, S))[S]
    BY <1>4, <1>8, SumUnique
  <1> QED
    BY <1>2, <1>9 DEF SumOf, PromisedIn, S, f

\* The units that the reservations of a line are for, and those of all lines
\* that ask something of a shelf.
UnitsOn(order, o, l) ==
    UNION {Units(o, k, order.reservations[k].quantity) :
             k \in LineReservations(order, l)}
UnitsFor(order, o, s) ==
    UNION {UnitsOn(order, o, l) : l \in LinesFor(order.lines, s)}

\* There are as many as the reservations of the line come to.
LEMMA LineUnits ==
  ASSUME NEW order \in OrderRow, NEW o, NEW l
  PROVE  /\ IsFiniteSet(UnitsOn(order, o, l))
         /\ Cardinality(UnitsOn(order, o, l)) = LineTotal(order, l)
  <1> DEFINE S == LineReservations(order, l)
             f == [k \in S |-> order.reservations[k].quantity]
             U == [k \in S |-> Units(o, k, order.reservations[k].quantity)]
  <1>1. /\ IsFiniteSet(S)
        /\ \A k \in S : f[k] \in Nat /\ f[k] = order.reservations[k].quantity
    BY LineTotalType, OrderParts DEF LineReservations, Reservation
  <1>2. \A k \in S : IsFiniteSet(U[k]) /\ f[k] = Cardinality(U[k])
    BY <1>1, UnitsCounted
  <1>3. \A j, k \in S : j # k => U[j] \cap U[k] = {}
    BY UnitsDisjoint
  <1>4. UnitsOn(order, o, l) = UNION {U[k] : k \in S}
    BY DEF UnitsOn
  <1> HIDE DEF S, f, U
  <1>5. /\ IsFiniteSet(UNION {U[k] : k \in S})
        /\ Cardinality(UNION {U[k] : k \in S}) = SumOf(f, S)
    BY <1>1, <1>2, <1>3, SumOfSizes
  <1>6. LineTotal(order, l) = SumOf(f, S)
    BY <1>1, QuantityOfIs DEF LineTotal, S
  <1> QED
    BY <1>4, <1>5, <1>6

\* An order that is filled has reserved what it asks of each shelf.
LEMMA ShelfUnits ==
  ASSUME NEW order \in OrderRow, NEW o, NEW s \in Shelf,
         \A l \in DOMAIN order.lines : Filled(order, l)
  PROVE  /\ IsFiniteSet(UnitsFor(order, o, s))
         /\ Cardinality(UnitsFor(order, o, s)) = DemandOf(order.lines)[s]
  <1> DEFINE S == LinesFor(order.lines, s)
             f == [l \in S |-> order.lines[l].quantity]
             U == [l \in S |-> UnitsOn(order, o, l)]
  <1>1. IsFiniteSet(S) /\ S \subseteq DOMAIN order.lines
    BY DemandType, FS_Subset DEF LinesFor
  <1>2. \A l \in S : IsFiniteSet(U[l]) /\ f[l] = Cardinality(U[l])
    BY <1>1, LineUnits DEF Filled
  <1>3. ASSUME NEW l \in S, NEW m \in S, NEW x, x \in UnitsOn(order, o, l),
               x \in UnitsOn(order, o, m)
        PROVE  l = m
    <2>1. PICK k \in LineReservations(order, l) :
            x \in Units(o, k, order.reservations[k].quantity)
      BY <1>3 DEF UnitsOn
    <2>2. PICK j \in LineReservations(order, m) :
            x \in Units(o, j, order.reservations[j].quantity)
      BY <1>3 DEF UnitsOn
    <2>3. j = k
      BY <2>1, <2>2, UnitsDisjoint
    <2> QED
      BY <2>1, <2>2, <2>3 DEF LineReservations
  <1>4. \A l, m \in S : l # m => U[l] \cap U[m] = {}
    BY <1>3
  <1>5. UnitsFor(order, o, s) = UNION {U[l] : l \in S}
    BY DEF UnitsFor
  <1>6. \A l \in S : f[l] = order.lines[l].quantity
    OBVIOUS
  <1> HIDE DEF S, f, U
  <1>7. /\ IsFiniteSet(UNION {U[l] : l \in S})
        /\ Cardinality(UNION {U[l] : l \in S}) = SumOf(f, S)
    BY <1>1, <1>2, <1>4, SumOfSizes
  <1>8. DemandOf(order.lines)[s] = SumOf(f, S)
    BY <1>1, <1>6, DemandIs DEF S
  <1> QED
    BY <1>5, <1>7, <1>8

\* Each reservation is of a line of the order, and of a bucket that has what
\* the line asks for.
Fits(order) ==
    \A k \in DOMAIN order.reservations :
      LET l == order.reservations[k].line
      IN  /\ l \in DOMAIN order.lines
          /\ order.reservations[k].inventoryId \in
               BucketsOf(order.lines[l].item, order.lines[l].location)

\* The units an order holds at a shelf are those that its lines were given
\* there, if it is RESERVED; otherwise it holds none.
LEMMA HeldAtShelf ==
  ASSUME NEW order \in OrderRow, Settled(order), Fits(order), NEW o,
         NEW s \in Shelf, NEW x
  PROVE  (\E b \in BucketsOf(s[1], s[2]) : x \in HeldOf(order, o, b))
           <=> (order.status = "RESERVED" /\ x \in UnitsFor(order, o, s))
  <1>1. order # Absent /\ order.status \in OrderStatus
    BY OrdersAssumption DEF OrderRow
  <1>2. s = <<s[1], s[2]>>
    BY DEF Shelf
  <1>3. ASSUME NEW b \in BucketsOf(s[1], s[2]), x \in HeldOf(order, o, b)
        PROVE  order.status = "RESERVED" /\ x \in UnitsFor(order, o, s)
    <2>1. PICK k \in DOMAIN order.reservations :
            /\ order.reservations[k].status = "ACTIVE"
            /\ order.reservations[k].inventoryId = b
            /\ x \in Units(o, k, order.reservations[k].quantity)
      BY <1>1, <1>3, HeldElements
    <2>2. order.status = "RESERVED"
      BY <1>1, <2>1 DEF Settled, AllAre, OrderStatus
    <2>3. PICK l \in DOMAIN order.lines :
            /\ l = order.reservations[k].line
            /\ b \in BucketsOf(order.lines[l].item, order.lines[l].location)
      BY <2>1 DEF Fits
    <2>4. l \in LinesFor(order.lines, s)
      BY <1>2, <1>3, <2>3 DEF LinesFor, BucketsOf
    <2>5. k \in LineReservations(order, l)
      BY <2>3 DEF LineReservations
    <2> QED
      BY <2>1, <2>2, <2>4, <2>5 DEF UnitsFor, UnitsOn
  <1>4. ASSUME order.status = "RESERVED", x \in UnitsFor(order, o, s)
        PROVE  \E b \in BucketsOf(s[1], s[2]) : x \in HeldOf(order, o, b)
    <2>1. PICK l \in LinesFor(order.lines, s) : x \in UnitsOn(order, o, l)
      BY <1>4 DEF UnitsFor
    <2>2. PICK k \in LineReservations(order, l) :
            x \in Units(o, k, order.reservations[k].quantity)
      BY <2>1 DEF UnitsOn
    <2>3. /\ k \in DOMAIN order.reservations
          /\ order.reservations[k].line = l
          /\ order.reservations[k].status = "ACTIVE"
      BY <1>4, <2>2 DEF LineReservations, Settled, AllAre
    <2>4. order.reservations[k].inventoryId \in
            BucketsOf(order.lines[l].item, order.lines[l].location)
      BY <2>3 DEF Fits
    <2>5. order.lines[l].item = s[1] /\ order.lines[l].location = s[2]
      BY <1>2, <2>1 DEF LinesFor
    <2> QED
      BY <1>1, <2>2, <2>3, <2>4, <2>5, HeldElements
  <1> QED
    BY <1>3, <1>4

\* What the buckets of a shelf have reserved is what has been promised of it.
LEMMA PromisesAreReserved ==
  ASSUME NEW version,
         \A o \in Order : version[o] # Absent =>
           version[o] \in OrderRow /\ Settled(version[o]) /\ Fits(version[o]),
         \A b \in Bucket : Counted(version, b),
         NEW s \in Shelf, NEW f,
         \A b \in BucketsOf(s[1], s[2]) : f[b] = Quantities(version[b]).reservedQty
  PROVE  SumOf(f, BucketsOf(s[1], s[2])) = PromisedIn(version, s)
  <1> DEFINE S == BucketsOf(s[1], s[2])
             U == [b \in S |-> HeldUnits(version, b)]
             R == Reserving(version)
             V == [o \in R |-> UnitsFor(version[o], o, s)]
             claims == Claims(version, s)
  <1>1. IsFiniteSet(S) /\ S \subseteq Bucket
    BY FiniteShelf
  <1>2. \A b \in S : IsFiniteSet(U[b]) /\ f[b] = Cardinality(U[b])
    BY <1>1 DEF Counted
  <1>3. ASSUME NEW b \in S, NEW c \in S, NEW x,
               x \in HeldUnits(version, b), x \in HeldUnits(version, c)
        PROVE  b = c
    <2>1. PICK o \in Order : x \in HeldOf(version[o], o, b)
      BY <1>3 DEF HeldUnits
    <2>2. PICK p \in Order : x \in HeldOf(version[p], p, c)
      BY <1>3 DEF HeldUnits
    <2>3. PICK order, other : order = version[o] /\ other = version[p]
      OBVIOUS
    <2>4. /\ order # Absent /\ x \in HeldOf(order, o, b)
          /\ other # Absent /\ x \in HeldOf(other, p, c)
      BY <2>1, <2>2, <2>3 DEF HeldOf
    <2>5. PICK k \in DOMAIN order.reservations :
            /\ order.reservations[k].inventoryId = b
            /\ x \in Units(o, k, order.reservations[k].quantity)
      BY <2>4, Zenon DEF HeldOf, ActiveReservations, Units
    <2>6. PICK j \in DOMAIN other.reservations :
            /\ other.reservations[j].inventoryId = c
            /\ x \in Units(p, j, other.reservations[j].quantity)
      BY <2>4, Zenon DEF HeldOf, ActiveReservations, Units
    <2>7. o = p /\ k = j
      BY <2>5, <2>6, UnitsDisjoint
    <2> QED
      BY <2>3, <2>5, <2>6, <2>7
  <1>4. \A b, c \in S : b # c => U[b] \cap U[c] = {}
    BY <1>3
  <1>5. IsFiniteSet(R) /\ R \subseteq Order
    BY OrderBookAssumption, FS_Subset DEF Reserving
  <1>6. \A o \in R : IsFiniteSet(V[o]) /\ claims[o] = Cardinality(V[o])
    BY <1>5, ShelfUnits DEF Reserving, Claims, Settled
  <1>7. ASSUME NEW o \in R, NEW p \in R, NEW x,
               x \in UnitsFor(version[o], o, s), x \in UnitsFor(version[p], p, s)
        PROVE  o = p
    BY <1>7, UnitsDisjoint DEF UnitsFor, UnitsOn
  <1>8. \A o, p \in R : o # p => V[o] \cap V[p] = {}
    BY <1>7
  <1>9. ASSUME NEW x
        PROVE  (\E b \in S : x \in HeldUnits(version, b))
                 <=> (\E o \in R : x \in UnitsFor(version[o], o, s))
    <2>1. \A o \in Order :
            (\E b \in S : x \in HeldOf(version[o], o, b))
              <=> (o \in R /\ x \in UnitsFor(version[o], o, s))
      <3> SUFFICES ASSUME NEW o \in Order
                   PROVE  (\E b \in S : x \in HeldOf(version[o], o, b))
                            <=> (o \in R /\ x \in UnitsFor(version[o], o, s))
        OBVIOUS
      <3>1. CASE version[o] = Absent
        BY <3>1 DEF HeldOf, Reserving
      <3>2. CASE version[o] # Absent
        BY <3>2, HeldAtShelf DEF Reserving
      <3> QED
        BY <3>1, <3>2
    <2> QED
      BY <1>5, <2>1 DEF HeldUnits
  <1>10. UNION {U[b] : b \in S} = UNION {V[o] : o \in R}
    BY <1>9
  <1> HIDE DEF S, U, R, V, claims
  <1>11. Cardinality(UNION {U[b] : b \in S}) = SumOf(f, S)
    BY <1>1, <1>2, <1>4, SumOfSizes
  <1>12. Cardinality(UNION {V[o] : o \in R}) = SumOf(claims, R)
    BY <1>5, <1>6, <1>8, SumOfSizes
  <1> QED
    BY <1>10, <1>11, <1>12 DEF PromisedIn, S, R, claims

------------------------------------------------------------------------------
(****************************************************************************)
(* The inductive invariant of the refinement: a request keeps to what its   *)
(* order asks, and what it reserves fits the lines.                         *)
(****************************************************************************)

\* The status that a request leads to.
ResultOf(op) ==
    CASE op = "create" -> "DRAFT"
      [] op = "reserve" -> "RESERVED"
      [] op = "cancel" -> "CANCELLED"
      [] op = "fulfil" -> "FULFILLED"

Demands == {DemandOf(form) : form \in OrderForms}

\* A running request is at a statement of its own, has found its order in a
\* status it may start from, and leaves what the order asks for as it is.
AsAsked(t) ==
    LET before == committed[tx[t].doc]
        order == working[tx[t].doc]
    IN  /\ tx[t].op \in {"create", "reserve", "cancel", "fulfil"}
        /\ tx[t].step \in {"find", "take"} => tx[t].op = "reserve"
        /\ tx[t].step = "release" => tx[t].op \in {"cancel", "fulfil"}
        /\ tx[t].step = "commit" => order.status = ResultOf(tx[t].op)
        /\ before = Absent =>
             tx[t].op \in {"create", "reserve"} /\ DemandOf(order.lines) \in Demands
        /\ before # Absent =>
             /\ DemandOf(order.lines) = DemandOf(before.lines)
             /\ tx[t].op # "create"
             /\ tx[t].op = "reserve" => before.status = "DRAFT"
             /\ tx[t].op = "cancel" => before.status \in {"DRAFT", "RESERVED"}
             /\ tx[t].op = "fulfil" => before.status = "RESERVED"

\* The candidates of a line have what it asks for.
CandidatesFit(t) ==
    LET line == working[tx[t].doc].lines[tx[t].line]
    IN  tx[t].step = "take" =>
          tx[t].todo \subseteq BucketsOf(line.item, line.location)

\* Shipping what was reserved leaves as much available as before.
LeavesAvailable(t) ==
    tx[t].op = "fulfil" =>
      \A b \in Bucket : holder[b] = t =>
        AvailableQty(working[b]) = AvailableQty(committed[b])

FitOrders ==
    \A o \in Order : /\ committed[o] # Absent => Fits(committed[o])
                     /\ working[o] # Absent => Fits(working[o])

BookOK ==
    /\ FitOrders
    /\ \A t \in Txn : ~IsIdle(t) =>
         AsAsked(t) /\ CandidatesFit(t) /\ LeavesAvailable(t)

\* The inductive invariant of the refinement.
BookInv == HoldInv /\ ShippingInv /\ FillInv /\ BookOK

\* There is nothing to promise at the start.
LEMMA InitBook == Init => BookInv
  <1> SUFFICES ASSUME Init PROVE BookInv
    OBVIOUS
  <1> USE StockAssumption, OrdersAssumption
  <1>1. HoldInv /\ ShippingInv /\ FillInv
    BY InitHolds, InitShipping, InitFill
  <1>2. \A o \in Order : o \in Row /\ o \notin Bucket
    BY DEF Row
  <1>3. \A o \in Order : committed[o] = Absent /\ working[o] = Absent
    BY <1>2 DEF Init
  <1>4. \A t \in Txn : IsIdle(t)
    BY DEF Init, IsIdle, Idle
  <1> QED
    BY <1>1, <1>3, <1>4 DEF BookInv, BookOK, FitOrders

\* Reservations that keep their lines and buckets fit lines that keep what they
\* are for.
LEMMA SameFits ==
  ASSUME NEW order, NEW after, Fits(order),
         DOMAIN after.reservations = DOMAIN order.reservations,
         \A k \in DOMAIN order.reservations :
           /\ after.reservations[k].line = order.reservations[k].line
           /\ after.reservations[k].inventoryId = order.reservations[k].inventoryId,
         DOMAIN after.lines = DOMAIN order.lines,
         \A l \in DOMAIN order.lines :
           /\ after.lines[l].item = order.lines[l].item
           /\ after.lines[l].location = order.lines[l].location
  PROVE  Fits(after)
  BY DEF Fits

\* So does one more reservation of a bucket that has what its line asks for.
LEMMA FitsAfterAppend ==
  ASSUME NEW order \in OrderRow, NEW after \in OrderRow, Fits(order),
         NEW held \in Reservation,
         after.reservations = Append(order.reservations, held),
         after.lines = order.lines, held.line \in DOMAIN order.lines,
         held.inventoryId \in BucketsOf(order.lines[held.line].item,
                                        order.lines[held.line].location)
  PROVE  Fits(after)
  <1>1. order.reservations \in Seq(Reservation)
    BY OrderParts
  <1>2. /\ DOMAIN order.reservations = 1 .. Len(order.reservations)
        /\ Len(order.reservations) \in Nat
        /\ DOMAIN after.reservations = 1 .. Len(order.reservations) + 1
        /\ after.reservations[Len(order.reservations) + 1] = held
        /\ \A k \in DOMAIN order.reservations :
             after.reservations[k] = order.reservations[k]
    BY <1>1, LenProperties, AppendProperties
  <1>3. \A k \in DOMAIN after.reservations :
          k \in DOMAIN order.reservations \/ k = Len(order.reservations) + 1
    BY <1>2
  <1> QED
    BY <1>2, <1>3 DEF Fits

\* What a statement may do to the rows of its order and of buckets.
StatementOf(t, o) ==
    /\ committed' = committed
    /\ CanLock(t, o) /\ holder'[o] = t
    /\ \A p \in Order \ {o} : working'[p] = working[p] /\ holder'[p] = holder[p]
    /\ \A b \in Bucket :
         \/ holder'[b] = holder[b] /\ working'[b] = working[b]
         \/ CanLock(t, b) /\ holder'[b] = t
    /\ IsIdle(t) \/ tx[t].doc = o
    /\ tx'[t].doc = o
    /\ \A u \in Txn \ {t} : tx'[u] = tx[u]

\* It leaves the other transactions what they do.
LEMMA OthersBook ==
  ASSUME BookInv, NEW t \in Txn, NEW o \in Order, StatementOf(t, o),
         NEW u \in Txn, u # t, ~ IsIdle(u)'
  PROVE  AsAsked(u)' /\ CandidatesFit(u)' /\ LeavesAvailable(u)'
  <1>1. ProtocolInv /\ BookOK
    BY DEF BookInv, FillInv
  <1>2. tx'[u] = tx[u] /\ ~ IsIdle(u)
    BY DEF StatementOf, IsIdle
  <1>3. PICK p \in Order : p = tx[u].doc /\ holder[p] = u
    BY <1>1, <1>2, OwnOrder
  <1>4. p # o
    BY <1>3, StockAssumption DEF StatementOf, CanLock
  <1>5. working'[p] = working[p] /\ committed' = committed /\ tx'[u].doc = p
    BY <1>2, <1>3, <1>4 DEF StatementOf
  <1>6. AsAsked(u) /\ CandidatesFit(u) /\ LeavesAvailable(u)
    BY <1>1, <1>2 DEF BookOK
  <1>7. AsAsked(u)' /\ CandidatesFit(u)'
    BY <1>2, <1>3, <1>5, <1>6 DEF AsAsked, CandidatesFit
  <1>8. ASSUME NEW b \in Bucket, holder'[b] = u
        PROVE  holder[b] = u /\ working'[b] = working[b]
    BY <1>8, StockAssumption DEF StatementOf, CanLock
  <1>9. LeavesAvailable(u)'
    BY <1>2, <1>5, <1>6, <1>8 DEF LeavesAvailable
  <1> QED
    BY <1>7, <1>9

\* So what is left to show is what it makes of its own.
LEMMA StatementBooks ==
  ASSUME BookInv, NEW t \in Txn, NEW o \in Order, StatementOf(t, o),
         working'[o] # Absent => Fits(working'[o]),
         AsAsked(t)', CandidatesFit(t)', LeavesAvailable(t)'
  PROVE  BookOK'
  <1>1. FitOrders
    BY DEF BookInv, BookOK
  <1>2. FitOrders'
    BY <1>1 DEF FitOrders, StatementOf
  <1> QED
    BY <1>2, OthersBook DEF BookOK

\* A statement of a running transaction that leaves the lines of its order what
\* they ask, and goes on with the same request.
LEMMA GoesOnAsAsked ==
  ASSUME BookInv, NEW t \in Txn, ~ IsIdle(t), NEW o \in Order, o = tx[t].doc,
         committed' = committed,
         tx'[t].op = tx[t].op, tx'[t].doc = o,
         DemandOf(working'[o].lines) = DemandOf(working[o].lines),
         tx'[t].step \in {"find", "take"} => tx[t].op = "reserve",
         tx'[t].step = "release" => tx[t].op \in {"cancel", "fulfil"},
         tx'[t].step = "commit" => working'[o].status = ResultOf(tx[t].op)
  PROVE  AsAsked(t)'
  <1>1. AsAsked(t)
    BY DEF BookInv, BookOK
  <1> QED
    BY <1>1 DEF AsAsked

\* POST /orders: a new order asks what its form asks.
LEMMA CreateBooks ==
  ASSUME BookInv, ProtocolInv', NEW t \in Txn, NEW o \in Order,
         NEW form \in OrderForms, NEW now \in BOOLEAN, CreateOrder(t, o, form, now)
  PROVE  BookOK'
  <1> USE StockAssumption, OrdersAssumption
  <1>1. ProtocolInv /\ StockTypeOK /\ o \in Row /\ \A p \in Order : p \in Row
    BY DEF BookInv, FillInv, ProtocolInv, OrdersTypeOK, Row
  <1>2. PICK order :
          order = [status |-> "DRAFT",
                   lines |-> [l \in DOMAIN form |->
                                [item |-> form[l].item, location |-> form[l].location,
                                 quantity |-> form[l].quantity, reservedQty |-> 0]],
                   reservations |-> <<>>]
    OBVIOUS
  <1>3. InsertDocument(t, o, order)
    BY <1>2 DEF CreateOrder
  <1>4. /\ IsIdle(t) /\ CanLock(t, o) /\ UNCHANGED committed
        /\ committed[o] = Absent
        /\ holder' = [holder EXCEPT ![o] = t]
        /\ working' = [working EXCEPT ![o] = order]
    BY <1>3 DEF InsertDocument
  <1>5. /\ holder'[o] = t /\ working'[o] = order
        /\ \A r \in Row \ {o} : working'[r] = working[r] /\ holder'[r] = holder[r]
    BY <1>1, <1>4 DEF StockTypeOK
  <1>6. /\ tx'[t].doc = o /\ \A u \in Txn \ {t} : tx'[u] = tx[u]
        /\ \/ tx'[t].op = "reserve" /\ tx'[t].step = "find"
           \/ tx'[t].op = "create" /\ tx'[t].step = "commit"
    BY <1>1, ProceedsWith DEF CreateOrder
  <1>7. StatementOf(t, o)
    <2>1. \A p \in Order \ {o} : p \in Row \ {o}
      BY <1>1
    <2>2. \A b \in Bucket : b \in Row \ {o}
      BY DEF Row
    <2> QED
      BY <1>4, <1>5, <1>6, <2>1, <2>2 DEF StatementOf
  <1>8. Fits(order) /\ order.status = "DRAFT"
    <2>1. order.status = "DRAFT" /\ DOMAIN order.reservations = {}
      BY <1>2
    <2> QED
      BY <2>1 DEF Fits
  <1>9. DemandOf(order.lines) \in Demands
    <2>1. IsFiniteSet(DOMAIN form)
      <3>1. form \in Seq([item : Item, location : Location, quantity : Nat \ {0}])
        OBVIOUS
      <3>2. DOMAIN form = 1 .. Len(form) /\ Len(form) \in Nat
        BY <3>1, LenProperties
      <3> QED
        BY <3>2, FS_Interval
    <2>2. PICK lines : lines = order.lines
      OBVIOUS
    <2>3. DOMAIN lines = DOMAIN form
          /\ \A l \in DOMAIN form : /\ lines[l].item = form[l].item
                                    /\ lines[l].location = form[l].location
                                    /\ lines[l].quantity = form[l].quantity
      BY <1>2, <2>2
    <2>4. DemandOf(lines) = DemandOf(form)
      BY <2>1, <2>3, SameDemand
    <2> QED
      BY <2>2, <2>4 DEF Demands
  <1>10. AsAsked(t)'
    BY <1>4, <1>5, <1>6, <1>8, <1>9 DEF AsAsked, ResultOf
  <1>11. CandidatesFit(t)' /\ LeavesAvailable(t)'
    BY <1>6 DEF CandidatesFit, LeavesAvailable
  <1> QED
    BY <1>5, <1>7, <1>8, <1>10, <1>11, StatementBooks

\* A request about an order that is there finds it in a status it may start from.
LEMMA BeginBooks ==
  ASSUME BookInv, NEW t \in Txn, NEW o \in Order, LockDocument(t, o),
         NEW op, NEW step, NEW line, Proceed(t, op, step, o, line),
         \/ op = "reserve" /\ step = "find" /\ committed[o].status = "DRAFT"
         \/ /\ op = "cancel" /\ step = "release"
            /\ committed[o].status \in {"DRAFT", "RESERVED"}
         \/ op = "fulfil" /\ step = "release" /\ committed[o].status = "RESERVED"
  PROVE  BookOK'
  <1> USE StockAssumption, OrdersAssumption
  <1>1. ProtocolInv /\ StockTypeOK /\ o \in Row /\ \A p \in Order : p \in Row
    BY DEF BookInv, FillInv, ProtocolInv, OrdersTypeOK, Row
  <1>2. /\ IsIdle(t) /\ CanLock(t, o) /\ UNCHANGED <<committed, working>>
        /\ committed[o] # Absent
        /\ holder' = [holder EXCEPT ![o] = t]
    BY DEF LockDocument
  <1>3. /\ holder'[o] = t
        /\ \A r \in Row \ {o} : holder'[r] = holder[r]
    BY <1>1, <1>2 DEF StockTypeOK
  <1>4. working'[o] = committed[o]
    BY <1>1, <1>2 DEF CanLock, ProtocolInv, LocksOK
  <1>5. /\ tx'[t].op = op /\ tx'[t].step = step /\ tx'[t].doc = o
        /\ \A u \in Txn \ {t} : tx'[u] = tx[u]
    BY <1>1, ProceedsWith
  <1>6. StatementOf(t, o)
    <2>1. \A p \in Order \ {o} : p \in Row \ {o}
      BY <1>1
    <2>2. \A b \in Bucket : b \in Row \ {o}
      BY DEF Row
    <2> QED
      BY <1>2, <1>3, <1>5, <2>1, <2>2 DEF StatementOf
  <1>7. Fits(working'[o])
    BY <1>2, <1>4 DEF BookInv, BookOK, FitOrders
  <1>8. AsAsked(t)'
    BY <1>2, <1>4, <1>5 DEF AsAsked
  <1>9. CandidatesFit(t)'
    BY <1>5 DEF CandidatesFit
  <1>10. \A b \in Bucket : holder'[b] # t
    <2>1. \A b \in Bucket : b \in Row \ {o}
      BY DEF Row
    <2> QED
      BY <1>1, <1>2, <1>3, <2>1, IdleHoldsNothing
  <1>11. LeavesAvailable(t)'
    BY <1>10 DEF LeavesAvailable
  <1> QED
    BY <1>6, <1>7, <1>8, <1>9, <1>11, StatementBooks

\* The statement that begins a request.
LEMMA RequestBooks ==
  ASSUME BookInv, ProtocolInv', NEW t \in Txn, OrderRequest(t)
  PROVE  BookOK'
  <1>1. ASSUME NEW o \in Order, LockDocument(t, o)
        PROVE  committed[o] \in OrderRow /\ Settled(committed[o])
    BY <1>1 DEF LockDocument, BookInv, FillInv, FillOK, ProtocolInv, OrdersTypeOK
  <1>2. ASSUME NEW o \in Order, BeginReserve(t, o)
        PROVE  BookOK'
    <2>1. /\ LockDocument(t, o)
          /\ committed[o].status \notin {"CANCELLED", "FULFILLED"}
          /\ Outstanding(committed[o]) # {}
          /\ Proceed(t, "reserve", "find", o, Min(Outstanding(committed[o])))
      BY <1>2 DEF BeginReserve
    <2>2. PICK order \in OrderRow : order = committed[o] /\ Settled(order)
      BY <1>1, <2>1
    <2>3. PICK l : l \in Outstanding(order)
      BY <2>1, <2>2
    <2>4. order.status = "DRAFT"
      BY <2>1, <2>2, <2>3, OutstandingIsDraft
    <2> QED
      BY <2>1, <2>2, <2>4, BeginBooks
  <1>3. ASSUME NEW o \in Order, BeginCancel(t, o)
        PROVE  BookOK'
    <2>1. /\ LockDocument(t, o)
          /\ committed[o].status \notin {"CANCELLED", "FULFILLED"}
          /\ Proceed(t, "cancel", "release", o, 0)
      BY <1>3 DEF BeginCancel
    <2>2. committed[o].status \in {"DRAFT", "RESERVED"}
      BY <1>1, <2>1 DEF OrderRow, OrderStatus
    <2> QED
      BY <2>1, <2>2, BeginBooks
  <1>4. ASSUME NEW o \in Order, BeginFulfil(t, o)
        PROVE  BookOK'
    <2>1. /\ LockDocument(t, o)
          /\ committed[o].status = "RESERVED"
          /\ Proceed(t, "fulfil", "release", o, 0)
      BY <1>4 DEF BeginFulfil
    <2> QED
      BY <2>1, BeginBooks
  <1> QED
    BY <1>2, <1>3, <1>4, CreateBooks DEF OrderRequest

\* The unlocked read: the candidates have what the line asks for.
LEMMA FindIsFit ==
  ASSUME BookInv, NEW t \in Txn, tx[t].doc \in Order, FindBuckets(t)
  PROVE  BookOK'
  <1>1. PICK o \in Order : o = tx[t].doc
    OBVIOUS
  <1>2. ProtocolInv /\ StockTypeOK /\ ~ IsIdle(t) /\ tx[t].step = "find"
    BY DEF BookInv, FillInv, ProtocolInv, OrdersTypeOK, FindBuckets, IsIdle
  <1>3. holder[o] = t /\ working[o] \in OrderRow /\ tx[t] \in TxRow
    BY <1>1, <1>2, OwnOrder
  <1>4. PICK line : line = working[o].lines[tx[t].line]
    OBVIOUS
  <1>5. PICK todo : todo = AvailableBuckets(t, line.item, line.location)
    OBVIOUS
  <1>6. /\ UNCHANGED <<committed, working, holder>>
        /\ tx'[t].step = "take" /\ tx'[t].todo = todo /\ tx'[t].op = tx[t].op
        /\ tx'[t].doc = o /\ tx'[t].line = tx[t].line
        /\ \A u \in Txn \ {t} : tx'[u] = tx[u]
    <2>1. PICK remaining : tx' = [tx EXCEPT ![t].step = "take",
                                            ![t].remaining = remaining,
                                            ![t].todo = todo]
      BY <1>1, <1>4, <1>5 DEF FindBuckets
    <2>2. UNCHANGED <<committed, working, holder>>
      BY DEF FindBuckets, rows
    <2> QED
      BY <1>1, <1>2, <1>3, <2>1, <2>2 DEF StockTypeOK, TxRow
  <1>7. StatementOf(t, o)
    BY <1>1, <1>3, <1>6 DEF StatementOf, CanLock
  <1>8. working'[o] # Absent => Fits(working'[o])
    BY <1>6 DEF BookInv, BookOK, FitOrders
  <1>9. AsAsked(t)'
    <2>1. tx[t].op = "reserve"
      BY <1>2 DEF BookInv, BookOK, AsAsked
    <2> QED
      BY <1>1, <1>2, <1>6, <2>1, GoesOnAsAsked
  <1>10. CandidatesFit(t)'
    BY <1>4, <1>5, <1>6 DEF CandidatesFit, AvailableBuckets
  <1>11. LeavesAvailable(t)'
    BY <1>2, <1>6 DEF LeavesAvailable, BookInv, BookOK
  <1> QED
    BY <1>7, <1>8, <1>9, <1>10, <1>11, StatementBooks

\* Lines that keep what they ask for go on asking it, and fit their reservations.
LEMMA SameAsked ==
  ASSUME NEW order \in OrderRow, NEW after, Fits(order),
         DOMAIN after.reservations = DOMAIN order.reservations,
         \A k \in DOMAIN order.reservations :
           /\ after.reservations[k].line = order.reservations[k].line
           /\ after.reservations[k].inventoryId = order.reservations[k].inventoryId,
         DOMAIN after.lines = DOMAIN order.lines,
         \A l \in DOMAIN order.lines :
           /\ after.lines[l].item = order.lines[l].item
           /\ after.lines[l].location = order.lines[l].location
           /\ after.lines[l].quantity = order.lines[l].quantity
  PROVE  DemandOf(after.lines) = DemandOf(order.lines) /\ Fits(after)
  <1>1. PICK lines, others : lines = order.lines /\ others = after.lines
    OBVIOUS
  <1>2. IsFiniteSet(DOMAIN lines)
    BY <1>1, DemandType
  <1>3. DemandOf(others) = DemandOf(lines)
    BY <1>1, <1>2, SameDemand
  <1> QED
    BY <1>1, <1>3, SameFits

\* What a line has reserved is not what it asks for.
LEMMA LineAsks ==
  ASSUME NEW order \in OrderRow, NEW l \in DOMAIN order.lines, NEW q \in Int,
         NEW after, after = [order EXCEPT !.lines[l].reservedQty = q]
  PROVE  \A m \in DOMAIN order.lines :
           /\ after.lines[m].item = order.lines[m].item
           /\ after.lines[m].location = order.lines[m].location
           /\ after.lines[m].quantity = order.lines[m].quantity
  <1>1. order.lines[l] \in OrderLine
    BY OrderParts
  <1>2. PICK lines : lines = [order.lines EXCEPT ![l].reservedQty = q]
    OBVIOUS
  <1>3. after.lines = lines
    BY <1>2 DEF OrderRow
  <1>4. lines[l] = [order.lines[l] EXCEPT !.reservedQty = q]
    BY <1>2
  <1>5. \A m \in DOMAIN order.lines \ {l} : lines[m] = order.lines[m]
    BY <1>2
  <1> QED
    BY <1>1, <1>3, <1>4, <1>5 DEF OrderLine

\* Nor are the lines of a closed order for anything else.
LEMMA ClosedAsks ==
  ASSUME NEW order \in OrderRow, NEW status,
         NEW after, after = Closed(order, status)
  PROVE  /\ DOMAIN after.lines = DOMAIN order.lines
         /\ \A m \in DOMAIN order.lines :
              /\ after.lines[m].item = order.lines[m].item
              /\ after.lines[m].location = order.lines[m].location
              /\ after.lines[m].quantity = order.lines[m].quantity
  <1>1. after.lines = [l \in DOMAIN order.lines |->
                         [order.lines[l] EXCEPT !.reservedQty = 0]]
    BY DEF Closed, OrderRow
  <1>2. \A m \in DOMAIN order.lines :
          /\ order.lines[m] \in OrderLine
          /\ after.lines[m] = [order.lines[m] EXCEPT !.reservedQty = 0]
    BY <1>1, OrderParts
  <1> QED
    BY <1>1, <1>2 DEF OrderLine

\* The end of reserveLine.
LEMMA FinishLineBooks ==
  ASSUME BookInv, NEW t \in Txn, tx[t].doc \in Order, FinishLine(t)
  PROVE  BookOK'
  <1> USE StockAssumption, OrdersAssumption
  <1>1. PICK o \in Order : o = tx[t].doc
    OBVIOUS
  <1>2. ProtocolInv /\ StockTypeOK /\ ~ IsIdle(t) /\ tx[t].step = "take"
    BY DEF BookInv, FillInv, ProtocolInv, OrdersTypeOK, FinishLine, IsIdle
  <1>3. holder[o] = t /\ o \in Row /\ o \notin Bucket
    BY <1>1, <1>2, OwnOrder
  <1>4. PICK order \in OrderRow : order = working[o]
    BY <1>1, <1>2, OwnOrder
  <1>5. PICK l \in DOMAIN order.lines : l = tx[t].line
    BY <1>1, <1>2, <1>4 DEF ProtocolInv, ControlOK
  <1>6. PICK q \in Int : q = order.lines[l].reservedQty
                               + (order.lines[l].quantity - order.lines[l].reservedQty)
    <2>1. order.lines[l] \in OrderLine
      BY OrderParts
    <2> QED
      BY <2>1 DEF OrderLine
  <1>7. PICK after : after = [order EXCEPT !.lines[l].reservedQty = q]
    OBVIOUS
  <1>8. /\ after \in OrderRow /\ after.reservations = order.reservations
        /\ DOMAIN after.lines = DOMAIN order.lines
    BY <1>7, LineUpdated
  <1>9. /\ IF Outstanding(after) # {}
           THEN /\ working' = [working EXCEPT ![o] = after]
                /\ Proceed(t, "reserve", "find", o, Min(Outstanding(after)))
           ELSE /\ working' = [working EXCEPT
                                 ![o] = [after EXCEPT !.status = "RESERVED"]]
                /\ Proceed(t, "reserve", "commit", o, 0)
        /\ UNCHANGED <<committed, holder>>
    <2>1. after = [order EXCEPT !.lines[l].reservedQty =
                     @ + (order.lines[l].quantity - @)]
      BY <1>6, <1>7
    <2> QED
      BY <1>1, <1>4, <1>5, <2>1 DEF FinishLine
  <1>10. DOMAIN working = Row /\ (\A p \in Order : p \in Row)
         /\ (\A b \in Bucket : b \in Row)
    BY <1>2 DEF StockTypeOK, Row
  <1>11. /\ \A r \in Row \ {o} : working'[r] = working[r]
         /\ tx'[t].doc = o /\ tx'[t].op = "reserve"
         /\ \A u \in Txn \ {t} : tx'[u] = tx[u]
         /\ UNCHANGED <<committed, holder>>
    BY <1>2, <1>9, <1>10, ProceedsWith
  <1>12. PICK final :
           /\ final = working'[o]
           /\ final.lines = after.lines /\ final.reservations = after.reservations
           /\ \/ tx'[t].step = "find"
              \/ tx'[t].step = "commit" /\ final.status = "RESERVED"
    <2>1. CASE Outstanding(after) # {}
      BY <1>2, <1>3, <1>9, <1>10, <2>1, ProceedsWith
    <2>2. CASE Outstanding(after) = {}
      <3>1. PICK final : final = [after EXCEPT !.status = "RESERVED"]
        OBVIOUS
      <3>2. final.lines = after.lines /\ final.reservations = after.reservations
            /\ final.status = "RESERVED"
        BY <1>8, <3>1 DEF OrderRow
      <3>3. tx'[t].step = "commit" /\ final = working'[o]
        BY <1>2, <1>3, <1>9, <1>10, <2>2, <3>1, ProceedsWith
      <3> QED
        BY <3>2, <3>3
    <2> QED
      BY <2>1, <2>2
  <1>13. Fits(order)
    BY <1>4, OrdersAssumption DEF BookInv, BookOK, FitOrders
  <1>14. DemandOf(final.lines) = DemandOf(order.lines) /\ Fits(final)
    <2>1. \A m \in DOMAIN order.lines :
            /\ final.lines[m].item = order.lines[m].item
            /\ final.lines[m].location = order.lines[m].location
            /\ final.lines[m].quantity = order.lines[m].quantity
      BY <1>7, <1>12, LineAsks
    <2> QED
      BY <1>8, <1>12, <1>13, <2>1, SameAsked
  <1>15. StatementOf(t, o)
    <2>1. \A p \in Order \ {o} : p \in Row \ {o}
      BY <1>10
    <2>2. \A b \in Bucket : b \in Row \ {o}
      BY <1>3, <1>10
    <2> QED
      BY <1>1, <1>3, <1>11, <2>1, <2>2 DEF StatementOf, CanLock
  <1>16. AsAsked(t)'
    <2>1. tx[t].op = "reserve"
      BY <1>2 DEF BookInv, BookOK, AsAsked
    <2>2. ResultOf("reserve") = "RESERVED"
      BY DEF ResultOf
    <2> QED
      BY <1>1, <1>2, <1>4, <1>11, <1>12, <1>14, <2>1, <2>2, GoesOnAsAsked
  <1>17. CandidatesFit(t)' /\ LeavesAvailable(t)'
    BY <1>11, <1>12 DEF CandidatesFit, LeavesAvailable
  <1> QED
    BY <1>12, <1>14, <1>15, <1>16, <1>17, StatementBooks

\* The end of cancel and fulfil.
LEMMA FinishReleaseBooks ==
  ASSUME BookInv, NEW t \in Txn, tx[t].doc \in Order, FinishRelease(t)
  PROVE  BookOK'
  <1> USE StockAssumption, OrdersAssumption
  <1>1. PICK o \in Order : o = tx[t].doc
    OBVIOUS
  <1>2. ProtocolInv /\ StockTypeOK /\ ~ IsIdle(t) /\ tx[t].step = "release"
    BY DEF BookInv, FillInv, ProtocolInv, OrdersTypeOK, FinishRelease, IsIdle
  <1>3. holder[o] = t /\ o \in Row /\ o \notin Bucket
    BY <1>1, <1>2, OwnOrder
  <1>4. PICK order \in OrderRow : order = working[o]
    BY <1>1, <1>2, OwnOrder
  <1>5. PICK status \in OrderStatus :
          status = IF tx[t].op = "fulfil" THEN "FULFILLED" ELSE "CANCELLED"
    BY DEF OrderStatus
  <1>6. PICK closed : closed = Closed(order, status)
    OBVIOUS
  <1>7. /\ working' = [working EXCEPT ![o] = closed]
        /\ Proceed(t, tx[t].op, "commit", o, 0)
        /\ UNCHANGED <<committed, holder>>
    BY <1>1, <1>4, <1>5, <1>6 DEF FinishRelease
  <1>8. /\ closed.reservations = order.reservations
        /\ closed.status = status
    BY <1>6, ClosedOrder
  <1>9. DOMAIN working = Row /\ (\A p \in Order : p \in Row)
        /\ (\A b \in Bucket : b \in Row)
    BY <1>2 DEF StockTypeOK, Row
  <1>10. /\ working'[o] = closed
         /\ \A r \in Row \ {o} : working'[r] = working[r]
         /\ tx'[t].doc = o /\ tx'[t].op = tx[t].op /\ tx'[t].step = "commit"
         /\ \A u \in Txn \ {t} : tx'[u] = tx[u]
         /\ UNCHANGED <<committed, holder>>
    BY <1>2, <1>3, <1>7, <1>9, ProceedsWith
  <1>11. Fits(order)
    BY <1>4, OrdersAssumption DEF BookInv, BookOK, FitOrders
  <1>12. DemandOf(closed.lines) = DemandOf(order.lines) /\ Fits(closed)
    BY <1>6, <1>8, <1>11, ClosedAsks, SameAsked
  <1>13. StatementOf(t, o)
    <2>1. \A p \in Order \ {o} : p \in Row \ {o}
      BY <1>9
    <2>2. \A b \in Bucket : b \in Row \ {o}
      BY <1>3, <1>9
    <2> QED
      BY <1>1, <1>3, <1>10, <2>1, <2>2 DEF StatementOf, CanLock
  <1>14. AsAsked(t)'
    <2>1. tx[t].op \in {"cancel", "fulfil"}
      BY <1>2 DEF BookInv, BookOK, AsAsked
    <2>2. status = ResultOf(tx[t].op)
      BY <1>5, <2>1 DEF ResultOf
    <2> QED
      BY <1>1, <1>2, <1>4, <1>8, <1>10, <1>12, <2>1, <2>2, GoesOnAsAsked
  <1>15. CandidatesFit(t)'
    BY <1>10 DEF CandidatesFit
  <1>16. LeavesAvailable(t)'
    <2>1. \A b \in Bucket : working'[b] = working[b]
      BY <1>3, <1>9, <1>10
    <2> QED
      BY <1>2, <1>10, <2>1 DEF LeavesAvailable, BookInv, BookOK
  <1> QED
    BY <1>10, <1>12, <1>13, <1>14, <1>15, <1>16, StatementBooks

\* TakeBucket: what is held has what the line asks for.
LEMMA TakeBooks ==
  ASSUME BookInv, NEW t \in Txn, tx[t].doc \in Order, TakeBucket(t)
  PROVE  BookOK'
  <1> USE StockAssumption, OrdersAssumption
  <1>1. ProtocolInv /\ StockTypeOK
    BY DEF BookInv, FillInv, ProtocolInv, OrdersTypeOK
  <1>2. PICK o \in Order, b \in Bucket : TakesFrom(t, o, b)
    BY <1>1, TakeFacts
  <1>3. /\ o = tx[t].doc /\ ~ IsIdle(t) /\ tx[t].step = "take"
        /\ tx[t].line \in DOMAIN working[o].lines
        /\ b \in tx[t].todo
        /\ working[b] \in BucketRow /\ b \in Row
        /\ CanLock(t, b)
        /\ holder' = [holder EXCEPT ![b] = t]
        /\ UNCHANGED committed
        /\ \/ SkipsBucket(t, b)
           \/ \E take \in Nat \ {0} : HoldsUnits(t, o, b, take)
    BY <1>2 DEF TakesFrom
  <1>4. holder[o] = t /\ o \in Row /\ working[o] \in OrderRow /\ tx[t] \in TxRow
    BY <1>1, <1>3, OwnOrder
  <1>5. /\ \A p \in Order : p \in Row /\ p # b
        /\ \A c \in Bucket : c \in Row /\ c # o
    BY DEF Row
  <1>6. holder'[b] = t /\ \A r \in Row \ {b} : holder'[r] = holder[r]
    BY <1>1, <1>3 DEF StockTypeOK
  <1>7. tx[t].op = "reserve" /\ CandidatesFit(t) /\ Fits(working[o])
    BY <1>3, <1>4 DEF BookInv, BookOK, FitOrders, AsAsked
  <1>8. b \in BucketsOf(working[o].lines[tx[t].line].item,
                        working[o].lines[tx[t].line].location)
    BY <1>3, <1>7 DEF CandidatesFit
  <1>9. ASSUME working'[o] \in OrderRow, Fits(working'[o]),
               working'[o].lines = working[o].lines,
               \A r \in Row \ {b, o} : working'[r] = working[r],
               tx'[t].step = "take", tx'[t].op = tx[t].op, tx'[t].doc = o,
               tx'[t].line = tx[t].line, tx'[t].todo \subseteq tx[t].todo,
               \A u \in Txn \ {t} : tx'[u] = tx[u]
        PROVE  BookOK'
    <2>1. StatementOf(t, o)
      <3>1. \A p \in Order \ {o} : p \in Row \ {b, o} /\ p \in Row \ {b}
        BY <1>5
      <3>2. \A c \in Bucket \ {b} : c \in Row \ {b, o} /\ c \in Row \ {b}
        BY <1>5
      <3>3. holder'[o] = t /\ CanLock(t, o)
        BY <1>4, <1>5, <1>6 DEF CanLock
      <3>4. \A p \in Order \ {o} : working'[p] = working[p] /\ holder'[p] = holder[p]
        BY <1>6, <1>9, <3>1
      <3>5. \A c \in Bucket :
              \/ holder'[c] = holder[c] /\ working'[c] = working[c]
              \/ CanLock(t, c) /\ holder'[c] = t
        BY <1>3, <1>6, <1>9, <3>2
      <3> QED
        BY <1>3, <1>9, <3>3, <3>4, <3>5 DEF StatementOf
    <2>2. AsAsked(t)'
      BY <1>3, <1>7, <1>9, GoesOnAsAsked
    <2>3. CandidatesFit(t)'
      BY <1>3, <1>7, <1>9 DEF CandidatesFit
    <2>4. LeavesAvailable(t)'
      BY <1>7, <1>9 DEF LeavesAvailable
    <2> QED
      BY <1>9, <2>1, <2>2, <2>3, <2>4, StatementBooks
  <1>10. CASE SkipsBucket(t, b)
    <2>1. /\ working' = working
          /\ tx'[t].step = "take" /\ tx'[t].op = tx[t].op
          /\ tx'[t].doc = o /\ tx'[t].line = tx[t].line
          /\ tx'[t].todo \subseteq tx[t].todo
          /\ \A u \in Txn \ {t} : tx'[u] = tx[u]
      BY <1>1, <1>3, <1>4, <1>10 DEF SkipsBucket, StockTypeOK, TxRow
    <2> QED
      BY <1>4, <1>7, <1>9, <2>1
  <1>11. ASSUME NEW take \in Nat \ {0}, HoldsUnits(t, o, b, take)
         PROVE  BookOK'
    <2>1. PICK held : held = [line |-> tx[t].line, inventoryId |-> b,
                              quantity |-> take, status |-> "ACTIVE"]
      OBVIOUS
    <2>2. /\ tx[t].line \in Nat /\ working[o] \in OrderRow
          /\ working[b] \in BucketRow
      BY <1>3, <1>4 DEF TxRow
    <2>3. /\ held \in Reservation
          /\ working'[o].reservations = Append(working[o].reservations, held)
          /\ working'[o].lines = working[o].lines
          /\ working'[o] \in OrderRow
          /\ \A r \in Row \ {b, o} : working'[r] = working[r]
      BY <1>1, <1>11, <2>1, <2>2, HeldRows
    <2>4. /\ tx'[t].step = "take" /\ tx'[t].op = tx[t].op
          /\ tx'[t].doc = o /\ tx'[t].line = tx[t].line
          /\ tx'[t].todo \subseteq tx[t].todo
          /\ \A u \in Txn \ {t} : tx'[u] = tx[u]
      BY <1>1, <1>3, <1>4, <1>11 DEF HoldsUnits, StockTypeOK, TxRow
    <2>5. PICK order \in OrderRow, after \in OrderRow :
            order = working[o] /\ after = working'[o]
      BY <1>4, <2>3
    <2>6. Fits(after)
      <3>1. held.line \in DOMAIN order.lines
            /\ held.inventoryId \in BucketsOf(order.lines[held.line].item,
                                              order.lines[held.line].location)
        BY <1>3, <1>8, <2>1, <2>5
      <3> QED
        BY <1>7, <2>3, <2>5, <3>1, FitsAfterAppend
    <2> QED
      BY <1>9, <2>3, <2>4, <2>5, <2>6
  <1> QED
    BY <1>3, <1>10, <1>11

\* ReleaseReservation: what is shipped was reserved, so that as much is available.
LEMMA ReleaseBooks ==
  ASSUME BookInv, NEW t \in Txn, tx[t].doc \in Order, ReleaseReservation(t)
  PROVE  BookOK'
  <1> USE StockAssumption, OrdersAssumption
  <1>1. ProtocolInv /\ StockTypeOK
    BY DEF BookInv, FillInv, ProtocolInv, OrdersTypeOK
  <1>2. PICK o \in Order, b \in Bucket, q \in Nat \ {0}, shipped \in Nat :
          \E k \in DOMAIN working[o].reservations :
            ReleasesUnits(t, o, b, k, q, shipped)
    BY <1>1, ReleaseFacts
  <1>3. PICK k \in DOMAIN working[o].reservations :
          ReleasesUnits(t, o, b, k, q, shipped)
    BY <1>2
  <1>4. /\ o = tx[t].doc /\ ~ IsIdle(t) /\ tx[t].step = "release"
        /\ working[o].reservations[k].inventoryId = b
        /\ shipped = Shipped(t, q)
        /\ CanLock(t, b)
        /\ holder' = [holder EXCEPT ![b] = t]
        /\ UNCHANGED <<committed, tx>>
    BY <1>3 DEF ReleasesUnits
  <1>5. holder[o] = t /\ o \in Row /\ working[o] \in OrderRow
    BY <1>1, <1>4, OwnOrder
  <1>6. working[b] \in BucketRow /\ b \in Row
    BY <1>1, <1>4, <1>5, BucketVersions DEF ProtocolInv, BucketsOK
  <1>7. /\ working'[b] = Moved(working[b], -shipped, -q)
        /\ working'[b] \in BucketRow
        /\ working'[o] \in OrderRow
        /\ working'[o].lines = working[o].lines
        /\ working'[o].status = working[o].status
        /\ DOMAIN working'[o].reservations = DOMAIN working[o].reservations
        /\ \A j \in DOMAIN working[o].reservations :
             working'[o].reservations[j] =
               IF j = k THEN [working[o].reservations[k] EXCEPT !.status = Outcome(t)]
                        ELSE working[o].reservations[j]
        /\ \A r \in Row \ {b, o} : working'[r] = working[r]
    BY <1>1, <1>3, <1>5, <1>6, ReleasedRows
  <1>8. /\ \A p \in Order : p \in Row /\ p # b
        /\ \A c \in Bucket : c \in Row /\ c # o
    BY DEF Row
  <1>9. holder'[b] = t /\ \A r \in Row \ {b} : holder'[r] = holder[r]
    BY <1>1, <1>4, <1>6 DEF StockTypeOK
  <1>10. StatementOf(t, o)
    <2>1. \A p \in Order \ {o} : p \in Row \ {b, o} /\ p \in Row \ {b}
      BY <1>8
    <2>2. \A c \in Bucket \ {b} : c \in Row \ {b, o} /\ c \in Row \ {b}
      BY <1>8
    <2>3. holder'[o] = t /\ CanLock(t, o)
      BY <1>5, <1>8, <1>9 DEF CanLock
    <2>4. \A p \in Order \ {o} : working'[p] = working[p] /\ holder'[p] = holder[p]
      BY <1>7, <1>9, <2>1
    <2>5. \A c \in Bucket :
            \/ holder'[c] = holder[c] /\ working'[c] = working[c]
            \/ CanLock(t, c) /\ holder'[c] = t
      BY <1>4, <1>7, <1>9, <2>2
    <2> QED
      BY <1>4, <2>3, <2>4, <2>5 DEF StatementOf
  <1>11. PICK order \in OrderRow, after \in OrderRow :
           order = working[o] /\ after = working'[o]
    BY <1>5, <1>7
  <1>12. Fits(after)
    <2>1. Fits(order)
      BY <1>11 DEF BookInv, BookOK, FitOrders
    <2>2. order.reservations[k] \in Reservation
      BY <1>11, OrderParts
    <2>3. PICK outcome : outcome = Outcome(t)
      OBVIOUS
    <2>4. \A j \in DOMAIN order.reservations :
            after.reservations[j] =
              IF j = k THEN [order.reservations[k] EXCEPT !.status = outcome]
                       ELSE order.reservations[j]
      BY <1>7, <1>11, <2>3
    <2>5. \A j \in DOMAIN order.reservations :
            /\ after.reservations[j].line = order.reservations[j].line
            /\ after.reservations[j].inventoryId = order.reservations[j].inventoryId
      BY <2>2, <2>4 DEF Reservation
    <2> QED
      BY <1>7, <1>11, <2>1, <2>5, SameFits
  <1>13. AsAsked(t)'
    <2>1. AsAsked(t)
      BY <1>4 DEF BookInv, BookOK
    <2>2. tx'[t] = tx[t]
      BY <1>4
    <2>3. DemandOf(working'[o].lines) = DemandOf(working[o].lines)
      BY <1>7
    <2>4. tx[t].op \in {"cancel", "fulfil"}
      BY <1>4, <2>1 DEF AsAsked
    <2> QED
      BY <1>4, <2>2, <2>3, <2>4, GoesOnAsAsked
  <1>14. CandidatesFit(t)'
    BY <1>4 DEF CandidatesFit
  <1>15. LeavesAvailable(t)'
    <2> SUFFICES ASSUME tx[t].op = "fulfil", NEW c \in Bucket, holder'[c] = t
                 PROVE  AvailableQty(working'[c]) = AvailableQty(committed[c])
      BY <1>4 DEF LeavesAvailable
    <2>1. LeavesAvailable(t)
      BY <1>4 DEF BookInv, BookOK
    <2>2. CASE c # b
      <3>1. c \in Row \ {b, o} /\ c \in Row \ {b}
        BY <1>8, <2>2
      <3>2. working'[c] = working[c] /\ holder[c] = t
        BY <1>7, <1>9, <3>1
      <3> QED
        BY <2>1, <3>2 DEF LeavesAvailable
    <2>3. CASE c = b
      <3>1. AvailableQty(working[b]) = AvailableQty(committed[b])
        <4>1. CASE holder[b] = t
          BY <2>1, <4>1 DEF LeavesAvailable
        <4>2. CASE holder[b] = None
          BY <1>1, <1>6, <4>2 DEF ProtocolInv, LocksOK
        <4> QED
          BY <1>4, <4>1, <4>2 DEF CanLock
      <3>2. shipped = q
        BY <1>4 DEF Shipped
      <3>3. PICK row, then : row = working[b] /\ then = working'[b]
        OBVIOUS
      <3>4. row \in BucketRow /\ then = Moved(row, -q, -q)
        BY <1>6, <1>7, <3>2, <3>3
      <3>5. then \in BucketRow /\ AvailableQty(then) = AvailableQty(row)
        <4>1. then.physicalQty = row.physicalQty - q
              /\ then.reservedQty = row.reservedQty - q
          BY <3>4 DEF Moved, BucketRow
        <4>2. Quantities(then) = then /\ Quantities(row) = row
          BY <1>7, <3>3, <3>4 DEF Quantities
        <4> QED
          BY <1>7, <3>3, <3>4, <4>1, <4>2 DEF AvailableQty, BucketRow
      <3> QED
        BY <2>3, <3>1, <3>3, <3>5
    <2> QED
      BY <2>2, <2>3
  <1> QED
    BY <1>10, <1>11, <1>12, <1>13, <1>14, <1>15, StatementBooks

\* The end of a transaction.
LEMMA EndBooks ==
  ASSUME BookInv, NEW t \in Txn,
         (tx[t].doc \in Order /\ OrderCommit(t)) \/ Rollback(t)
  PROVE  BookOK'
  <1> USE StockAssumption
  <1>1. ProtocolInv /\ StockTypeOK /\ BookOK
    BY DEF BookInv, FillInv, ProtocolInv, OrdersTypeOK
  <1>2. /\ tx'[t] = Idle
        /\ \A u \in Txn \ {t} : tx'[u] = tx[u]
        /\ \A r \in Row : /\ holder'[r] = IF holder[r] = t THEN None ELSE holder[r]
                          /\ holder[r] # t => /\ working'[r] = working[r]
                                              /\ committed'[r] = committed[r]
                          /\ working'[r] \in {working[r], committed[r]}
                          /\ committed'[r] \in {working[r], committed[r]}
    BY <1>1 DEF OrderCommit, Commit, Rollback, Finish, StockTypeOK
  <1>3. (\A p \in Order : p \in Row) /\ (\A b \in Bucket : b \in Row)
    BY OrdersAssumption DEF Row
  <1>4. FitOrders'
    BY <1>1, <1>2, <1>3 DEF BookOK, FitOrders
  <1>5. ASSUME NEW u \in Txn, ~ IsIdle(u)'
        PROVE  AsAsked(u)' /\ CandidatesFit(u)' /\ LeavesAvailable(u)'
    <2>1. u # t /\ tx'[u] = tx[u] /\ ~ IsIdle(u)
      BY <1>2, <1>5 DEF IsIdle, Idle
    <2>2. PICK p \in Order : p = tx[u].doc /\ holder[p] = u
      BY <1>1, <2>1, OwnOrder
    <2>3. working'[p] = working[p] /\ committed'[p] = committed[p] /\ tx'[u].doc = p
      BY <1>2, <1>3, <2>1, <2>2
    <2>4. AsAsked(u) /\ CandidatesFit(u) /\ LeavesAvailable(u)
      BY <1>1, <2>1 DEF BookOK
    <2>5. AsAsked(u)' /\ CandidatesFit(u)'
      BY <2>1, <2>2, <2>3, <2>4 DEF AsAsked, CandidatesFit
    <2>6. \A b \in Bucket : holder'[b] = u =>
            /\ holder[b] = u
            /\ working'[b] = working[b] /\ committed'[b] = committed[b]
      BY <1>2, <1>3, <2>1
    <2> QED
      BY <2>1, <2>4, <2>5, <2>6 DEF LeavesAvailable
  <1> QED
    BY <1>4, <1>5 DEF BookOK

\* Every step of the specification.
LEMMA StepBooks ==
  ASSUME BookInv, [OrdersNext]_vars
  PROVE  BookInv'
  <1>1. HoldInv' /\ ShippingInv' /\ FillInv'
    BY StepHolds, StepShips, StepFills DEF BookInv
  <1>2. CASE UNCHANGED vars
    <2>1. BookOK
      BY DEF BookInv
    <2>2. BookOK'
      BY <1>2, <2>1
         DEF vars, BookOK, FitOrders, AsAsked, CandidatesFit, LeavesAvailable, IsIdle
    <2> QED
      BY <1>1, <2>2 DEF BookInv
  <1>3. CASE OrdersNext
    <2>1. PICK t \in Txn : OrderStep(t) \/ OrderDeadlock(t) \/ Lost(t)
      BY <1>3 DEF OrdersNext
    <2>2. CASE OrderRequest(t)
      BY <1>1, <2>2, RequestBooks DEF BookInv, FillInv
    <2>3. CASE tx[t].doc \in Order /\ (FindBuckets(t) \/ FinishLine(t) \/ FinishRelease(t))
      BY <1>1, <2>3, FindIsFit, FinishLineBooks, FinishReleaseBooks DEF BookInv
    <2>4. CASE tx[t].doc \in Order /\ (TakeBucket(t) \/ ReleaseReservation(t))
      BY <1>1, <2>4, TakeBooks, ReleaseBooks DEF BookInv
    <2>5. CASE Rollback(t) \/ (tx[t].doc \in Order /\ OrderCommit(t))
      BY <1>1, <2>5, EndBooks DEF BookInv
    <2> QED
      BY <2>1, <2>2, <2>3, <2>4, <2>5, DeadlockRollsBack
         DEF OrderStep, OrderLocalStep, OrderLockStep, RefuseShortage, Lost
  <1> QED
    BY <1>2, <1>3

\* What an order asks for stays what was asked, its reservations are where it
\* asked for them, and shipping leaves what is available.
THEOREM OrdersGetWhatTheyAsked == OrdersSpec => []BookInv
  BY InitBook, StepBooks, PTL DEF OrdersSpec

------------------------------------------------------------------------------
(****************************************************************************)
(* The refinement: only a commit changes the book, by the operation that    *)
(* its request asks for.                                                    *)
(****************************************************************************)

\* A version of the rows in which orders are settled and reservations counted.
Sound(version) ==
    /\ \A o \in Order : version[o] # Absent =>
         version[o] \in OrderRow /\ Settled(version[o]) /\ Fits(version[o])
    /\ \A b \in Bucket : /\ version[b] \in BucketRow \cup {Absent}
                         /\ Counted(version, b) /\ Covered(version[b])

\* What is committed is.
LEMMA CommittedIsSound ==
  BookInv => Sound(committed)
  BY DEF BookInv, BookOK, FitOrders, HoldInv, HoldOK, FillInv, FillOK,
         ProtocolInv, OrdersTypeOK, StockTypeOK, Sound

\* Buckets with the same physical quantities are the same stock.
LEMMA SameOnHand ==
  ASSUME NEW version, NEW other,
         \A b \in Bucket : Quantities(other[b]).physicalQty
                             = Quantities(version[b]).physicalQty
  PROVE  OnHand(other) = OnHand(version)
  <1>1. ASSUME NEW s \in Shelf
        PROVE  OnHand(other)[s] = OnHand(version)[s]
    <2> DEFINE S == BucketsOf(s[1], s[2])
               f == [b \in S |-> Quantities(version[b]).physicalQty]
    <2>1. S \subseteq Bucket
      BY FiniteShelf
    <2>2. \A b \in S : /\ f[b] = Quantities(version[b]).physicalQty
                       /\ f[b] = Quantities(other[b]).physicalQty
      BY <2>1
    <2> HIDE DEF f
    <2>3. OnHand(version)[s] = SumOf(f, S) /\ OnHand(other)[s] = SumOf(f, S)
      BY <2>2, OnHandIs
    <2> QED
      BY <2>3
  <1> QED
    BY <1>1 DEF OnHand

\* What the buckets of a shelf have available is what is on hand there and not
\* promised, and never less than nothing.
LEMMA AvailableIs ==
  ASSUME NEW version, Sound(version), NEW s \in Shelf, NEW f,
         \A b \in BucketsOf(s[1], s[2]) : f[b] = AvailableQty(version[b])
  PROVE  /\ OnHand(version)[s] \in Int /\ PromisedIn(version, s) \in Int
         /\ SumOf(f, BucketsOf(s[1], s[2]))
              = OnHand(version)[s] - PromisedIn(version, s)
  <1> DEFINE S == BucketsOf(s[1], s[2])
             p == [b \in S |-> Quantities(version[b]).physicalQty]
             r == [b \in S |-> Quantities(version[b]).reservedQty]
  <1>1. IsFiniteSet(S) /\ S \subseteq Bucket
    BY FiniteShelf
  <1>2. \A b \in S : /\ p[b] = Quantities(version[b]).physicalQty
                     /\ r[b] = Quantities(version[b]).reservedQty
    OBVIOUS
  <1>3. \A b \in S : /\ Quantities(version[b]).physicalQty \in Int
                     /\ Quantities(version[b]).reservedQty \in Int
    BY <1>1 DEF Sound, Quantities, BucketRow
  <1>4. \A b \in S : p[b] \in Int /\ r[b] \in Int /\ f[b] = p[b] - r[b]
    BY <1>2, <1>3 DEF AvailableQty
  <1> HIDE DEF p, r
  <1>5. OnHand(version)[s] = SumOf(p, S)
    BY <1>2, OnHandIs
  <1>6. SumOf(r, S) = PromisedIn(version, s)
    BY <1>2, PromisesAreReserved DEF Sound
  <1> HIDE DEF S
  <1>7. SumOf(p, S) \in Int /\ SumOf(r, S) \in Int
    BY <1>1, <1>4, SumOfInt
  <1>8. SumOf(f, S) = SumOf(p, S) - SumOf(r, S)
    BY <1>1, <1>4, SumOfMinus
  <1> QED
    BY <1>5, <1>6, <1>7, <1>8 DEF S

\* So no more is promised than there is.
LEMMA PromisesAreCovered ==
  ASSUME NEW version, Sound(version), NEW s \in Shelf
  PROVE  /\ OnHand(version)[s] \in Int /\ PromisedIn(version, s) \in Int
         /\ PromisedIn(version, s) <= OnHand(version)[s]
  <1> DEFINE S == BucketsOf(s[1], s[2])
             f == [b \in S |-> AvailableQty(version[b])]
  <1>1. IsFiniteSet(S) /\ S \subseteq Bucket
    BY FiniteShelf
  <1>2. \A b \in S : f[b] = AvailableQty(version[b]) /\ f[b] \in Nat
    <2> SUFFICES ASSUME NEW b \in S PROVE AvailableQty(version[b]) \in Nat
      OBVIOUS
    <2>1. /\ Quantities(version[b]).physicalQty \in Int
          /\ Quantities(version[b]).reservedQty \in Int
          /\ Quantities(version[b]).reservedQty <= Quantities(version[b]).physicalQty
      BY <1>1 DEF Sound, Quantities, BucketRow, Covered
    <2> QED
      BY <2>1 DEF AvailableQty
  <1> HIDE DEF f
  <1>3. /\ OnHand(version)[s] \in Int /\ PromisedIn(version, s) \in Int
        /\ SumOf(f, S) = OnHand(version)[s] - PromisedIn(version, s)
    BY <1>2, AvailableIs
  <1> HIDE DEF S
  <1>4. SumOf(f, S) \in Nat
    BY <1>1, <1>2, SumOfNat
  <1> QED
    BY <1>3, <1>4

\* One order more that is RESERVED has been promised what it asks for.
LEMMA PromiseOneMore ==
  ASSUME NEW version, NEW after, Sound(version), Sound(after), NEW o \in Order,
         \A p \in Order \ {o} : after[p] = version[p],
         o \notin Reserving(version), o \in Reserving(after), NEW s \in Shelf
  PROVE  /\ PromisedIn(after, s)
              = PromisedIn(version, s) + DemandOf(after[o].lines)[s]
         /\ DemandOf(after[o].lines)[s] \in Int
  <1> DEFINE S == Reserving(version)
             f == Claims(after, s)
             g == Claims(version, s)
  <1>1. Reserving(after) = S \cup {o}
    BY DEF Reserving
  <1>2. IsFiniteSet(S)
    BY OrderBookAssumption, FS_Subset DEF Reserving
  <1>3. \A p \in S \cup {o} : f[p] \in Int
    <2>1. \A p \in S \cup {o} : after[p] \in OrderRow /\ p \in Reserving(after)
      BY <1>1 DEF Sound, Reserving
    <2>2. \A p \in S \cup {o} : DemandOf(after[p].lines)[s] \in Int
      BY <2>1, DemandType
    <2> QED
      BY <2>1, <2>2 DEF Claims
  <1>4. \A p \in S : f[p] = g[p]
    <2>1. \A p \in S : p \in Reserving(after) /\ after[p] = version[p]
      BY <1>1 DEF Reserving
    <2> QED
      BY <2>1 DEF Claims
  <1>5. f[o] = DemandOf(after[o].lines)[s]
    BY DEF Claims
  <1> HIDE DEF f, g, S
  <1>6. SumOf(f, S \cup {o}) = f[o] + SumOf(f, S)
    BY <1>2, <1>3, SumOfAdd DEF S
  <1>7. SumOf(f, S) = SumOf(g, S)
    BY <1>2, <1>4, SumOfSame
  <1>8. SumOf(f, S) \in Int /\ f[o] \in Int
    BY <1>2, <1>3, SumOfInt
  <1>9. PromisedIn(after, s) = SumOf(f, S \cup {o}) /\ PromisedIn(version, s) = SumOf(g, S)
    BY <1>1 DEF PromisedIn, f, g, S
  <1> QED
    BY <1>5, <1>6, <1>7, <1>8, <1>9

\* The orders as the book has them.
Shown == [o \in Order |-> OrderSeen(committed[o])]

\* There are no orders at the start, and the seeded stock is on hand.
LEMMA InitBooks == Init => Promise!Init
  <1> SUFFICES ASSUME Init PROVE Promise!Init
    OBVIOUS
  <1>1. \A b \in Bucket : committed[b] = InitialStock[b]
    BY StockAssumption DEF Init, Row
  <1>2. OnHand(committed) = OnHand(InitialStock)
    BY <1>1, SameOnHand
  <1>3. \A o \in Order : committed[o] = Absent
    BY StockAssumption, OrdersAssumption DEF Init, Row
  <1> QED
    BY <1>2, <1>3 DEF Promise!Init, OrderSeen

\* What a commit changes: the order the transaction is about, and the buckets
\* it has locked.
LEMMA CommitShows ==
  ASSUME BookInv, NEW t \in Txn, tx[t].doc \in Order, OrderCommit(t),
         NEW o \in Order, o = tx[t].doc
  PROVE  /\ ~ IsIdle(t) /\ tx[t].step = "commit"
         /\ committed'[o] = working[o] /\ working[o] \in OrderRow
         /\ \A p \in Order \ {o} : committed'[p] = committed[p]
         /\ \A b \in Bucket : committed'[b] = IF holder[b] = t THEN working[b]
                                                               ELSE committed[b]
  <1> USE StockAssumption, OrdersAssumption
  <1>1. ProtocolInv /\ OwnOrderOnly
    BY DEF BookInv, FillInv, FillOK
  <1>2. ~ IsIdle(t) /\ tx[t].step = "commit" /\ Commit(t)
    BY DEF OrderCommit, IsIdle
  <1>3. holder[o] = t /\ working[o] \in OrderRow
    BY <1>1, <1>2, OwnOrder
  <1>4. \A r \in Row : committed'[r] = IF holder[r] = t THEN working[r]
                                                       ELSE committed[r]
    BY <1>2 DEF Commit
  <1>5. (\A p \in Order : p \in Row) /\ (\A b \in Bucket : b \in Row)
    BY DEF Row
  <1>6. \A p \in Order \ {o} : holder[p] # t
    BY <1>1 DEF OwnOrderOnly
  <1> QED
    BY <1>2, <1>3, <1>4, <1>5, <1>6

\* A commit that ships nothing leaves what is on hand.
LEMMA KeepsOnHand ==
  ASSUME BookInv, NEW t \in Txn, ~ IsIdle(t), tx[t].op # "fulfil",
         \A b \in Bucket : committed'[b] = IF holder[b] = t THEN working[b]
                                                            ELSE committed[b]
  PROVE  OnHand(committed') = OnHand(committed)
  <1>1. ShipsOK(t)
    BY DEF BookInv, ShippingInv
  <1>2. \A b \in Bucket : Quantities(committed'[b]).physicalQty
                            = Quantities(committed[b]).physicalQty
    BY <1>1 DEF ShipsOK
  <1> QED
    BY <1>2, SameOnHand

\* An order that becomes RESERVED has been given what was free.
LEMMA WasFree ==
  ASSUME Sound(committed), Sound(committed'), NEW o \in Order,
         \A p \in Order \ {o} : committed'[p] = committed[p],
         committed[o] = Absent \/ committed[o].status = "DRAFT",
         committed'[o] # Absent, committed'[o].status = "RESERVED",
         OnHand(committed') = OnHand(committed)
  PROVE  Promise!IsFree(DemandOf(committed'[o].lines))
  <1>1. Committed
    BY DEF Committed, Sound
  <1>2. o \notin Reserving(committed) /\ o \in Reserving(committed')
    BY DEF Reserving
  <1>3. PICK after : after = committed'
    OBVIOUS
  <1>4. ASSUME NEW s \in Shelf
        PROVE  DemandOf(after[o].lines)[s]
                 <= OnHand(committed)[s] - Promise!Promised(s)
    <2>1. /\ PromisedIn(after, s) =
               PromisedIn(committed, s) + DemandOf(after[o].lines)[s]
          /\ DemandOf(after[o].lines)[s] \in Int
      BY <1>2, <1>3, PromiseOneMore
    <2>2. /\ OnHand(committed)[s] \in Int /\ PromisedIn(committed, s) \in Int
      BY PromisesAreCovered
    <2>3. PromisedIn(after, s) <= OnHand(after)[s]
      BY <1>3, PromisesAreCovered
    <2>4. Promise!Promised(s) = PromisedIn(committed, s)
      BY <1>1, PromisedIs
    <2> QED
      BY <1>3, <2>1, <2>2, <2>3, <2>4
  <1> QED
    BY <1>3, <1>4 DEF Promise!IsFree

\* A commit that ships takes from each shelf what the order asked of it.
LEMMA ShipsWhatWasAsked ==
  ASSUME BookInv, Sound(committed), Sound(committed'),
         NEW t \in Txn, ~ IsIdle(t), tx[t].op = "fulfil",
         NEW o \in Order,
         \A p \in Order \ {o} : committed'[p] = committed[p],
         \A b \in Bucket : committed'[b] = IF holder[b] = t THEN working[b]
                                                            ELSE committed[b],
         committed[o] # Absent, committed[o].status = "RESERVED",
         committed'[o].status = "FULFILLED",
         NEW s \in Shelf
  PROVE  OnHand(committed')[s]
           = OnHand(committed)[s] - DemandOf(committed[o].lines)[s]
  <1> DEFINE S == BucketsOf(s[1], s[2])
             f == [b \in S |-> AvailableQty(committed[b])]
  <1>1. PICK after : after = committed'
    OBVIOUS
  <1>2. \A b \in S : /\ f[b] = AvailableQty(committed[b])
                     /\ f[b] = AvailableQty(after[b])
    <2>1. LeavesAvailable(t)
      BY DEF BookInv, BookOK
    <2>2. \A b \in Bucket : AvailableQty(after[b]) = AvailableQty(committed[b])
      BY <1>1, <2>1 DEF LeavesAvailable
    <2> QED
      BY <2>2, FiniteShelf
  <1> HIDE DEF f
  <1>3. /\ OnHand(committed)[s] \in Int /\ PromisedIn(committed, s) \in Int
        /\ SumOf(f, S) = OnHand(committed)[s] - PromisedIn(committed, s)
    BY <1>2, AvailableIs
  <1>4. /\ OnHand(after)[s] \in Int /\ PromisedIn(after, s) \in Int
        /\ SumOf(f, S) = OnHand(after)[s] - PromisedIn(after, s)
    BY <1>1, <1>2, AvailableIs
  <1>5. /\ PromisedIn(committed, s) =
             PromisedIn(after, s) + DemandOf(committed[o].lines)[s]
        /\ DemandOf(committed[o].lines)[s] \in Int
    <2>1. o \in Reserving(committed) /\ o \notin Reserving(after)
      BY <1>1 DEF Reserving
    <2>2. \A p \in Order \ {o} : committed[p] = after[p]
      BY <1>1
    <2> QED
      BY <1>1, <2>1, <2>2, PromiseOneMore
  <1> QED
    BY <1>1, <1>3, <1>4, <1>5

\* A commit is an operation of the book.
LEMMA CommitRefines ==
  ASSUME BookInv, BookInv', Sound(committed), Sound(committed'),
         NEW t \in Txn, tx[t].doc \in Order, OrderCommit(t)
  PROVE  Promise!Next
  <1> USE StockAssumption, OrdersAssumption
  <1>1. PICK o \in Order : o = tx[t].doc
    OBVIOUS
  <1>2. /\ ~ IsIdle(t) /\ tx[t].step = "commit"
        /\ committed'[o] = working[o] /\ working[o] \in OrderRow
        /\ \A p \in Order \ {o} : committed'[p] = committed[p]
        /\ \A b \in Bucket : committed'[b] = IF holder[b] = t THEN working[b]
                                                              ELSE committed[b]
    BY <1>1, CommitShows
  <1>3. AsAsked(t)
    BY <1>2 DEF BookInv, BookOK
  <1>4. Committed
    BY DEF Committed, Sound
  <1>5. PICK order \in OrderRow : order = working[o]
    BY <1>2
  <1>6. PICK before : before = committed[o]
    OBVIOUS
  <1>7. /\ OrderSeen(order) = [status |-> order.status, form |-> DemandOf(order.lines)]
        /\ before # Absent =>
             OrderSeen(before) = [status |-> before.status,
                                  form |-> DemandOf(before.lines)]
    BY <1>4, <1>6, SeenOrder DEF Committed
  <1>8. /\ Shown' = [Shown EXCEPT ![o] = OrderSeen(order)]
        /\ Shown[o] = OrderSeen(before)
    BY <1>2, <1>5, <1>6 DEF Shown
  <1>9. /\ order.status = ResultOf(tx[t].op)
        /\ tx[t].op \in {"create", "reserve", "cancel", "fulfil"}
        /\ before = Absent =>
             tx[t].op \in {"create", "reserve"} /\ DemandOf(order.lines) \in Demands
        /\ before # Absent =>
             /\ DemandOf(order.lines) = DemandOf(before.lines)
             /\ tx[t].op # "create"
             /\ tx[t].op = "reserve" => before.status = "DRAFT"
             /\ tx[t].op = "cancel" => before.status \in {"DRAFT", "RESERVED"}
             /\ tx[t].op = "fulfil" => before.status = "RESERVED"
    BY <1>1, <1>2, <1>3, <1>5, <1>6 DEF AsAsked
  <1>10. /\ Promise!Placed = {p \in Order : committed[p] # Absent}
         /\ \A status : Promise!InStatus(status) =
              {p \in Order : committed[p] # Absent /\ committed[p].status = status}
    BY <1>4, SeenStatus
  <1>11. order # Absent
    BY <1>5
  <1>12. tx[t].op # "fulfil" => OnHand(committed') = OnHand(committed)
    BY <1>2, KeepsOnHand
  <1>13. tx[t].op = "reserve" => Promise!IsFree(DemandOf(order.lines))
    <2> SUFFICES ASSUME tx[t].op = "reserve"
                 PROVE  Promise!IsFree(DemandOf(order.lines))
      OBVIOUS
    <2>1. order.status = "RESERVED" /\ OnHand(committed') = OnHand(committed)
      BY <1>9, <1>12 DEF ResultOf
    <2>2. committed[o] = Absent \/ committed[o].status = "DRAFT"
      BY <1>6, <1>9
    <2>3. Promise!IsFree(DemandOf(committed'[o].lines))
      BY <1>2, <1>5, <1>11, <2>1, <2>2, WasFree
    <2> QED
      BY <1>2, <1>5, <2>3
  <1>14. CASE before = Absent
    <2>1. PICK form \in Demands : form = DemandOf(order.lines)
      BY <1>9, <1>14
    <2>2. PICK status \in {"DRAFT", "RESERVED"} : status = order.status
      BY <1>9, <1>14 DEF ResultOf
    <2>3. status = "RESERVED" => Promise!IsFree(form)
      BY <1>9, <1>13, <1>14, <2>1, <2>2 DEF ResultOf
    <2>4. Shown' = [Shown EXCEPT ![o] = [status |-> status, form |-> form]]
      BY <1>7, <1>8, <2>1, <2>2
    <2>5. o \notin Promise!Placed /\ OnHand(committed)' = OnHand(committed)
      BY <1>6, <1>9, <1>10, <1>12, <1>14
    <2>6. Promise!Place(o, form, status)
      BY <2>3, <2>4, <2>5 DEF Promise!Place, Shown
    <2>7. form \in {DemandOf(asked) : asked \in OrderForms}
      BY DEF Demands
    <2>8. \E f \in {DemandOf(asked) : asked \in OrderForms},
            st \in {"DRAFT", "RESERVED"} : Promise!Place(o, f, st)
      BY <2>6, <2>7
    <2> QED
      BY <2>8, Zenon DEF Promise!Next
  <1>15. CASE before # Absent
    <2>1. Shown' = [Shown EXCEPT ![o].status = order.status]
      <3>1. PICK shown : shown = Shown
        OBVIOUS
      <3>2. PICK old, new, form : /\ old = before.status /\ new = order.status
                                  /\ form = DemandOf(order.lines)
        OBVIOUS
      <3>3. shown[o] = [status |-> old, form |-> form]
        BY <1>7, <1>8, <1>9, <1>15, <3>1, <3>2
      <3>4. OrderSeen(order) = [status |-> new, form |-> form]
        BY <1>7, <3>2
      <3>5. OrderSeen(order) = [shown[o] EXCEPT !.status = new]
        BY <3>3, <3>4
      <3>6. [shown EXCEPT ![o] = OrderSeen(order)] = [shown EXCEPT ![o].status = new]
        BY <3>5
      <3> QED
        BY <1>8, <3>1, <3>2, <3>6
    <2>2. Shown[o].form = DemandOf(order.lines)
      BY <1>7, <1>8, <1>9, <1>15
    <2>3. CASE tx[t].op = "reserve"
      <3>1. order.status = "RESERVED" /\ o \in Promise!InStatus("DRAFT")
        BY <1>6, <1>9, <1>10, <1>15, <2>3 DEF ResultOf
      <3>2. Promise!IsFree(Shown[o].form) /\ OnHand(committed)' = OnHand(committed)
        BY <1>12, <1>13, <2>2, <2>3
      <3>3. Promise!Reserve(o)
        BY <2>1, <3>1, <3>2 DEF Promise!Reserve, Promise!Becomes, Shown
      <3> QED
        BY <3>3 DEF Promise!Next
    <2>4. CASE tx[t].op = "cancel"
      <3>1. /\ order.status = "CANCELLED"
            /\ o \in Promise!InStatus("DRAFT") \cup Promise!InStatus("RESERVED")
        BY <1>6, <1>9, <1>10, <1>15, <2>4 DEF ResultOf
      <3>2. OnHand(committed)' = OnHand(committed)
        BY <1>12, <2>4
      <3>3. Promise!Cancel(o)
        BY <2>1, <3>1, <3>2 DEF Promise!Cancel, Promise!Becomes, Shown
      <3> QED
        BY <3>3 DEF Promise!Next
    <2>5. CASE tx[t].op = "fulfil"
      <3>1. order.status = "FULFILLED" /\ o \in Promise!InStatus("RESERVED")
        BY <1>6, <1>9, <1>10, <1>15, <2>5 DEF ResultOf
      <3>2. ASSUME NEW s \in Shelf
            PROVE  OnHand(committed')[s]
                     = OnHand(committed)[s] - DemandOf(committed[o].lines)[s]
        BY <1>2, <1>5, <1>6, <1>9, <1>15, <2>5, <3>1, ShipsWhatWasAsked
      <3>3. OnHand(committed)' =
              [s \in Shelf |-> OnHand(committed)[s] - Shown[o].form[s]]
        <4>1. DemandOf(committed[o].lines) = Shown[o].form
          BY <1>6, <1>9, <1>15, <2>2
        <4>2. PICK after : after = committed'
          OBVIOUS
        <4>3. OnHand(after) = [s \in Shelf |-> OnHand(after)[s]]
          BY DEF OnHand
        <4> QED
          BY <3>2, <4>1, <4>2, <4>3
      <3>4. Promise!Fulfil(o)
        BY <2>1, <3>1, <3>3 DEF Promise!Fulfil, Promise!Becomes, Shown
      <3> QED
        BY <3>4 DEF Promise!Next
    <2> QED
      BY <1>9, <1>15, <2>3, <2>4, <2>5
  <1> QED
    BY <1>14, <1>15

\* A step commits an operation, or leaves what is committed as it is.
LEMMA OnlyCommitsShow ==
  ASSUME NEW t \in Txn, OrderStep(t) \/ OrderDeadlock(t) \/ Lost(t)
  PROVE  committed' = committed \/ (tx[t].doc \in Order /\ OrderCommit(t))
  <1>1. CASE OrderRequest(t)
    BY <1>1 DEF OrderRequest, CreateOrder, InsertDocument, BeginReserve,
                BeginCancel, BeginFulfil, LockDocument
  <1>2. CASE OrderLocalStep(t)
    BY <1>2 DEF OrderLocalStep, FindBuckets, rows, FinishLine, FinishRelease,
                RefuseShortage, Rollback
  <1>3. CASE OrderLockStep(t)
    BY <1>3 DEF OrderLockStep, TakeBucket, ReleaseReservation
  <1>4. CASE OrderDeadlock(t) \/ Lost(t)
    BY <1>4, DeadlockRollsBack DEF Lost, Rollback
  <1> QED
    BY <1>1, <1>2, <1>3, <1>4 DEF OrderStep

\* Every other step leaves the book as it is.
LEMMA StepRefines ==
  ASSUME BookInv, BookInv', Sound(committed), Sound(committed'), [OrdersNext]_vars
  PROVE  [Promise!Next]_<<OnHand(committed), Shown>>
  <1>1. CASE committed' = committed
    BY <1>1 DEF Shown
  <1>2. ASSUME NEW t \in Txn, tx[t].doc \in Order, OrderCommit(t)
        PROVE  Promise!Next
    BY <1>2, CommitRefines
  <1>3. CASE UNCHANGED vars
    BY <1>1, <1>3 DEF vars
  <1>4. CASE OrdersNext
    BY <1>1, <1>2, <1>4, OnlyCommitsShow DEF OrdersNext
  <1> QED
    BY <1>3, <1>4

\* Orders implement the book of promises: every committed operation could have
\* been decided and done at the instant of its commit, whatever ran in between.
THEOREM OrdersImplementPromises == OrdersSpec => OperationsAreAtomic
  <1>1. BookInv => Sound(committed)
    BY CommittedIsSound
  <1>2. BookInv /\ BookInv' /\ Sound(committed) /\ Sound(committed)'
          /\ [OrdersNext]_vars => [Promise!Next]_<<OnHand(committed), Shown>>
    BY StepRefines
  <1>3. Init => Promise!Init
    BY InitBooks
  <1> QED
    BY <1>1, <1>2, <1>3, OrdersGetWhatTheyAsked, PTL
       DEF OrdersSpec, OperationsAreAtomic, Promise!Spec, Shown

------------------------------------------------------------------------------
(****************************************************************************)
(* Goods leave with the order that reserved them, and all of them do.       *)
(****************************************************************************)

\* When an order stops holding units of a bucket that keeps what it has available,
\* those units have left.
LEMMA UnitsThatLeave ==
  ASSUME NEW before, NEW after, NEW b \in Bucket, NEW o \in Order,
         before[b] \in BucketRow \cup {Absent}, after[b] \in BucketRow \cup {Absent},
         Counted(before, b), Counted(after, b),
         AvailableQty(after[b]) = AvailableQty(before[b]),
         before[o] # Absent, HeldOf(after[o], o, b) = {},
         \A p \in Order \ {o} : after[p] = before[p]
  PROVE  Quantities(before[b]).physicalQty - Quantities(after[b]).physicalQty
           = Cardinality(HeldOf(before[o], o, b))
  <1> DEFINE U == HeldOf(before[o], o, b)
             S == HeldUnits(before, b)
             T == HeldUnits(after, b)
  <1>1. \A p, x : (p # o /\ x \in HeldOf(before[p], p, b)) => x \notin U
    <2> SUFFICES ASSUME NEW p, p # o, NEW x, x \in HeldOf(before[p], p, b), x \in U
                 PROVE  FALSE
      OBVIOUS
    <2>1. ASSUME NEW order, NEW r, x \in HeldOf(order, r, b)
          PROVE  \E k, q : x \in Units(r, k, q)
      <3>1. order # Absent
        BY <2>1 DEF HeldOf
      <3>2. PICK k \in DOMAIN order.reservations :
              x \in Units(r, k, order.reservations[k].quantity)
        BY <2>1, <3>1, HeldElements
      <3> QED
        BY <3>2
    <2>2. /\ \E k, q : x \in Units(p, k, q)
          /\ \E k, q : x \in Units(o, k, q)
      BY <2>1
    <2> QED
      BY <2>2, UnitsDisjoint
  <1>2. \A x : x \in T <=> \E p \in Order \ {o} : x \in HeldOf(before[p], p, b)
    BY DEF HeldUnits
  <1>3. \A x : x \in S <=>
                 x \in U \/ \E p \in Order \ {o} : x \in HeldOf(before[p], p, b)
    BY DEF HeldUnits
  <1>4. T = S \ U /\ U \subseteq S
    BY <1>1, <1>2, <1>3
  <1>5. /\ IsFiniteSet(S)
        /\ Quantities(before[b]).reservedQty = Cardinality(S)
        /\ Quantities(after[b]).reservedQty = Cardinality(T)
    BY DEF Counted
  <1> HIDE DEF S, T, U
  <1>6. Cardinality(T) = Cardinality(S) - Cardinality(U)
    BY <1>4, <1>5, RemoveUnits
  <1>7. Cardinality(S) \in Nat /\ Cardinality(U) \in Nat
    BY <1>4, <1>5, FS_Subset, FS_CardinalityType
  <1>8. /\ Quantities(before[b]).physicalQty \in Int
        /\ Quantities(after[b]).physicalQty \in Int
    BY DEF Quantities, BucketRow
  <1>9. Quantities(before[b]).physicalQty - Quantities(after[b]).physicalQty
          = Cardinality(U)
    BY <1>5, <1>6, <1>7, <1>8 DEF AvailableQty
  <1> QED
    BY <1>9 DEF U

\* The commit of an operation on an order: what a bucket loses are the units
\* that the order held there, if it becomes FULFILLED, and otherwise none.
LEMMA CommitTakesWhatIsHeld ==
  ASSUME BookInv, BookInv', NEW t \in Txn, tx[t].doc \in Order, OrderCommit(t),
         NEW b \in Bucket
  PROVE  Quantities(committed[b]).physicalQty - Quantities(committed'[b]).physicalQty
           = Cardinality(UnitsShipped(committed, committed', b))
  <1> USE StockAssumption, OrdersAssumption
  <1>1. PICK o \in Order : o = tx[t].doc
    OBVIOUS
  <1>2. /\ ~ IsIdle(t) /\ tx[t].step = "commit"
        /\ committed'[o] = working[o] /\ working[o] \in OrderRow
        /\ \A p \in Order \ {o} : committed'[p] = committed[p]
        /\ \A c \in Bucket : committed'[c] = IF holder[c] = t THEN working[c]
                                                              ELSE committed[c]
    BY <1>1, CommitShows
  <1>3. AsAsked(t) /\ LeavesAvailable(t) /\ ShipsOK(t)
    BY <1>2 DEF BookInv, BookOK, ShippingInv
  <1>4. /\ Quantities(committed[b]).physicalQty \in Int
        /\ Quantities(committed[b]).reservedQty \in Int
        /\ Quantities(committed'[b]).physicalQty \in Int
        /\ Quantities(committed'[b]).reservedQty \in Int
    BY DEF BookInv, HoldInv, ProtocolInv, OrdersTypeOK, StockTypeOK, Quantities,
           BucketRow
  <1>5. ASSUME NEW p \in Order, committed[p] # Absent,
               committed[p].status = "RESERVED", committed'[p].status = "FULFILLED"
        PROVE  p = o /\ tx[t].op = "fulfil"
    <2>1. p = o
      BY <1>2, <1>5
    <2>2. working[o].status = ResultOf(tx[t].op)
      BY <1>1, <1>2, <1>3 DEF AsAsked
    <2>3. tx[t].op \in {"create", "reserve", "cancel", "fulfil"}
      BY <1>3 DEF AsAsked
    <2> QED
      BY <1>2, <1>5, <2>1, <2>2, <2>3 DEF ResultOf
  <1>6. CASE tx[t].op # "fulfil"
    <2>1. UnitsShipped(committed, committed', b) = {}
      BY <1>5, <1>6 DEF UnitsShipped
    <2>2. Quantities(committed'[b]).physicalQty = Quantities(committed[b]).physicalQty
      BY <1>2, <1>3, <1>6 DEF ShipsOK
    <2> QED
      BY <1>4, <2>1, <2>2, FS_EmptySet
  <1>7. CASE tx[t].op = "fulfil"
    <2>1. /\ committed[o] # Absent /\ committed[o].status = "RESERVED"
          /\ committed'[o].status = "FULFILLED"
      BY <1>1, <1>2, <1>3, <1>7 DEF ShipsOK
    <2>2. UnitsShipped(committed, committed', b) = HeldOf(committed[o], o, b)
      BY <1>5, <2>1 DEF UnitsShipped
    <2>3. HeldOf(committed'[o], o, b) = {}
      <3>1. PICK order : order = committed'[o]
        OBVIOUS
      <3>2. order # Absent /\ Settled(order) /\ order.status = "FULFILLED"
        BY <1>2, <2>1, <3>1 DEF BookInv, FillInv, FillOK
      <3>3. \A k \in DOMAIN order.reservations : order.reservations[k].status = "CONSUMED"
        BY <3>2 DEF Settled, AllAre
      <3>4. HeldOf(order, o, b) = {}
        BY <3>2, <3>3, HeldElements
      <3> QED
        BY <3>1, <3>4
    <2>4. PICK next : next = committed'
      OBVIOUS
    <2>5. /\ Counted(committed, b) /\ Counted(next, b)
          /\ AvailableQty(next[b]) = AvailableQty(committed[b])
          /\ committed[b] \in BucketRow \cup {Absent} /\ next[b] \in BucketRow \cup {Absent}
      <3>1. Counted(committed, b) /\ Counted(committed', b)
        BY DEF BookInv, HoldInv, HoldOK
      <3>2. AvailableQty(committed'[b]) = AvailableQty(committed[b])
        BY <1>2, <1>3, <1>7 DEF LeavesAvailable
      <3>3. /\ committed[b] \in BucketRow \cup {Absent}
            /\ committed'[b] \in BucketRow \cup {Absent}
        BY DEF BookInv, HoldInv, ProtocolInv, OrdersTypeOK, StockTypeOK
      <3> QED
        BY <2>4, <3>1, <3>2, <3>3
    <2>6. /\ \A p \in Order \ {o} : next[p] = committed[p]
          /\ HeldOf(next[o], o, b) = {}
      BY <1>2, <2>3, <2>4
    <2>7. Quantities(committed[b]).physicalQty - Quantities(next[b]).physicalQty
            = Cardinality(HeldOf(committed[o], o, b))
      BY <2>1, <2>5, <2>6, UnitsThatLeave
    <2> QED
      BY <2>2, <2>4, <2>7
  <1> QED
    BY <1>6, <1>7

\* A step that commits nothing ships nothing.
LEMMA QuietTakesNothing ==
  ASSUME BookInv, NEW after, after = committed, NEW b \in Bucket
  PROVE  Quantities(committed[b]).physicalQty - Quantities(after[b]).physicalQty
           = Cardinality(UnitsShipped(committed, after, b))
  <1>1. UnitsShipped(committed, after, b) = {}
    BY DEF UnitsShipped
  <1>2. Quantities(committed[b]).physicalQty \in Int
    BY DEF BookInv, HoldInv, ProtocolInv, OrdersTypeOK, StockTypeOK, Quantities,
           BucketRow
  <1> QED
    BY <1>1, <1>2, FS_EmptySet

\* Goods leave with the order that reserved them, and all of them do: however
\* requests interleave and end, what a bucket loses at any instant are, to the
\* unit, the holds of the orders that become FULFILLED at that instant.
THEOREM ShipmentsAreExact == OrdersSpec => ShippingTakesWhatIsHeld
  <1> DEFINE Exact ==
        \A b \in Bucket :
          Quantities(committed[b]).physicalQty
            - Quantities(committed'[b]).physicalQty =
          Cardinality(UnitsShipped(committed, committed', b))
  <1>1. ASSUME BookInv, BookInv', OrdersNext
        PROVE  Exact
    <2>1. PICK t \in Txn : OrderStep(t) \/ OrderDeadlock(t) \/ Lost(t)
      BY <1>1 DEF OrdersNext
    <2>2. CASE committed' = committed
      BY <1>1, <2>2, QuietTakesNothing
    <2>3. CASE tx[t].doc \in Order /\ OrderCommit(t)
      BY <1>1, <2>3, CommitTakesWhatIsHeld
    <2>4. committed' = committed \/ (tx[t].doc \in Order /\ OrderCommit(t))
      BY <2>1, OnlyCommitsShow
    <2> QED
      BY <2>2, <2>3, <2>4
  <1>2. BookInv /\ BookInv' /\ [OrdersNext]_vars => [Exact]_vars
    BY <1>1
  <1> QED
    BY <1>2, OrdersGetWhatTheyAsked, PTL DEF OrdersSpec, ShippingTakesWhatIsHeld
=============================================================================
