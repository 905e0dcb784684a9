-------------------------- MODULE WorkOrdersProofs --------------------------
(***************************************************************************)
(* Proofs about WorkOrdersService, for every number of transactions, work  *)
(* orders, batches and locations.                                          *)
(*                                                                         *)
(* The ledger is the only memory of what a work order holds.  The          *)
(* inductive invariant says that the rows which refer to a work order are  *)
(* those of one hold, a number of units for every bucket (Material), and   *)
(* of every transaction what part of a hold it has taken or used at each   *)
(* of its statements (Phase).                                              *)
(***************************************************************************)
EXTENDS WorkOrdersService, StockProofs, Functions

\* The row that the INSERT of a work order writes, and after a status change.
NewWorkOrder(form) ==
    [status |-> "ASSIGNED", item |-> form.item, location |-> form.location,
     requiredQty |-> form.requiredQty]
InStatus(order, status) == [order EXCEPT !.status = status]

\* A hold for an order: so many units in each bucket of its item and location.
IsHold(order, hold) ==
    /\ hold \in [Bucket -> Nat]
    /\ \A b \in Bucket : hold[b] > 0 => b \in BucketsOf(order.item, order.location)

Support(hold) == {b \in Bucket : hold[b] > 0}
Total(hold) == SumOf(hold, Bucket)

\* The ledger rows of a hold of w when it is taken, and when it is used.
TakenRow(w, b, q) ==
    [idempotencyKey |-> <<"WORK_ORDER", w, "RESERVE", b>>, inventoryId |-> b,
     physicalDelta |-> 0, reservedDelta |-> q, refId |-> w]
UsedRow(w, b, q) ==
    [idempotencyKey |-> <<"WORK_ORDER", w, "CONSUME", b>>, inventoryId |-> b,
     physicalDelta |-> -q, reservedDelta |-> -q, refId |-> w]

Taken(w, hold) == {TakenRow(w, b, hold[b]) : b \in Support(hold)}
Used(w, hold, S) == {UsedRow(w, b, hold[b]) : b \in S}

\* The rows that refer to w.
Of(entries, w) == {e \in entries : e.refId = w}

-----------------------------------------------------------------------------
(* What a transaction about the work order w has done at each statement.   *)

Creating(t, w) ==
    /\ tx[t].op = "create" /\ tx[t].step = "commit"
    /\ pending[t] = {} /\ Holds(t) = {w}
    /\ committed[w] = Absent
    /\ \E form \in WorkOrderForms : working[w] = NewWorkOrder(form)

Looking(t, w) ==
    /\ tx[t].op = "start" /\ tx[t].step = "find"
    /\ pending[t] = {} /\ Holds(t) = {w}
    /\ committed[w] # Absent /\ committed[w].status = "ASSIGNED"
    /\ working[w] = committed[w]

HasTaken(t, w, hold) ==
    /\ tx[t].op = "start"
    /\ committed[w] # Absent /\ committed[w].status = "ASSIGNED"
    /\ IsHold(committed[w], hold)
    /\ w \in Holds(t) /\ Holds(t) \subseteq {w} \cup Bucket
    /\ Support(hold) \subseteq Holds(t)
    /\ pending[t] = Taken(w, hold)
    /\ \A b \in Bucket \cap Holds(t) :
         IF hold[b] = 0
         THEN working[b] = committed[b]
         ELSE /\ hold[b] <= AvailableQty(committed[b])
              /\ working[b] = Moved(Quantities(committed[b]), 0, hold[b])

Starting(t, w) ==
    /\ tx[t].step = "take" /\ tx[t].remaining \in Nat
    /\ working[w] = committed[w]
    /\ \E hold : /\ HasTaken(t, w, hold)
                 /\ Total(hold) + tx[t].remaining = committed[w].requiredQty
                 /\ tx[t].todo \subseteq BucketsOf(committed[w].item,
                                                   committed[w].location)
                 /\ tx[t].todo \cap Support(hold) = {}

Started(t, w) ==
    /\ tx[t].step = "commit"
    /\ working[w] = InStatus(committed[w], "IN_PROGRESS")
    /\ \E hold : /\ HasTaken(t, w, hold)
                 /\ Total(hold) = committed[w].requiredQty

HasUsed(t, w, hold, S) ==
    /\ tx[t].op = "complete"
    /\ committed[w] # Absent /\ committed[w].status = "IN_PROGRESS"
    /\ IsHold(committed[w], hold) /\ Total(hold) = committed[w].requiredQty
    /\ Of(ledger, w) = Taken(w, hold)
    /\ S \subseteq Support(hold)
    /\ Holds(t) = {w} \cup S
    /\ pending[t] = Used(w, hold, S)
    /\ \A b \in S : /\ hold[b] <= Quantities(committed[b]).reservedQty
                    /\ working[b] = Moved(Quantities(committed[b]), -hold[b], -hold[b])

Completing(t, w) ==
    /\ tx[t].step = "consume"
    /\ working[w] = committed[w]
    /\ \E hold : /\ HasUsed(t, w, hold, Support(hold) \ tx[t].todo)
                 /\ tx[t].todo \subseteq Support(hold)

Completed(t, w) ==
    /\ tx[t].step = "commit"
    /\ working[w] = InStatus(committed[w], "COMPLETED")
    /\ \E hold : HasUsed(t, w, hold, Support(hold))

Resting(t) == IsIdle(t) /\ Holds(t) = {} /\ pending[t] = {}

Busy(t, w) ==
    /\ tx[t].doc = w
    /\ \/ Creating(t, w) \/ Looking(t, w) \/ Starting(t, w) \/ Started(t, w)
       \/ Completing(t, w) \/ Completed(t, w)

Phase(t) == Resting(t) \/ \E w \in WorkOrder : Busy(t, w)

\* What the ledger remembers of a work order, by its status.
Material(w) ==
    \/ committed[w] = Absent /\ Of(ledger, w) = {}
    \/ /\ committed[w] \in WorkOrderRow /\ committed[w].status = "ASSIGNED"
       /\ Of(ledger, w) = {}
    \/ /\ committed[w] \in WorkOrderRow /\ committed[w].status # "ASSIGNED"
       /\ \E hold :
            /\ IsHold(committed[w], hold)
            /\ Total(hold) = committed[w].requiredQty
            /\ Of(ledger, w) = IF committed[w].status = "IN_PROGRESS"
                               THEN Taken(w, hold)
                               ELSE Taken(w, hold) \cup Used(w, hold, Support(hold))

WorkOrdersInv ==
    /\ StockTypeOK
    /\ Unlocked
    /\ \A t \in Txn : Phase(t)
    /\ \A w \in WorkOrder : Material(w)
    /\ \A b \in Bucket : WithinStock(committed[b])
    /\ \A e \in ledger : e.refId \in WorkOrder
    /\ LedgerInv

-----------------------------------------------------------------------------
(* Holds and their ledger rows.                                            *)

\* Rows of work orders and of buckets are different rows, and neither is Absent.
LEMMA WorkOrderRows ==
  /\ \A w \in WorkOrder : w \in Row /\ w \notin Bucket /\ w \in Document
  /\ \A b \in Bucket : b \in Row
  /\ \A form \in WorkOrderForms : NewWorkOrder(form) \in WorkOrderRow
  /\ \A order \in WorkOrderRow :
       /\ order # Absent
       /\ \A status \in WorkOrderStatus :
            /\ InStatus(order, status) \in WorkOrderRow
            /\ InStatus(order, status).status = status
            /\ InStatus(order, status).item = order.item
            /\ InStatus(order, status).location = order.location
            /\ InStatus(order, status).requiredQty = order.requiredQty
  <1> USE StockAssumption, WorkOrdersAssumption
  <1>1. /\ \A w \in WorkOrder : w \in Row /\ w \notin Bucket /\ w \in Document
        /\ \A b \in Bucket : b \in Row
    BY DEF Row
  <1>2. \A form \in WorkOrderForms : NewWorkOrder(form) \in WorkOrderRow
    BY DEF NewWorkOrder, WorkOrderRow, WorkOrderStatus
  <1>3. ASSUME NEW order \in WorkOrderRow, NEW status \in WorkOrderStatus
        PROVE  /\ InStatus(order, status) \in WorkOrderRow
               /\ InStatus(order, status).status = status
               /\ InStatus(order, status).item = order.item
               /\ InStatus(order, status).location = order.location
               /\ InStatus(order, status).requiredQty = order.requiredQty
    BY DEF InStatus, WorkOrderRow
  <1> QED
    BY <1>1, <1>2, <1>3

\* There are finitely many buckets.
LEMMA FiniteBuckets == IsFiniteSet(Bucket)
  BY FS_Product, WorkOrdersAssumption DEF Bucket

\* The image of a finite set is finite.
LEMMA FiniteImage ==
  ASSUME NEW S, IsFiniteSet(S), NEW m
  PROVE  IsFiniteSet({m[x] : x \in S})
  <1> DEFINE T == {m[x] : x \in S}
             f == [x \in S |-> m[x]]
  <1>1. f \in Surjection(S, T)
    BY DEF Surjection
  <1> QED
    BY <1>1, FS_Surjection

\* The rows of a hold are rows of the ledger, one for each bucket with units.
LEMMA RowsOfHold ==
  ASSUME NEW w, NEW hold \in [Bucket -> Nat], NEW S \in SUBSET Support(hold)
  PROVE  /\ Entries(Taken(w, hold)) /\ Entries(Used(w, hold, S))
         /\ \A e \in Taken(w, hold) \cup Used(w, hold, S) : e.refId = w
         /\ Taken(w, hold) \cap Used(w, hold, S) = {}
         /\ \A b \in Bucket :
              /\ At(Taken(w, hold), b) = IF b \in Support(hold)
                                         THEN {TakenRow(w, b, hold[b])} ELSE {}
              /\ At(Used(w, hold, S), b) = IF b \in S
                                           THEN {UsedRow(w, b, hold[b])} ELSE {}
  <1>1. \A b \in Bucket, q \in Nat :
          /\ IsEntry(TakenRow(w, b, q)) /\ IsEntry(UsedRow(w, b, q))
          /\ TakenRow(w, b, q).inventoryId = b /\ UsedRow(w, b, q).inventoryId = b
          /\ TakenRow(w, b, q).refId = w /\ UsedRow(w, b, q).refId = w
          /\ TakenRow(w, b, q).physicalDelta = 0
          /\ TakenRow(w, b, q).reservedDelta = q
          /\ UsedRow(w, b, q).physicalDelta = -q
          /\ UsedRow(w, b, q).reservedDelta = -q
    BY DEF IsEntry, TakenRow, UsedRow
  <1>2. \A b \in Support(hold) : b \in Bucket /\ hold[b] \in Nat /\ hold[b] > 0
    BY DEF Support
  <1>3. Support(hold) \subseteq Bucket /\ S \subseteq Bucket
    BY DEF Support
  <1>4. IsFiniteSet(Taken(w, hold)) /\ IsFiniteSet(Used(w, hold, S))
    <2>1. IsFiniteSet(Support(hold)) /\ IsFiniteSet(S)
      BY <1>3, FiniteBuckets, FS_Subset
    <2> DEFINE m == [b \in Support(hold) |-> TakenRow(w, b, hold[b])]
               n == [b \in S |-> UsedRow(w, b, hold[b])]
    <2>2. /\ Taken(w, hold) = {m[b] : b \in Support(hold)}
          /\ Used(w, hold, S) = {n[b] : b \in S}
      BY DEF Taken, Used
    <2> HIDE DEF m, n
    <2> QED
      BY <2>1, <2>2, FiniteImage
  <1>5. \A e \in Taken(w, hold) : \E b \in Support(hold) : e = TakenRow(w, b, hold[b])
    BY DEF Taken
  <1>6. \A e \in Used(w, hold, S) : \E b \in S : e = UsedRow(w, b, hold[b])
    BY DEF Used
  <1>7. Entries(Taken(w, hold)) /\ Entries(Used(w, hold, S))
    BY <1>1, <1>2, <1>4, <1>5, <1>6 DEF Entries
  <1>8. \A e \in Taken(w, hold) \cup Used(w, hold, S) : e.refId = w
    BY <1>1, <1>2, <1>5, <1>6
  <1>9. Taken(w, hold) \cap Used(w, hold, S) = {}
    <2>1. \A e \in Taken(w, hold) : e.reservedDelta \in Int /\ e.reservedDelta > 0
      BY <1>1, <1>2, <1>5
    <2>2. \A e \in Used(w, hold, S) : e.reservedDelta \in Int /\ e.reservedDelta < 0
      BY <1>1, <1>2, <1>6
    <2> QED
      BY <2>1, <2>2
  <1>10. ASSUME NEW b \in Bucket
         PROVE  /\ At(Taken(w, hold), b) = IF b \in Support(hold)
                                           THEN {TakenRow(w, b, hold[b])} ELSE {}
                /\ At(Used(w, hold, S), b) = IF b \in S
                                             THEN {UsedRow(w, b, hold[b])} ELSE {}
    <2>1. \A c \in Support(hold) : TakenRow(w, c, hold[c]).inventoryId = c
      BY <1>1, <1>2
    <2>2. \A c \in S : UsedRow(w, c, hold[c]).inventoryId = c
      BY <1>1, <1>2
    <2>3. At(Taken(w, hold), b) = IF b \in Support(hold)
                                  THEN {TakenRow(w, b, hold[b])} ELSE {}
      BY <2>1 DEF At, Taken
    <2>4. At(Used(w, hold, S), b) = IF b \in S THEN {UsedRow(w, b, hold[b])} ELSE {}
      BY <2>2 DEF At, Used
    <2> QED
      BY <2>3, <2>4
  <1> QED
    BY <1>7, <1>8, <1>9, <1>10

\* The sums of a single row.
LEMMA SumsOfOne ==
  ASSUME NEW e, IsEntry(e)
  PROVE  /\ PhysicalSum({e}) = e.physicalDelta
         /\ ReservedSum({e}) = e.reservedDelta
  <1>1. Entries({}) /\ e \notin {} /\ {} \cup {e} = {e}
    BY FS_EmptySet DEF Entries
  <1>2. /\ PhysicalSum({} \cup {e}) = PhysicalSum({}) + e.physicalDelta
        /\ ReservedSum({} \cup {e}) = ReservedSum({}) + e.reservedDelta
    BY <1>1, LedgerSums
  <1>3. PhysicalSum({}) = 0 /\ ReservedSum({}) = 0
    BY LedgerSums
  <1> QED
    BY <1>1, <1>2, <1>3 DEF IsEntry

\* What a hold keeps reserved in a bucket, and what is left when it is used.
LEMMA NetOfHold ==
  ASSUME NEW w, NEW hold \in [Bucket -> Nat], NEW b \in Bucket
  PROVE  /\ ReservedSum(At(Taken(w, hold), b)) = hold[b]
         /\ ReservedSum(At(Taken(w, hold) \cup Used(w, hold, Support(hold)), b)) = 0
  <1> DEFINE S == Support(hold)
             T == At(Taken(w, hold), b)
             U == At(Used(w, hold, S), b)
  <1>1. /\ At(Taken(w, hold) \cup Used(w, hold, S), b) = T \cup U
        /\ T = IF b \in S THEN {TakenRow(w, b, hold[b])} ELSE {}
        /\ U = IF b \in S THEN {UsedRow(w, b, hold[b])} ELSE {}
        /\ Entries(T) /\ Entries(U) /\ T \cap U = {}
    <2>1. /\ Entries(Taken(w, hold)) /\ Entries(Used(w, hold, S))
          /\ Taken(w, hold) \cap Used(w, hold, S) = {}
          /\ T = IF b \in S THEN {TakenRow(w, b, hold[b])} ELSE {}
          /\ U = IF b \in S THEN {UsedRow(w, b, hold[b])} ELSE {}
      BY RowsOfHold
    <2>2. At(Taken(w, hold) \cup Used(w, hold, S), b) = T \cup U /\ T \cap U = {}
      BY <2>1 DEF At
    <2> QED
      BY <2>1, <2>2, RowsAt
  <1>2. ReservedSum(T \cup U) = ReservedSum(T) + ReservedSum(U)
    <2> HIDE DEF T, U
    <2> QED
      BY <1>1, LedgerSums
  <1>3. hold[b] \in Nat
    OBVIOUS
  <1>4. CASE b \in S
    <2>1. /\ IsEntry(TakenRow(w, b, hold[b])) /\ IsEntry(UsedRow(w, b, hold[b]))
          /\ TakenRow(w, b, hold[b]).reservedDelta = hold[b]
          /\ UsedRow(w, b, hold[b]).reservedDelta = -hold[b]
      BY <1>3 DEF TakenRow, UsedRow, IsEntry
    <2>2. ReservedSum(T) = hold[b] /\ ReservedSum(U) = -hold[b]
      BY <1>1, <1>4, <2>1, SumsOfOne
    <2>3. \A q \in Nat : q + (-q) = 0
      OBVIOUS
    <2>4. ReservedSum(T \cup U) = 0
      BY <1>2, <1>3, <2>2, <2>3
    <2> QED
      BY <1>1, <2>2, <2>4
  <1>5. CASE b \notin S
    <2>1. T = {} /\ U = {} /\ hold[b] = 0
      BY <1>1, <1>3, <1>5 DEF Support
    <2> QED
      BY <1>1, <1>2, <2>1, LedgerSums
  <1> QED
    BY <1>4, <1>5

-----------------------------------------------------------------------------
(* Sums over the buckets of a hold.                                        *)

\* The sum of zeros.
LEMMA SumOfZeros ==
  ASSUME NEW S, IsFiniteSet(S), NEW f, \A x \in S : f[x] = 0
  PROVE  SumOf(f, S) = 0
  <1> SUFFICES ASSUME SumOf(f, S) # 0 PROVE FALSE
    OBVIOUS
  <1> DEFINE C == {T \in SUBSET S : SumOf(f, T) # 0}
  <1>1. C # {} /\ C \in SUBSET (SUBSET S)
    OBVIOUS
  <1>2. PICK T \in C : \A U \in C : U \subseteq T => U = T
    <2> HIDE DEF C
    <2> QED
      BY <1>1, MinimalSubset
  <1>3. IsFiniteSet(T) /\ SumOf(f, {}) = 0
    BY FS_Subset, SumOfStep
  <1>4. PICK x \in T : TRUE
    BY <1>3
  <1>5. SumOf(f, T \ {x}) = 0
    BY <1>2
  <1>6. SumOf(f, T) = f[x] + SumOf(f, T \ {x})
    BY <1>3, SumOfRemove
  <1> QED
    BY <1>2, <1>5, <1>6

\* A sum over the image of a set under a map that tells its elements apart.
LEMMA SumOfImage ==
  ASSUME NEW S, IsFiniteSet(S), NEW m, NEW f, NEW h,
         \A x \in S : f[m[x]] = h[x] /\ h[x] \in Int,
         \A x, y \in S : m[x] = m[y] => x = y
  PROVE  SumOf(f, {m[x] : x \in S}) = SumOf(h, S)
  <1> DEFINE I(T) == {m[x] : x \in T}
  <1> SUFFICES ASSUME SumOf(f, I(S)) # SumOf(h, S) PROVE FALSE
    OBVIOUS
  <1> DEFINE C == {T \in SUBSET S : SumOf(f, I(T)) # SumOf(h, T)}
  <1>1. C # {} /\ C \in SUBSET (SUBSET S)
    OBVIOUS
  <1>2. PICK T \in C : \A U \in C : U \subseteq T => U = T
    <2> HIDE DEF C
    <2> QED
      BY <1>1, MinimalSubset
  <1>3. IsFiniteSet(T)
    BY FS_Subset
  <1>4. T # {}
    <2>1. I({}) = {} /\ SumOf(f, {}) = 0 /\ SumOf(h, {}) = 0
      BY FS_EmptySet, SumOfStep
    <2> QED
      BY <1>2, <2>1
  <1>5. PICK x \in T : TRUE
    BY <1>4
  <1> DEFINE U == T \ {x}
  <1>6. SumOf(f, I(U)) = SumOf(h, U)
    BY <1>2
  <1>7. SumOf(h, T) = h[x] + SumOf(h, U)
    BY <1>3, SumOfRemove
  <1>8. SumOf(f, I(T)) = f[m[x]] + SumOf(f, I(T) \ {m[x]})
    <2>1. IsFiniteSet(I(T))
      BY <1>3, FiniteImage
    <2>2. m[x] \in I(T) /\ \A y \in I(T) : f[y] \in Int
      OBVIOUS
    <2> HIDE DEF I
    <2> QED
      BY <2>1, <2>2, SumOfRemove
  <1>9. I(T) \ {m[x]} = I(U)
    OBVIOUS
  <1>10. SumOf(f, I(T)) = SumOf(h, T)
    BY <1>5, <1>6, <1>7, <1>8, <1>9
  <1> QED
    BY <1>2, <1>10

\* The sums of what cancels out cancel out.
LEMMA OppositeSums ==
  ASSUME NEW S, IsFiniteSet(S), NEW f, NEW h,
         \A x \in S : f[x] \in Int /\ h[x] \in Int /\ f[x] + h[x] = 0
  PROVE  SumOf(f, S) + SumOf(h, S) = 0
  <1> SUFFICES ASSUME SumOf(f, S) + SumOf(h, S) # 0 PROVE FALSE
    OBVIOUS
  <1> DEFINE C == {T \in SUBSET S : SumOf(f, T) + SumOf(h, T) # 0}
  <1>1. C # {} /\ C \in SUBSET (SUBSET S)
    OBVIOUS
  <1>2. PICK T \in C : \A U \in C : U \subseteq T => U = T
    <2> HIDE DEF C
    <2> QED
      BY <1>1, MinimalSubset
  <1>3. IsFiniteSet(T)
    BY FS_Subset
  <1>4. PICK x \in T : TRUE
    <2>1. SumOf(f, {}) = 0 /\ SumOf(h, {}) = 0
      BY FS_EmptySet, SumOfStep
    <2>2. SumOf(f, T) + SumOf(h, T) # 0
      BY <1>2
    <2>3. T # {}
      <3> SUFFICES ASSUME T = {} PROVE FALSE
        OBVIOUS
      <3>1. SumOf(f, T) = 0 /\ SumOf(h, T) = 0
        BY <2>1
      <3> HIDE DEF C
      <3> QED
        BY <2>2, <3>1
    <2> QED
      BY <2>3
  <1>5. SumOf(f, T \ {x}) + SumOf(h, T \ {x}) = 0
    BY <1>2
  <1>6. /\ SumOf(f, T) = f[x] + SumOf(f, T \ {x})
        /\ SumOf(h, T) = h[x] + SumOf(h, T \ {x})
    BY <1>3, SumOfRemove
  <1>7. SumOf(f, T \ {x}) \in Int /\ SumOf(h, T \ {x}) \in Int
    BY <1>3, FS_Subset, SumOfInt
  <1> QED
    BY <1>2, <1>4, <1>5, <1>6, <1>7

\* SUM(reserved_delta) of a bucket's rows of w.
LEMMA NetReservedIs ==
  ASSUME NEW entries, NEW w, NEW b
  PROVE  NetReserved(entries, w, b) = ReservedSum(At(Of(entries, w), b))
  <1>1. {e \in entries : e.refId = w /\ e.inventoryId = b} = At(Of(entries, w), b)
    BY DEF At, Of
  <1> QED
    BY <1>1 DEF NetReserved, ReservedSum

\* What a work order holds is a sum over its hold.
LEMMA HeldForIs ==
  ASSUME NEW w, NEW f, \A b \in Bucket : f[b] = NetReserved(ledger, w, b)
  PROVE  HeldFor(w) = SumOf(f, Bucket)
  <1> DEFINE Folds(g) == g = [T \in SUBSET Bucket |->
                                IF T = {} THEN 0
                                ELSE LET x == CHOOSE x \in T : TRUE
                                     IN  NetReserved(ledger, w, x) + g[T \ {x}]]
             iter == CHOOSE g : Folds(g)
  <1>1. HeldFor(w) = iter[Bucket]
    BY DEF HeldFor, MapThenSumSet, MapThenFoldSet
  <1>2. ASSUME NEW g
        PROVE  Folds(g) <=> IsSum(g, f, Bucket)
    BY DEF IsSum, PickOf
  <1>3. \E g : IsSum(g, f, Bucket)
    BY FiniteBuckets, SumExists
  <1> HIDE DEF Folds
  <1>4. Folds(iter)
    BY <1>2, <1>3
  <1> HIDE DEF iter
  <1> QED
    BY <1>1, <1>2, <1>3, <1>4, FiniteBuckets, SumUnique DEF SumOf

\* Taking a hold moves no goods; using it moves all of them.
LEMMA GoodsOfHold ==
  ASSUME NEW w, NEW hold \in [Bucket -> Nat]
  PROVE  /\ PhysicalSum(Taken(w, hold)) = 0
         /\ PhysicalSum(Used(w, hold, Support(hold))) = -Total(hold)
         /\ Total(hold) \in Int
  <1> DEFINE S == Support(hold)
             T == Taken(w, hold)
             U == Used(w, hold, S)
             f(X) == [e \in X |-> e.physicalDelta]
  <1>1. Entries(T) /\ Entries(U)
    BY RowsOfHold
  <1>2. PhysicalSum(T) = 0
    <2>1. \A e \in T : e.physicalDelta = 0
      BY DEF Taken, TakenRow
    <2>2. PhysicalSum(T) = SumOf(f(T), T)
      <3>1. IsFiniteSet(T) /\ \A e \in T : f(T)[e] = e.physicalDelta
        BY <1>1 DEF Entries
      <3> HIDE DEF f, T
      <3> QED
        BY <3>1, PhysicalSumIs
    <2>3. \A e \in T : f(T)[e] = 0
      BY <2>1
    <2> HIDE DEF f, T
    <2> QED
      BY <1>1, <2>2, <2>3, SumOfZeros DEF Entries
  <1>3. S \subseteq Bucket /\ IsFiniteSet(Bucket) /\ IsFiniteSet(S)
    BY FiniteBuckets, FS_Subset DEF Support
  <1>4. \A b \in Bucket : hold[b] \in Int
    OBVIOUS
  <1>5. Total(hold) = SumOf(hold, S)
    <2>1. IsFiniteSet(Bucket \ S) /\ S \cap (Bucket \ S) = {} /\ S \cup (Bucket \ S) = Bucket
      BY <1>3, FS_Subset
    <2>2. \A b \in Bucket \ S : hold[b] = 0
      BY DEF Support
    <2> HIDE DEF S
    <2>3. SumOf(hold, Bucket \ S) = 0
      BY <2>1, <2>2, SumOfZeros
    <2>4. SumOf(hold, S \cup (Bucket \ S)) = SumOf(hold, S) + SumOf(hold, Bucket \ S)
      BY <1>3, <1>4, <2>1, SumOfUnion
    <2>5. SumOf(hold, S) \in Int
      BY <1>3, <1>4, SumOfInt
    <2> QED
      BY <2>1, <2>3, <2>4, <2>5 DEF Total
  <1>6. PhysicalSum(U) = -SumOf(hold, S)
    <2> DEFINE m == [b \in S |-> UsedRow(w, b, hold[b])]
               n == [b \in S |-> -hold[b]]
    <2>1. U = {m[b] : b \in S}
      BY DEF Used
    <2>2. PhysicalSum(U) = SumOf(f(U), U)
      <3>1. IsFiniteSet(U) /\ \A e \in U : f(U)[e] = e.physicalDelta
        BY <1>1 DEF Entries
      <3> HIDE DEF f, U
      <3> QED
        BY <3>1, PhysicalSumIs
    <2>3. ASSUME NEW b \in S
          PROVE  f(U)[m[b]] = n[b] /\ n[b] \in Int
      <3>1. m[b] \in U /\ m[b] = UsedRow(w, b, hold[b]) /\ n[b] = -hold[b]
        BY <2>1
      <3>2. f(U)[m[b]] = m[b].physicalDelta
        BY <3>1
      <3>3. hold[b] \in Int
        BY <1>3, <1>4
      <3> HIDE DEF m, n, U, S
      <3> QED
        BY <3>1, <3>2, <3>3 DEF UsedRow
    <2>4. \A b, c \in S : m[b] = m[c] => b = c
      BY DEF UsedRow
    <2>5. SumOf(f(U), U) = SumOf(n, S)
      <3> HIDE DEF f, U, m, n, S
      <3> QED
        BY <1>3, <2>1, <2>3, <2>4, SumOfImage
    <2>6. SumOf(n, S) = -SumOf(hold, S)
      <3>1. \A b \in S : hold[b] \in Int /\ n[b] \in Int /\ hold[b] + n[b] = 0
        BY <1>3, <1>4
      <3> HIDE DEF n, S
      <3>2. SumOf(hold, S) + SumOf(n, S) = 0
        BY <1>3, <3>1, OppositeSums
      <3>3. SumOf(hold, S) \in Int /\ SumOf(n, S) \in Int
        BY <1>3, <3>1, SumOfInt
      <3> QED
        BY <3>2, <3>3
    <2> QED
      BY <2>2, <2>5, <2>6
  <1>7. SumOf(hold, S) \in Int
    BY <1>3, <1>4, SumOfInt
  <1> QED
    BY <1>2, <1>5, <1>6, <1>7

-----------------------------------------------------------------------------
(* What the rows of the ledger say of a committed work order.              *)

\* What the ledger says that a work order holds in a bucket.
LEMMA NetOfMaterial ==
  ASSUME NEW w, Material(w), NEW b \in Bucket
  PROVE  /\ NetReserved(ledger, w, b) \in Nat
         /\ committed[w] # Absent /\ committed[w].status = "IN_PROGRESS" =>
              \A hold : IsHold(committed[w], hold) /\ Of(ledger, w) = Taken(w, hold)
                          => NetReserved(ledger, w, b) = hold[b]
         /\ NetReserved(ledger, w, b) # 0 =>
              /\ committed[w] # Absent /\ committed[w].status = "IN_PROGRESS"
              /\ b \in BucketsOf(committed[w].item, committed[w].location)
  <1>1. NetReserved(ledger, w, b) = ReservedSum(At(Of(ledger, w), b))
    BY NetReservedIs
  <1>2. CASE Of(ledger, w) = {}
    <2>1. At({}, b) = {}
      BY DEF At
    <2>2. NetReserved(ledger, w, b) = 0
      BY <1>1, <1>2, <2>1, LedgerSums
    <2>3. ASSUME NEW hold, IsHold(committed[w], hold), Of(ledger, w) = Taken(w, hold)
          PROVE  NetReserved(ledger, w, b) = hold[b]
      BY <1>1, <2>3, NetOfHold DEF IsHold
    <2> QED
      BY <2>2, <2>3
  <1>3. CASE Of(ledger, w) # {}
    <2>1. PICK hold :
            /\ committed[w] # Absent
            /\ IsHold(committed[w], hold)
            /\ Of(ledger, w) = IF committed[w].status = "IN_PROGRESS"
                               THEN Taken(w, hold)
                               ELSE Taken(w, hold) \cup Used(w, hold, Support(hold))
      BY <1>3, WorkOrderRows DEF Material
    <2>2. /\ hold \in [Bucket -> Nat]
          /\ hold[b] > 0 => b \in BucketsOf(committed[w].item, committed[w].location)
      BY <2>1 DEF IsHold
    <2>3. NetReserved(ledger, w, b) = IF committed[w].status = "IN_PROGRESS"
                                      THEN hold[b] ELSE 0
      BY <1>1, <2>1, <2>2, NetOfHold
    <2>4. ASSUME NEW other, IsHold(committed[w], other),
                 Of(ledger, w) = Taken(w, other)
          PROVE  NetReserved(ledger, w, b) = other[b]
      BY <1>1, <2>4, NetOfHold DEF IsHold
    <2>5. hold[b] \in Nat
      BY <2>2
    <2> QED
      BY <2>1, <2>2, <2>3, <2>4, <2>5
  <1> QED
    BY <1>2, <1>3

\* A running work order holds what it requires, the others nothing; a completed
\* one has consumed it.
LEMMA MaterialTells ==
  ASSUME NEW w, Material(w), committed[w] # Absent
  PROVE  /\ HeldFor(w) = IF committed[w].status = "IN_PROGRESS"
                         THEN committed[w].requiredQty ELSE 0
         /\ ConsumedBy(w) = IF committed[w].status = "COMPLETED"
                            THEN committed[w].requiredQty ELSE 0
  <1> DEFINE net == [b \in Bucket |-> NetReserved(ledger, w, b)]
  <1>1. HeldFor(w) = SumOf(net, Bucket)
    <2>1. \A b \in Bucket : net[b] = NetReserved(ledger, w, b)
      OBVIOUS
    <2> HIDE DEF net
    <2> QED
      BY <2>1, HeldForIs
  <1>2. ConsumedBy(w) = -PhysicalSum(Of(ledger, w))
    BY DEF ConsumedBy, PhysicalSum, Of
  <1>0. PhysicalSum(Of(ledger, w)) \in Int =>
          /\ ConsumedBy(w) \in Int
          /\ PhysicalSum(Of(ledger, w)) + ConsumedBy(w) = 0
    BY <1>2
  <1>3. committed[w] \in WorkOrderRow
    BY DEF Material
  <1>4. CASE committed[w].status # "IN_PROGRESS"
    <2>1. \A b \in Bucket : net[b] = 0
      BY <1>4, NetOfMaterial
    <2> HIDE DEF net
    <2> QED
      <3>1. HeldFor(w) = 0
        BY <1>1, <2>1, FiniteBuckets, SumOfZeros
      <3>2. CASE committed[w].status = "ASSIGNED"
        <4>1. Of(ledger, w) = {}
          BY <3>2 DEF Material
        <4>2. PhysicalSum(Of(ledger, w)) = 0
          BY <4>1, LedgerSums
        <4>3. ConsumedBy(w) = 0
          BY <1>0, <4>2
        <4> QED
          BY <3>1, <3>2, <4>3
      <3>3. CASE committed[w].status # "ASSIGNED"
        <4>1. PICK hold : /\ IsHold(committed[w], hold)
                          /\ Total(hold) = committed[w].requiredQty
                          /\ Of(ledger, w) = Taken(w, hold)
                                               \cup Used(w, hold, Support(hold))
          BY <1>4, <3>3 DEF Material
        <4>2. hold \in [Bucket -> Nat] /\ Support(hold) \in SUBSET Support(hold)
          BY <4>1 DEF IsHold
        <4>3. PhysicalSum(Of(ledger, w)) = PhysicalSum(Taken(w, hold))
                + PhysicalSum(Used(w, hold, Support(hold)))
          <5>1. /\ Entries(Taken(w, hold)) /\ Entries(Used(w, hold, Support(hold)))
                /\ Taken(w, hold) \cap Used(w, hold, Support(hold)) = {}
            BY <4>2, RowsOfHold
          <5> QED
            BY <4>1, <5>1, LedgerSums
        <4>4. /\ PhysicalSum(Taken(w, hold)) = 0
              /\ PhysicalSum(Used(w, hold, Support(hold))) = -Total(hold)
              /\ Total(hold) \in Int
          BY <4>2, GoodsOfHold
        <4>5. \A i \in Int : -(0 + (-i)) = i
          OBVIOUS
        <4>6. ConsumedBy(w) = Total(hold)
          BY <1>2, <4>3, <4>4, <4>5
        <4>7. committed[w].status = "COMPLETED"
          BY <1>3, <1>4, <3>3 DEF WorkOrderRow, WorkOrderStatus
        <4> QED
          BY <3>1, <4>1, <4>6, <4>7
      <3> QED
        BY <3>2, <3>3
  <1>5. CASE committed[w].status = "IN_PROGRESS"
    <2>1. PICK hold : /\ IsHold(committed[w], hold)
                      /\ Total(hold) = committed[w].requiredQty
                      /\ Of(ledger, w) = Taken(w, hold)
      BY <1>5 DEF Material
    <2>2. \A b \in Bucket : net[b] = hold[b]
      BY <1>5, <2>1, NetOfMaterial
    <2> HIDE DEF net
    <2>3. HeldFor(w) = Total(hold)
      BY <1>1, <2>2, FiniteBuckets, SumOfSame DEF Total
    <2>4. PhysicalSum(Of(ledger, w)) = 0
      BY <2>1, GoodsOfHold DEF IsHold
    <2>5. ConsumedBy(w) = 0
      BY <1>0, <2>4
    <2> QED
      BY <1>5, <2>1, <2>3, <2>5
  <1> QED
    BY <1>4, <1>5

\* Among the units reserved in a bucket are those that a work order holds there.
LEMMA HeldIsReserved ==
  ASSUME WorkOrdersInv, NEW w \in WorkOrder, NEW b \in Bucket
  PROVE  NetReserved(ledger, w, b) <= Quantities(committed[b]).reservedQty
  <1> DEFINE S(V) == {e \in At(ledger, b) : e.refId \in V}
             R == {e.refId : e \in ledger}
  <1>1. Entries(ledger) /\ Entries(At(ledger, b))
    BY RowsAt DEF WorkOrdersInv, LedgerInv, EntriesOK
  <1>2. ASSUME NEW V
        PROVE  Entries(S(V)) /\ ReservedSum(S(V)) \in Int
    <2>1. Entries(S(V))
      BY <1>1, FS_Subset DEF Entries
    <2> HIDE DEF S
    <2> QED
      BY <2>1, LedgerSums
  <1>3. ASSUME NEW v \in WorkOrder
        PROVE  /\ S({v}) = At(Of(ledger, v), b)
               /\ ReservedSum(S({v})) = NetReserved(ledger, v, b)
               /\ NetReserved(ledger, v, b) \in Nat
    <2>1. S({v}) = At(Of(ledger, v), b)
      BY DEF At, Of
    <2>2. NetReserved(ledger, v, b) \in Nat
      BY NetOfMaterial DEF WorkOrdersInv
    <2> QED
      BY <2>1, <2>2, NetReservedIs
  <1>4. IsFiniteSet(R) /\ R \subseteq WorkOrder
    <2> DEFINE m == [e \in ledger |-> e.refId]
    <2>1. R = {m[e] : e \in ledger}
      OBVIOUS
    <2>2. IsFiniteSet({m[e] : e \in ledger})
      <3> HIDE DEF m
      <3> QED
        BY <1>1, FiniteImage DEF Entries
    <2> QED
      BY <2>1, <2>2 DEF WorkOrdersInv
  <1>5. ASSUME NEW V \in SUBSET R
        PROVE  ReservedSum(S(V)) >= 0
    <2> SUFFICES ASSUME ~(ReservedSum(S(V)) >= 0) PROVE FALSE
      OBVIOUS
    <2> DEFINE C == {T \in SUBSET R : ~(ReservedSum(S(T)) >= 0)}
    <2>1. C # {} /\ C \in SUBSET (SUBSET R)
      OBVIOUS
    <2>2. PICK T \in C : \A U \in C : U \subseteq T => U = T
      <3> HIDE DEF C, R
      <3> QED
        BY <1>4, <2>1, MinimalSubset
    <2>3. T # {}
      <3> SUFFICES ASSUME T = {} PROVE FALSE
        OBVIOUS
      <3>1. S({}) = {}
        OBVIOUS
      <3>2. ReservedSum(S(T)) = 0
        BY <3>1, LedgerSums
      <3>3. ~(ReservedSum(S(T)) >= 0)
        BY <2>2
      <3> HIDE DEF S, C
      <3> QED
        BY <3>2, <3>3
    <2>4. PICK v \in T : v \in WorkOrder
      BY <1>4, <2>2, <2>3
    <2> DEFINE U == T \ {v}
    <2>5. U \in SUBSET R /\ U \subseteq T /\ U # T
      BY <2>2
    <2>6. ReservedSum(S(U)) >= 0
      BY <2>2, <2>5
    <2>7. S(T) = S(U) \cup S({v}) /\ S(U) \cap S({v}) = {}
      OBVIOUS
    <2>8. ReservedSum(S(T)) = ReservedSum(S(U)) + ReservedSum(S({v}))
      <3> HIDE DEF S, U
      <3> QED
        BY <1>2, <2>7, LedgerSums
    <2>9. ReservedSum(S({v})) \in Nat
      <3>1. /\ ReservedSum(S({v})) = NetReserved(ledger, v, b)
            /\ NetReserved(ledger, v, b) \in Nat
        BY <1>3, <2>4
      <3> QED
        BY <3>1
    <2>10. ReservedSum(S(U)) \in Int
      BY <1>2
    <2>11. ~(ReservedSum(S(T)) >= 0)
      BY <2>2
    <2> HIDE DEF S, U, C
    <2> QED
      BY <2>6, <2>8, <2>9, <2>10, <2>11
  <1>6. At(ledger, b) = S({w}) \cup S(R \ {w}) /\ S({w}) \cap S(R \ {w}) = {}
    BY DEF At
  <1>7. ReservedSum(At(ledger, b)) = ReservedSum(S({w})) + ReservedSum(S(R \ {w}))
    <2> HIDE DEF S, R
    <2> QED
      BY <1>2, <1>6, LedgerSums
  <1>8. ReservedSum(S(R \ {w})) >= 0 /\ ReservedSum(S(R \ {w})) \in Int
    BY <1>2, <1>5
  <1>9. ReservedSum(S({w})) = NetReserved(ledger, w, b) /\ NetReserved(ledger, w, b) \in Nat
    BY <1>3
  <1>10. Quantities(committed[b]).reservedQty = ReservedSum(At(ledger, b))
    <2>1. Explains(At(ledger, b), InitialStock[b], committed[b])
      BY DEF WorkOrdersInv, LedgerInv, BooksOK
    <2>2. Quantities(InitialStock[b]).reservedQty = 0
      BY InitialQuantities
    <2>3. ReservedSum(At(ledger, b)) \in Int
      BY <1>1, LedgerSums
    <2> QED
      BY <2>1, <2>2, <2>3 DEF Explains
  <1> HIDE DEF S, R
  <1> QED
    BY <1>7, <1>8, <1>9, <1>10


-----------------------------------------------------------------------------
(* What a step leaves of the invariant.                                    *)

\* Nothing has happened at the start.
LEMMA InitWorkOrders == Init => WorkOrdersInv
  <1> SUFFICES ASSUME Init PROVE WorkOrdersInv
    OBVIOUS
  <1> USE StockAssumption, WorkOrdersAssumption
  <1>1. Idle \in TxRow
    BY DEF Idle, TxRow
  <1>2. StockTypeOK
    <2>1. \A b \in Bucket : committed[b] \in BucketRow \cup {Absent}
      BY DEF Init, Row, BucketRow
    <2> QED
      BY <1>1, <2>1 DEF Init, StockTypeOK
  <1>3. Unlocked
    BY DEF Init, Unlocked
  <1>4. \A t \in Txn : Phase(t)
    BY DEF Init, Phase, Resting, Holds, IsIdle, Idle
  <1>5. \A w \in WorkOrder : Material(w)
    BY WorkOrderRows DEF Init, Material, Of
  <1>6. \A b \in Bucket : WithinStock(committed[b])
    <2>1. ASSUME NEW b \in Bucket
          PROVE  WithinStock(InitialStock[b])
      BY InitialQuantities DEF WithinStock
    <2> QED
      BY <2>1, WorkOrderRows DEF Init
  <1> QED
    BY <1>2, <1>3, <1>4, <1>5, <1>6, InitLedger DEF WorkOrdersInv, Init

\* A transaction that is not idle is about a work order, whose row it holds.
LEMMA PhaseOf ==
  ASSUME WorkOrdersInv, NEW t \in Txn, ~IsIdle(t)
  PROVE  /\ tx[t].doc \in WorkOrder /\ Busy(t, tx[t].doc)
         /\ tx[t].doc \in Holds(t) /\ Holds(t) \subseteq {tx[t].doc} \cup Bucket
  <1>1. PICK w \in WorkOrder : Busy(t, w)
    BY DEF WorkOrdersInv, Phase, Resting
  <1>2. w \in Holds(t) /\ Holds(t) \subseteq {w} \cup Bucket
    BY <1>1 DEF Busy, Creating, Looking, Starting, Started, HasTaken, Completing,
                Completed, HasUsed, Support
  <1> QED
    BY <1>1, <1>2 DEF Busy

\* An idle one holds nothing.
LEMMA Begins ==
  ASSUME WorkOrdersInv, NEW t \in Txn, IsIdle(t)
  PROVE  Holds(t) = {} /\ pending[t] = {}
  BY DEF WorkOrdersInv, Phase, IsIdle, Resting, Busy, Creating, Looking, Starting,
         Started, Completing, Completed

\* Whoever holds a lock is busy.
LEMMA HoldersAreBusy == WorkOrdersInv => LocksOK
  <1> SUFFICES ASSUME WorkOrdersInv, NEW r \in Row
               PROVE  /\ holder[r] = None => working[r] = committed[r]
                      /\ holder[r] # None => ~IsIdle(holder[r])
    BY DEF LocksOK
  <1>1. ASSUME NEW t \in Txn, holder[r] = t
        PROVE  ~IsIdle(t)
    BY <1>1, Begins DEF Holds
  <1> QED
    BY <1>1 DEF WorkOrdersInv, StockTypeOK, Unlocked

\* A transaction whose record, rows and work order stay as they are keeps its phase.
LEMMA PhaseStays ==
  ASSUME WorkOrdersInv, NEW u \in Txn,
         tx'[u] = tx[u], pending'[u] = pending[u], Holds(u)' = Holds(u),
         \A r \in Holds(u) : working'[r] = working[r] /\ committed'[r] = committed[r],
         \A w \in WorkOrder : w \in Holds(u) => Of(ledger', w) = Of(ledger, w)
  PROVE  Phase(u)'
  <1>1. /\ tx'[u] = tx[u] /\ pending'[u] = pending[u] /\ Holds(u)' = Holds(u)
        /\ \A r \in Holds(u) : /\ working'[r] = working[r]
                               /\ committed'[r] = committed[r]
    OBVIOUS
  <1>2. CASE IsIdle(u)
    <2>1. Resting(u)'
      BY <1>1, <1>2, Begins DEF Resting, IsIdle
    <2> QED
      BY <2>1 DEF Phase
  <1>3. CASE ~IsIdle(u)
    <2>1. PICK w \in WorkOrder : /\ tx[u].doc = w /\ Busy(u, w) /\ w \in Holds(u)
                                 /\ Of(ledger', w) = Of(ledger, w)
      BY <1>3, PhaseOf
    <2>2. committed'[w] = committed[w] /\ working'[w] = working[w]
      BY <1>1, <2>1
    <2>3. Creating(u, w) => Creating(u, w)'
      BY <1>1, <2>2 DEF Creating
    <2>4. Looking(u, w) => Looking(u, w)'
      BY <1>1, <2>2 DEF Looking
    <2>5. ASSUME NEW hold, HasTaken(u, w, hold)
          PROVE  HasTaken(u, w, hold)'
      BY <1>1, <2>2, <2>5 DEF HasTaken
    <2>6. Starting(u, w) => Starting(u, w)'
      BY <1>1, <2>2, <2>5 DEF Starting
    <2>7. Started(u, w) => Started(u, w)'
      BY <1>1, <2>2, <2>5 DEF Started
    <2>8. ASSUME NEW hold, NEW S, HasUsed(u, w, hold, S)
          PROVE  HasUsed(u, w, hold, S)'
      <3>1. \A b \in S : committed'[b] = committed[b] /\ working'[b] = working[b]
        BY <1>1, <2>8 DEF HasUsed
      <3> QED
        BY <1>1, <2>1, <2>2, <2>8, <3>1 DEF HasUsed
    <2>9. Completing(u, w) => Completing(u, w)'
      BY <1>1, <2>2, <2>8 DEF Completing
    <2>10. Completed(u, w) => Completed(u, w)'
      BY <1>1, <2>2, <2>8 DEF Completed
    <2>11. Busy(u, w)'
      BY <1>1, <2>1, <2>3, <2>4, <2>6, <2>7, <2>9, <2>10 DEF Busy
    <2> QED
      BY <2>11 DEF Phase
  <1> QED
    BY <1>2, <1>3

\* What a step leaves alone keeps its phase.
LEMMA OthersKeepPhase ==
  ASSUME WorkOrdersInv, NEW t \in Txn, LeavesAlone(t), NEW u \in Txn \ {t},
         \A w \in WorkOrder : w \in Holds(u) => Of(ledger', w) = Of(ledger, w)
  PROVE  Phase(u)'
  BY PhaseStays DEF LeavesAlone

\* A statement of t that commits and rolls back nothing keeps the invariant if
\* it disturbs nobody and t comes to a phase.
LEMMA StatementKeeps ==
  ASSUME WorkOrdersInv, NEW t \in Txn, NEW S \in SUBSET Row, Touches(t, S),
         StockTypeOK', Phase(t)', LedgerInv'
  PROVE  WorkOrdersInv'
  <1>1. LeavesAlone(t) /\ Unlocked'
    BY TouchesAlone DEF WorkOrdersInv
  <1>2. committed' = committed /\ ledger' = ledger
    BY DEF Touches
  <1>3. \A u \in Txn : Phase(u)'
    BY <1>1, <1>2, OthersKeepPhase
  <1>4. \A w \in WorkOrder : Material(w)'
    BY <1>2 DEF Material, WorkOrdersInv
  <1> QED
    BY <1>1, <1>2, <1>3, <1>4 DEF WorkOrdersInv

\* So does one that books nothing and writes no bucket.
LEMMA QuietKeeps ==
  ASSUME WorkOrdersInv, NEW t \in Txn, NEW S \in SUBSET Row, Touches(t, S),
         StockTypeOK', Phase(t)', pending' = pending,
         \A b \in Bucket : working'[b] = working[b]
  PROVE  WorkOrdersInv'
  <1>1. BooksNothing(t)
    BY WorkOrderRows DEF BooksNothing, Touches, CanLock
  <1>2. LedgerInv'
    BY <1>1, HoldersAreBusy, NothingBooked DEF WorkOrdersInv
  <1> QED
    BY <1>2, StatementKeeps

\* The key of a ledger row names the work order that the row refers to.
LEMMA KeysNameOrders ==
  ASSUME WorkOrdersInv, NEW e \in ledger
  PROVE  \E b, kind : e.idempotencyKey = <<"WORK_ORDER", e.refId, kind, b>>
  <1>1. PICK w \in WorkOrder : e.refId = w
    BY DEF WorkOrdersInv
  <1>2. e \in Of(ledger, w)
    BY <1>1 DEF Of
  <1>3. PICK hold : e \in Taken(w, hold) \cup Used(w, hold, Support(hold))
    BY <1>2 DEF WorkOrdersInv, Material
  <1> QED
    BY <1>1, <1>3 DEF Taken, Used, TakenRow, UsedRow


-----------------------------------------------------------------------------
(* One lemma for every statement.                                          *)

\* The INSERT of a new work order.
LEMMA CreateKeeps ==
  ASSUME WorkOrdersInv, NEW t \in Txn, NEW w \in WorkOrder,
         NEW form \in WorkOrderForms, CreateWorkOrder(t, w, form)
  PROVE  WorkOrdersInv'
  <1>1. /\ IsIdle(t) /\ CanLock(t, w) /\ committed[w] = Absent
        /\ holder' = [holder EXCEPT ![w] = t]
        /\ working' = [working EXCEPT ![w] = NewWorkOrder(form)]
        /\ UNCHANGED <<committed, ledger, pending>>
        /\ Proceed(t, "create", "commit", w, 0)
    BY DEF CreateWorkOrder, InsertDocument, NewWorkOrder
  <1>2. /\ Holds(t) = {} /\ pending[t] = {} /\ StockTypeOK
        /\ w \in Row /\ w \notin Bucket /\ w \in Document
    BY <1>1, Begins, WorkOrderRows DEF WorkOrdersInv
  <1>3. /\ tx' \in [Txn -> TxRow] /\ (\A u \in Txn \ {t} : tx'[u] = tx[u])
        /\ tx'[t].op = "create" /\ tx'[t].step = "commit" /\ tx'[t].doc = w
    BY <1>1, <1>2, Proceeds DEF StockTypeOK
  <1>4. Touches(t, {w})
    BY <1>1, <1>2, <1>3 DEF Touches, StockTypeOK
  <1>5. StockTypeOK' /\ \A b \in Bucket : working'[b] = working[b]
    BY <1>1, <1>2, <1>3 DEF StockTypeOK
  <1>6. Creating(t, w)'
    <2>1. Holds(t)' = {w}
      BY <1>2, <1>4, TouchesAlone DEF WorkOrdersInv
    <2>2. working'[w] = NewWorkOrder(form)
      BY <1>1, <1>2 DEF StockTypeOK
    <2> QED
      BY <1>1, <1>2, <1>3, <2>1, <2>2 DEF Creating
  <1>7. Phase(t)'
    BY <1>3, <1>6 DEF Phase, Busy
  <1> QED
    BY <1>1, <1>2, <1>4, <1>5, <1>7, QuietKeeps

\* SELECT ... FOR UPDATE on a work order that is there.
LEMMA LockTaken ==
  ASSUME WorkOrdersInv, NEW t \in Txn, NEW w \in WorkOrder, LockDocument(t, w),
         tx' \in [Txn -> TxRow], \A u \in Txn \ {t} : tx'[u] = tx[u]
  PROVE  /\ {w} \in SUBSET Row /\ Touches(t, {w}) /\ StockTypeOK'
         /\ Holds(t)' = {w} /\ pending' = pending /\ pending[t] = {}
         /\ committed' = committed /\ ledger' = ledger /\ working' = working
         /\ committed[w] # Absent /\ working[w] = committed[w]
  <1>1. /\ IsIdle(t) /\ CanLock(t, w) /\ committed[w] # Absent
        /\ holder' = [holder EXCEPT ![w] = t]
        /\ UNCHANGED <<committed, working, ledger, pending>>
    BY DEF LockDocument
  <1>2. /\ Holds(t) = {} /\ pending[t] = {} /\ w \in Row /\ StockTypeOK
    BY <1>1, Begins, WorkOrderRows DEF WorkOrdersInv
  <1>3. Touches(t, {w})
    BY <1>1, <1>2 DEF Touches, StockTypeOK
  <1>4. StockTypeOK'
    BY <1>1, <1>2 DEF StockTypeOK
  <1>5. Holds(t)' = {w}
    BY <1>2, <1>3, TouchesAlone DEF WorkOrdersInv
  <1>6. working[w] = committed[w]
    BY <1>1, <1>2 DEF CanLock, Holds, WorkOrdersInv, Unlocked
  <1> QED
    BY <1>1, <1>2, <1>3, <1>4, <1>5, <1>6

\* The beginning of a start.
LEMMA BeginStartKeeps ==
  ASSUME WorkOrdersInv, NEW t \in Txn, NEW w \in WorkOrder, BeginStart(t, w)
  PROVE  WorkOrdersInv'
  <1>1. /\ LockDocument(t, w) /\ committed[w].status = "ASSIGNED"
        /\ Proceed(t, "start", "find", w, 0)
    BY DEF BeginStart, MayBecome
  <1>2. /\ tx' \in [Txn -> TxRow] /\ (\A u \in Txn \ {t} : tx'[u] = tx[u])
        /\ tx'[t].op = "start" /\ tx'[t].step = "find" /\ tx'[t].doc = w
    BY <1>1, Proceeds, WorkOrderRows DEF WorkOrdersInv, StockTypeOK
  <1>3. /\ {w} \in SUBSET Row /\ Touches(t, {w}) /\ StockTypeOK'
        /\ Holds(t)' = {w} /\ pending' = pending /\ pending[t] = {}
        /\ committed' = committed /\ ledger' = ledger /\ working' = working
        /\ committed[w] # Absent /\ working[w] = committed[w]
    BY <1>1, <1>2, LockTaken
  <1>4. Looking(t, w)'
    BY <1>1, <1>2, <1>3 DEF Looking
  <1>5. Phase(t)'
    BY <1>2, <1>4 DEF Phase, Busy
  <1> QED
    BY <1>3, <1>5, QuietKeeps

\* The beginning of a completion: what it is about to use is the hold.
LEMMA BeginCompleteKeeps ==
  ASSUME WorkOrdersInv, NEW t \in Txn, NEW w \in WorkOrder, BeginComplete(t, w)
  PROVE  WorkOrdersInv'
  <1> DEFINE holds == {b \in Bucket : NetReserved(ledger, w, b) > 0}
             row == [Idle EXCEPT !.op = "complete", !.step = "consume",
                                 !.doc = w, !.todo = holds]
  <1>1. /\ LockDocument(t, w) /\ committed[w].status = "IN_PROGRESS"
        /\ tx' = [tx EXCEPT ![t] = row]
    BY DEF BeginComplete, MayBecome
  <1>2. row \in TxRow /\ row.op = "complete" /\ row.step = "consume" /\ row.doc = w
          /\ row.todo = holds
    <2>1. /\ row.op = "complete" /\ row.step = "consume" /\ row.doc = w /\ row.line = 0
          /\ row.remaining = 0 /\ row.todo = holds
          /\ row = [f \in {"op", "step", "doc", "line", "remaining", "todo"} |->
                      row[f]]
      BY DEF Idle
    <2>2. holds \in SUBSET Bucket /\ w \in Document
      BY WorkOrderRows
    <2> HIDE DEF row, holds
    <2> QED
      BY <2>1, <2>2 DEF TxRow
  <1> HIDE DEF row
  <1>3. /\ tx' \in [Txn -> TxRow] /\ (\A u \in Txn \ {t} : tx'[u] = tx[u])
        /\ tx'[t] = row
    BY <1>1, <1>2 DEF WorkOrdersInv, StockTypeOK
  <1>4. /\ {w} \in SUBSET Row /\ Touches(t, {w}) /\ StockTypeOK'
        /\ Holds(t)' = {w} /\ pending' = pending /\ pending[t] = {}
        /\ committed' = committed /\ ledger' = ledger /\ working' = working
        /\ committed[w] # Absent /\ working[w] = committed[w]
    BY <1>1, <1>3, LockTaken
  <1>5. PICK hold : /\ IsHold(committed[w], hold)
                    /\ Total(hold) = committed[w].requiredQty
                    /\ Of(ledger, w) = Taken(w, hold)
    BY <1>1, <1>4 DEF WorkOrdersInv, Material
  <1>6. holds = Support(hold)
    <2>1. \A b \in Bucket : NetReserved(ledger, w, b) = hold[b]
      BY <1>1, <1>4, <1>5, NetOfMaterial DEF WorkOrdersInv
    <2> QED
      BY <2>1 DEF Support
  <1>7. Completing(t, w)'
    <2>1. HasUsed(t, w, hold, {})'
      BY <1>1, <1>2, <1>3, <1>4, <1>5 DEF HasUsed, Used
    <2>2. Support(hold) \ tx'[t].todo = {}
      BY <1>2, <1>3, <1>6
    <2> QED
      BY <1>2, <1>3, <1>4, <1>6, <2>1, <2>2 DEF Completing
  <1>8. Phase(t)'
    BY <1>2, <1>3, <1>7 DEF Phase, Busy
  <1> QED
    BY <1>4, <1>8, QuietKeeps

\* The look at the buckets finds enough.
LEMMA FindKeeps ==
  ASSUME WorkOrdersInv, NEW t \in Txn, FindMaterial(t)
  PROVE  WorkOrdersInv'
  <1>1. PICK w \in WorkOrder : w = tx[t].doc /\ Looking(t, w)
    BY PhaseOf DEF FindMaterial, IsIdle, Busy, Creating, Starting, Started,
                   Completing, Completed
  <1>2. /\ pending[t] = {} /\ Holds(t) = {w}
        /\ committed[w] # Absent /\ committed[w].status = "ASSIGNED"
        /\ working[w] = committed[w] /\ tx[t].op = "start" /\ StockTypeOK
    BY <1>1 DEF Looking, WorkOrdersInv
  <1>3. committed[w] \in WorkOrderRow /\ committed[w].requiredQty \in Nat
    BY <1>1, <1>2 DEF WorkOrdersInv, Material, WorkOrderRow
  <1>4. Candidates(t) \subseteq BucketsOf(committed[w].item, committed[w].location)
    BY <1>1, <1>2 DEF Candidates, AvailableBuckets
  <1>5. Candidates(t) \in SUBSET Bucket
    BY <1>4 DEF BucketsOf
  <1>6. /\ tx' = [tx EXCEPT ![t].step = "take",
                            ![t].remaining = committed[w].requiredQty,
                            ![t].todo = Candidates(t)]
        /\ UNCHANGED <<committed, working, holder, ledger, pending>>
    BY <1>1, <1>2 DEF FindMaterial, rows
  <1>7. /\ tx' \in [Txn -> TxRow] /\ (\A u \in Txn \ {t} : tx'[u] = tx[u])
        /\ tx'[t].op = "start" /\ tx'[t].step = "take" /\ tx'[t].doc = w
        /\ tx'[t].remaining = committed[w].requiredQty
        /\ tx'[t].todo = Candidates(t)
    <2>1. tx \in [Txn -> TxRow]
      BY <1>2 DEF StockTypeOK
    <2>2. PICK q \in Nat, T \in SUBSET Bucket :
            q = committed[w].requiredQty /\ T = Candidates(t)
      BY <1>3, <1>5
    <2>3. tx' = [tx EXCEPT ![t].step = "take", ![t].remaining = q, ![t].todo = T]
      BY <1>6, <2>2
    <2>4. tx' \in [Txn -> TxRow]
      <3> DEFINE row == [tx[t] EXCEPT !.step = "take", !.remaining = q, !.todo = T]
      <3>1. tx' = [tx EXCEPT ![t] = row]
        BY <2>3
      <3>2. /\ row.op = tx[t].op /\ row.step = "take" /\ row.doc = tx[t].doc
            /\ row.line = tx[t].line /\ row.remaining = q /\ row.todo = T
            /\ row = [f \in {"op", "step", "doc", "line", "remaining", "todo"} |->
                        row[f]]
        <4>1. PICK r \in TxRow : r = tx[t]
          BY <2>1
        <4>2. r = [f \in {"op", "step", "doc", "line", "remaining", "todo"} |-> r[f]]
          BY DEF TxRow
        <4> QED
          BY <4>1, <4>2
      <3>3. row \in TxRow
        <4> HIDE DEF row
        <4> QED
          BY <2>1, <3>2 DEF TxRow
      <3> HIDE DEF row
      <3> QED
        BY <2>1, <3>1, <3>3
    <2>5. /\ tx'[t].op = tx[t].op /\ tx'[t].step = "take" /\ tx'[t].doc = tx[t].doc
          /\ tx'[t].remaining = q /\ tx'[t].todo = T
          /\ \A u \in Txn \ {t} : tx'[u] = tx[u]
      BY <2>1, <2>3 DEF TxRow
    <2> QED
      BY <1>1, <1>2, <2>2, <2>4, <2>5
  <1>8. Touches(t, {}) /\ StockTypeOK'
    BY <1>2, <1>6, <1>7 DEF Touches, StockTypeOK
  <1> DEFINE hold == [b \in Bucket |-> 0]
  <1>9. /\ IsHold(committed[w], hold) /\ Support(hold) = {} /\ Total(hold) = 0
        /\ \A b \in Bucket : hold[b] = 0
    <2>1. hold \in [Bucket -> Nat] /\ \A b \in Bucket : hold[b] = 0
      OBVIOUS
    <2> HIDE DEF hold
    <2>2. Total(hold) = 0
      BY <2>1, FiniteBuckets, SumOfZeros DEF Total
    <2> QED
      BY <2>1, <2>2 DEF IsHold, Support
  <1> HIDE DEF hold
  <1>10. Starting(t, w)'
    <2>1. HasTaken(t, w, hold)'
      <3>1. Holds(t)' = {w} /\ Taken(w, hold) = {}
        BY <1>2, <1>6, <1>9 DEF Holds, Taken
      <3>2. w \notin Bucket
        BY <1>1, WorkOrderRows
      <3> QED
        BY <1>2, <1>6, <1>7, <1>9, <3>1, <3>2 DEF HasTaken
    <2>2. Total(hold) + tx'[t].remaining = committed[w].requiredQty
      BY <1>3, <1>7, <1>9
    <2> QED
      BY <1>2, <1>3, <1>4, <1>6, <1>7, <1>9, <2>1, <2>2 DEF Starting
  <1>11. Phase(t)'
    BY <1>1, <1>7, <1>10 DEF Phase, Busy
  <1> QED
    BY <1>6, <1>8, <1>11, QuietKeeps


\* The next bucket of a start: not taken from yet, and its newest version is the
\* committed one once the lock is granted.
LEMMA NextToTake ==
  ASSUME WorkOrdersInv, NEW t \in Txn, NEW w \in WorkOrder, NEW hold,
         HasTaken(t, w, hold), tx[t].todo # {},
         tx[t].todo \subseteq BucketsOf(committed[w].item, committed[w].location),
         tx[t].todo \cap Support(hold) = {},
         NEW b, b = FirstExpiring(tx[t].todo), CanLock(t, b)
  PROVE  /\ b \in Bucket /\ b \in Row /\ b # w /\ b \in tx[t].todo
         /\ b \in BucketsOf(committed[w].item, committed[w].location)
         /\ hold[b] = 0 /\ working[b] = committed[b]
  <1>1. b \in tx[t].todo /\ b \in BucketsOf(committed[w].item, committed[w].location)
    BY FirstExpiringIn DEF BucketsOf
  <1>2. b \in Bucket /\ b \in Row /\ b # w
    BY <1>1, WorkOrderRows DEF BucketsOf
  <1>3. hold[b] = 0
    BY <1>1, <1>2 DEF HasTaken, IsHold, Support
  <1>4. working[b] = committed[b]
    BY <1>2, <1>3 DEF CanLock, HasTaken, Holds, WorkOrdersInv, Unlocked
  <1> QED
    BY <1>1, <1>2, <1>3, <1>4

\* A bucket with nothing to take is locked and left.
LEMMA SkipKeeps ==
  ASSUME WorkOrdersInv, NEW t \in Txn, NEW w \in WorkOrder, tx[t].doc = w,
         tx[t].step = "take", NEW b, b = FirstExpiring(tx[t].todo), CanLock(t, b),
         tx[t].todo # {}, Busy(t, w),
         holder' = [holder EXCEPT ![b] = t],
         tx' = [tx EXCEPT ![t].todo = @ \ {b}],
         UNCHANGED <<committed, working, ledger, pending>>
  PROVE  WorkOrdersInv'
  <1>1. /\ tx[t].remaining \in Nat /\ working[w] = committed[w]
        /\ StockTypeOK /\ tx \in [Txn -> TxRow]
    BY DEF Busy, Creating, Looking, Starting, Started, Completing, Completed,
           WorkOrdersInv, StockTypeOK
  <1>2. PICK hold : /\ HasTaken(t, w, hold)
                    /\ Total(hold) + tx[t].remaining = committed[w].requiredQty
                    /\ tx[t].todo \subseteq BucketsOf(committed[w].item,
                                                      committed[w].location)
                    /\ tx[t].todo \cap Support(hold) = {}
    BY DEF Busy, Creating, Looking, Starting, Started, Completing, Completed
  <1>3. /\ b \in Bucket /\ b \in Row /\ b # w
        /\ hold[b] = 0 /\ working[b] = committed[b]
    BY <1>2, NextToTake
  <1>4. /\ tx' \in [Txn -> TxRow] /\ (\A u \in Txn \ {t} : tx'[u] = tx[u])
        /\ tx'[t].op = tx[t].op /\ tx'[t].step = "take" /\ tx'[t].doc = w
        /\ tx'[t].remaining = tx[t].remaining
        /\ tx'[t].todo = tx[t].todo \ {b}
    BY <1>1 DEF TxRow
  <1>5. Touches(t, {b}) /\ StockTypeOK'
    BY <1>1, <1>3, <1>4 DEF Touches, StockTypeOK
  <1>6. Holds(t)' = Holds(t) \cup {b}
    BY <1>3, <1>5, TouchesAlone DEF WorkOrdersInv
  <1>7. HasTaken(t, w, hold)'
    BY <1>2, <1>3, <1>4, <1>6 DEF HasTaken
  <1>8. Starting(t, w)'
    BY <1>1, <1>2, <1>4, <1>7 DEF Starting
  <1>9. Phase(t)'
    BY <1>4, <1>8 DEF Phase, Busy
  <1> QED
    BY <1>3, <1>5, <1>9, QuietKeeps

\* A hold that takes q units more from a bucket it has not taken from.
LEMMA HoldMore ==
  ASSUME NEW order, NEW hold, IsHold(order, hold), NEW b \in Bucket, hold[b] = 0,
         b \in BucketsOf(order.item, order.location), NEW q \in Nat \ {0}
  PROVE  \E more : /\ IsHold(order, more)
                   /\ more[b] = q /\ \A c \in Bucket \ {b} : more[c] = hold[c]
                   /\ Support(more) = Support(hold) \cup {b}
                   /\ Total(hold) \in Int /\ Total(more) = Total(hold) + q
                   /\ \A w : Taken(w, more) = Taken(w, hold) \cup {TakenRow(w, b, q)}
  <1>1. PICK more : more = [hold EXCEPT ![b] = q]
    OBVIOUS
  <1>2. /\ more \in [Bucket -> Nat] /\ more[b] = q
        /\ \A c \in Bucket \ {b} : more[c] = hold[c]
    BY <1>1 DEF IsHold
  <1>3. IsHold(order, more)
    BY <1>2 DEF IsHold
  <1>4. Support(more) = Support(hold) \cup {b} /\ b \notin Support(hold)
    BY <1>2 DEF Support
  <1>5. Total(hold) \in Int /\ Total(more) = Total(hold) + q
    <2>1. (\A c \in Bucket : hold[c] \in Int) /\ more[b] = hold[b] + q
      BY <1>2 DEF IsHold
    <2>2. Total(hold) \in Int
      BY <2>1, FiniteBuckets, SumOfInt DEF Total
    <2>3. q \in Int
      OBVIOUS
    <2>4. SumOf(more, Bucket) = SumOf(hold, Bucket) + q
      BY <1>2, <2>1, <2>3, FiniteBuckets, SumOfChange
    <2> QED
      BY <2>2, <2>4 DEF Total
  <1>6. ASSUME NEW w
        PROVE  Taken(w, more) = Taken(w, hold) \cup {TakenRow(w, b, q)}
    <2>1. \A c \in Support(hold) : c # b /\ more[c] = hold[c]
      BY <1>2, <1>4 DEF Support
    <2> QED
      BY <1>2, <1>4, <2>1 DEF Taken
  <1> QED
    BY <1>2, <1>3, <1>4, <1>5, <1>6

\* A movement that a work order books is one it has not booked before.
LEMMA NewKey ==
  ASSUME WorkOrdersInv, NEW t \in Txn, NEW w \in WorkOrder, NEW b \in Bucket,
         NEW hold \in [Bucket -> Nat], NEW S \in SUBSET Support(hold)
  PROVE  /\ pending[t] = Taken(w, hold) /\ hold[b] = 0 /\ Of(ledger, w) = {} =>
              \A e \in ledger \cup pending[t] :
                e.idempotencyKey # <<"WORK_ORDER", w, "RESERVE", b>>
         /\ pending[t] = Used(w, hold, S) /\ b \notin S
              /\ Of(ledger, w) = Taken(w, hold) =>
              \A e \in ledger \cup pending[t] :
                e.idempotencyKey # <<"WORK_ORDER", w, "CONSUME", b>>
  <1>1. \A e \in Taken(w, hold) : \E c \in Support(hold) :
          e.idempotencyKey = <<"WORK_ORDER", w, "RESERVE", c>>
    BY DEF Taken, TakenRow
  <1>2. \A e \in Used(w, hold, S) : \E c \in S :
          e.idempotencyKey = <<"WORK_ORDER", w, "CONSUME", c>>
    BY DEF Used, UsedRow
  <1>3. \A e \in ledger : e \notin Of(ledger, w) =>
          \E v, c, kind : v # w /\ e.idempotencyKey = <<"WORK_ORDER", v, kind, c>>
    BY KeysNameOrders DEF Of
  <1>4. hold[b] = 0 => b \notin Support(hold)
    BY DEF Support
  <1> QED
    BY <1>1, <1>2, <1>3, <1>4

\* One turn of the loop that takes the material.
LEMMA TakeKeeps ==
  ASSUME WorkOrdersInv, NEW t \in Txn, TakeMaterial(t)
  PROVE  WorkOrdersInv'
  <1>1. PICK w \in WorkOrder : tx[t].doc = w /\ Busy(t, w)
    BY PhaseOf DEF TakeMaterial, IsIdle
  <1>2. PICK b : b = FirstExpiring(tx[t].todo)
    OBVIOUS
  <1>3. PICK q : q = IF tx[t].remaining <= AvailableQty(working[b])
                     THEN tx[t].remaining ELSE AvailableQty(working[b])
    OBVIOUS
  <1>4. /\ tx[t].step = "take" /\ tx[t].remaining > 0 /\ tx[t].todo # {}
        /\ CanLock(t, b) /\ holder' = [holder EXCEPT ![b] = t]
        /\ \/ /\ q <= 0
              /\ tx' = [tx EXCEPT ![t].todo = @ \ {b}]
              /\ UNCHANGED <<working, pending>>
           \/ /\ q > 0
              /\ working' = [working EXCEPT ![b] = Moved(@, 0, q)]
              /\ Book(t, <<"WORK_ORDER", w, "RESERVE", b>>, b, 0, q, w)
              /\ tx' = [tx EXCEPT ![t].todo = @ \ {b}, ![t].remaining = @ - q]
        /\ UNCHANGED <<committed, ledger>>
    BY <1>1, <1>2, <1>3 DEF TakeMaterial
  <1>5. CASE q <= 0
    <2>1. tx' = [tx EXCEPT ![t].todo = @ \ {b}] /\ UNCHANGED <<working, pending>>
      <3>1. AvailableQty(working[b]) \in Int /\ tx[t].remaining \in Int
        <4>1. /\ b \in Bucket /\ StockTypeOK
          <5>1. tx[t].todo \in SUBSET Bucket
            BY DEF WorkOrdersInv, StockTypeOK, TxRow
          <5> QED
            BY <1>2, <1>4, <5>1, FirstExpiringIn DEF WorkOrdersInv
        <4>2. Quantities(working[b]) \in BucketRow
          BY <4>1, QuantitiesType DEF StockTypeOK
        <4> QED
          BY <4>1, <4>2 DEF StockTypeOK, TxRow, AvailableQty, BucketRow
      <3> QED
        BY <1>3, <1>4, <1>5, <3>1
    <2> QED
      BY <1>1, <1>2, <1>4, <2>1, SkipKeeps
  <1>6. CASE ~(q <= 0)
    <2>1. /\ tx[t].remaining \in Nat /\ working[w] = committed[w]
          /\ StockTypeOK /\ tx \in [Txn -> TxRow] /\ tx[t].op = "start"
      BY <1>1, <1>4 DEF Busy, Creating, Looking, Starting, Started, Completing,
                        Completed, HasTaken, WorkOrdersInv, StockTypeOK
    <2>2. PICK hold : /\ HasTaken(t, w, hold)
                      /\ Total(hold) + tx[t].remaining = committed[w].requiredQty
                      /\ tx[t].todo \subseteq BucketsOf(committed[w].item,
                                                        committed[w].location)
                      /\ tx[t].todo \cap Support(hold) = {}
      BY <1>1, <1>4 DEF Busy, Creating, Looking, Starting, Started, Completing,
                        Completed
    <2>3. /\ b \in Bucket /\ b \in Row /\ b # w /\ b \in tx[t].todo
          /\ b \in BucketsOf(committed[w].item, committed[w].location)
          /\ hold[b] = 0 /\ working[b] = committed[b]
      BY <1>2, <1>4, <2>2, NextToTake
    <2>4. AvailableQty(committed[b]) \in Int
      <3>1. Quantities(committed[b]) \in BucketRow
        BY <2>1, <2>3, QuantitiesType DEF StockTypeOK
      <3> QED
        BY <3>1 DEF AvailableQty, BucketRow
    <2>5. /\ q \in Nat \ {0} /\ q <= tx[t].remaining
          /\ q <= AvailableQty(committed[b])
      BY <1>3, <1>6, <2>1, <2>3, <2>4
    <2>6. committed[b] # Absent
      <3> SUFFICES ASSUME committed[b] = Absent PROVE FALSE
        OBVIOUS
      <3>1. AvailableQty(committed[b]) = 0
        BY DEF AvailableQty, Quantities
      <3> QED
        BY <2>5, <3>1
    <2>7. committed[b] \in BucketRow /\ Quantities(committed[b]) = committed[b]
      BY <2>1, <2>3, <2>6 DEF StockTypeOK, Quantities
    <2>8. /\ working' = [working EXCEPT ![b] = Moved(@, 0, q)]
          /\ Book(t, <<"WORK_ORDER", w, "RESERVE", b>>, b, 0, q, w)
          /\ tx' = [tx EXCEPT ![t].todo = @ \ {b}, ![t].remaining = @ - q]
      BY <1>4, <1>6
    <2>9. /\ tx' \in [Txn -> TxRow] /\ (\A u \in Txn \ {t} : tx'[u] = tx[u])
          /\ tx'[t].op = "start" /\ tx'[t].step = "take" /\ tx'[t].doc = w
          /\ tx'[t].remaining = tx[t].remaining - q
          /\ tx'[t].todo = tx[t].todo \ {b}
      BY <1>1, <1>4, <2>1, <2>5, <2>8 DEF TxRow
    <2>10. /\ working'[b] = Moved(committed[b], 0, q)
           /\ \A r \in Row \ {b} : working'[r] = working[r]
           /\ DOMAIN working' = Row
           /\ holder'[b] = t /\ \A r \in Row \ {b} : holder'[r] = holder[r]
           /\ holder' \in [Row -> Txn \cup {None}]
      BY <1>4, <2>1, <2>3, <2>8 DEF StockTypeOK
    <2>11. /\ pending'[t] = pending[t] \cup {TakenRow(w, b, q)}
           /\ \A u \in Txn \ {t} : pending'[u] = pending[u]
           /\ DOMAIN pending' = Txn
      BY <2>1, <2>8 DEF Book, TakenRow, StockTypeOK
    <2>12. Touches(t, {b})
      BY <1>4, <2>9, <2>10, <2>11 DEF Touches
    <2>13. StockTypeOK'
      <3>1. Moved(committed[b], 0, q) \in BucketRow
        BY <2>5, <2>7 DEF Moved, BucketRow
      <3> QED
        BY <1>4, <2>1, <2>9, <2>10, <2>11, <3>1, WorkOrderRows DEF StockTypeOK
    <2>14. LedgerInv'
      <3>1. Of(ledger, w) = {}
        BY <2>2, WorkOrderRows DEF HasTaken, WorkOrdersInv, Material
      <3>2. hold \in [Bucket -> Nat] /\ pending[t] = Taken(w, hold)
        BY <2>2 DEF HasTaken, IsHold
      <3>3. PICK key : key = <<"WORK_ORDER", w, "RESERVE", b>>
        OBVIOUS
      <3>4. \A e \in ledger \cup pending[t] : e.idempotencyKey # key
        BY <2>3, <3>1, <3>2, <3>3, NewKey
      <3>5. BooksMovement(t, key, b, 0, q, w)
        BY <1>4, <2>3, <2>6, <2>8, <2>10, <3>3, WorkOrderRows DEF BooksMovement
      <3> QED
        BY <2>3, <2>5, <3>4, <3>5, HoldersAreBusy, MovementBooked DEF WorkOrdersInv
    <2>15. PICK more : /\ IsHold(committed[w], more)
                       /\ more[b] = q /\ \A c \in Bucket \ {b} : more[c] = hold[c]
                       /\ Support(more) = Support(hold) \cup {b}
                       /\ Total(hold) \in Int /\ Total(more) = Total(hold) + q
                       /\ Taken(w, more) = Taken(w, hold) \cup {TakenRow(w, b, q)}
      <3>1. IsHold(committed[w], hold)
        BY <2>2 DEF HasTaken
      <3> QED
        BY <2>3, <2>5, <3>1, HoldMore
    <2>16. Holds(t)' = Holds(t) \cup {b}
      BY <2>3, <2>12, TouchesAlone DEF WorkOrdersInv
    <2>17. HasTaken(t, w, more)'
      <3>1. ASSUME NEW c \in Bucket \cap Holds(t)'
            PROVE  IF more[c] = 0 THEN working'[c] = committed[c]
                   ELSE /\ more[c] <= AvailableQty(committed[c])
                        /\ working'[c] = Moved(Quantities(committed[c]), 0, more[c])
        <4>1. CASE c = b
          BY <2>5, <2>7, <2>10, <2>15, <4>1
        <4>2. CASE c # b
          BY <2>2, <2>10, <2>15, <2>16, <4>2, WorkOrderRows DEF HasTaken
        <4> QED
          BY <4>1, <4>2
      <3> QED
        BY <1>4, <2>2, <2>3, <2>9, <2>11, <2>15, <2>16, <3>1 DEF HasTaken
    <2>18. Starting(t, w)'
      <3>1. /\ tx'[t].remaining \in Nat
            /\ Total(more) + tx'[t].remaining = committed[w].requiredQty
        BY <2>1, <2>2, <2>5, <2>9, <2>15
      <3>2. working'[w] = committed'[w]
        BY <1>4, <2>1, <2>3, <2>10, WorkOrderRows
      <3> QED
        BY <1>4, <2>2, <2>9, <2>15, <2>17, <3>1, <3>2 DEF Starting
    <2>19. Phase(t)'
      BY <2>9, <2>18 DEF Phase, Busy
    <2> QED
      BY <2>3, <2>12, <2>13, <2>14, <2>19, StatementKeeps
  <1> QED
    BY <1>5, <1>6


\* One turn of the loop that uses the material: the units are still reserved.
LEMMA UseKeeps ==
  ASSUME WorkOrdersInv, NEW t \in Txn, ConsumeMaterial(t)
  PROVE  WorkOrdersInv'
  <1>1. PICK w \in WorkOrder : tx[t].doc = w /\ Busy(t, w)
    BY PhaseOf DEF ConsumeMaterial, IsIdle
  <1>2. PICK b : b = FirstByUuid(tx[t].todo)
    OBVIOUS
  <1>3. PICK q : q = NetReserved(ledger, w, b)
    OBVIOUS
  <1>4. /\ tx[t].step = "consume" /\ tx[t].todo # {}
        /\ CanLock(t, b) /\ holder' = [holder EXCEPT ![b] = t]
        /\ working' = [working EXCEPT ![b] = Moved(@, -q, -q)]
        /\ Book(t, <<"WORK_ORDER", w, "CONSUME", b>>, b, -q, -q, w)
        /\ tx' = [tx EXCEPT ![t].todo = @ \ {b}]
        /\ UNCHANGED <<committed, ledger>>
    BY <1>1, <1>2, <1>3 DEF ConsumeMaterial
  <1>5. /\ working[w] = committed[w]
        /\ StockTypeOK /\ tx \in [Txn -> TxRow]
    BY <1>1, <1>4 DEF Busy, Creating, Looking, Starting, Started, Completing,
                      Completed, WorkOrdersInv, StockTypeOK
  <1>6. PICK hold : /\ HasUsed(t, w, hold, Support(hold) \ tx[t].todo)
                    /\ tx[t].todo \subseteq Support(hold)
    BY <1>1, <1>4 DEF Busy, Creating, Looking, Starting, Started, Completing,
                      Completed
  <1>7. PICK S : S = Support(hold) \ tx[t].todo
    OBVIOUS
  <1>8. /\ tx[t].op = "complete"
        /\ committed[w] # Absent /\ committed[w].status = "IN_PROGRESS"
        /\ hold \in [Bucket -> Nat] /\ IsHold(committed[w], hold)
        /\ Total(hold) = committed[w].requiredQty
        /\ Of(ledger, w) = Taken(w, hold)
        /\ S \in SUBSET Support(hold) /\ Holds(t) = {w} \cup S
        /\ pending[t] = Used(w, hold, S)
        /\ \A c \in S : /\ hold[c] <= Quantities(committed[c]).reservedQty
                        /\ working[c] = Moved(Quantities(committed[c]), -hold[c], -hold[c])
    BY <1>6, <1>7 DEF HasUsed, IsHold
  <1>9. b \in tx[t].todo /\ b \in Support(hold)
    <2>1. Support(hold) \subseteq Bucket
      BY DEF Support
    <2> QED
      BY <1>2, <1>4, <1>6, <2>1, FirstByUuidIn
  <1>10. b \in Bucket /\ b \in Row /\ b # w /\ b \notin S /\ hold[b] \in Nat \ {0}
    BY <1>7, <1>8, <1>9, WorkOrderRows DEF Support
  <1>11. q = hold[b]
    BY <1>3, <1>8, <1>10, NetOfMaterial DEF WorkOrdersInv
  <1>12. q \in Nat \ {0} /\ q \in Int /\ -q \in Int
    BY <1>10, <1>11
  <1>13. q <= Quantities(committed[b]).reservedQty
    BY <1>3, <1>10, HeldIsReserved
  <1>14. committed[b] # Absent
    <2> SUFFICES ASSUME committed[b] = Absent PROVE FALSE
      OBVIOUS
    <2>1. Quantities(committed[b]).reservedQty = 0
      BY DEF Quantities
    <2> QED
      BY <1>12, <1>13, <2>1
  <1>15. working[b] = committed[b]
    BY <1>4, <1>8, <1>10 DEF CanLock, Holds, WorkOrdersInv, Unlocked
  <1>16. committed[b] \in BucketRow /\ Quantities(committed[b]) = committed[b]
    BY <1>5, <1>10, <1>14 DEF StockTypeOK, Quantities
  <1>17. /\ tx' \in [Txn -> TxRow] /\ (\A u \in Txn \ {t} : tx'[u] = tx[u])
         /\ tx'[t].op = "complete" /\ tx'[t].step = "consume" /\ tx'[t].doc = w
         /\ tx'[t].todo = tx[t].todo \ {b}
    BY <1>1, <1>4, <1>5, <1>8 DEF TxRow
  <1>18. /\ working'[b] = Moved(committed[b], -q, -q)
         /\ \A r \in Row \ {b} : working'[r] = working[r]
         /\ DOMAIN working' = Row
         /\ holder'[b] = t /\ \A r \in Row \ {b} : holder'[r] = holder[r]
         /\ holder' \in [Row -> Txn \cup {None}]
    BY <1>4, <1>5, <1>10, <1>15 DEF StockTypeOK
  <1>19. /\ pending'[t] = pending[t] \cup {UsedRow(w, b, q)}
         /\ \A u \in Txn \ {t} : pending'[u] = pending[u]
         /\ DOMAIN pending' = Txn
    BY <1>4, <1>5 DEF Book, UsedRow, StockTypeOK
  <1>20. Touches(t, {b})
    BY <1>4, <1>17, <1>18, <1>19 DEF Touches
  <1>21. StockTypeOK'
    <2>1. Moved(committed[b], -q, -q) \in BucketRow
      BY <1>12, <1>16 DEF Moved, BucketRow
    <2> QED
      BY <1>4, <1>5, <1>17, <1>18, <1>19, <2>1, WorkOrderRows DEF StockTypeOK
  <1>22. LedgerInv'
    <2>1. PICK key : key = <<"WORK_ORDER", w, "CONSUME", b>>
      OBVIOUS
    <2>2. \A e \in ledger \cup pending[t] : e.idempotencyKey # key
      BY <1>8, <1>10, <2>1, NewKey
    <2>3. BooksMovement(t, key, b, -q, -q, w)
      BY <1>4, <1>10, <1>14, <1>15, <1>18, <2>1, WorkOrderRows DEF BooksMovement
    <2> QED
      BY <1>10, <1>12, <2>2, <2>3, HoldersAreBusy, MovementBooked DEF WorkOrdersInv
  <1>23. Holds(t)' = Holds(t) \cup {b}
    BY <1>10, <1>20, TouchesAlone DEF WorkOrdersInv
  <1>24. HasUsed(t, w, hold, S \cup {b})'
    <2>1. Used(w, hold, S \cup {b}) = Used(w, hold, S) \cup {UsedRow(w, b, q)}
      BY <1>11 DEF Used
    <2>2. \A c \in S : c # b /\ c \in Row
      BY <1>8, <1>10, WorkOrderRows DEF Support
    <2>3. \A c \in S \cup {b} :
            /\ hold[c] <= Quantities(committed[c]).reservedQty
            /\ working'[c] = Moved(Quantities(committed[c]), -hold[c], -hold[c])
      BY <1>8, <1>11, <1>13, <1>16, <1>18, <2>2
    <2> QED
      BY <1>4, <1>8, <1>9, <1>17, <1>19, <1>23, <2>1, <2>3 DEF HasUsed
  <1>25. Completing(t, w)'
    <2>1. Support(hold) \ (tx[t].todo \ {b}) = S \cup {b}
      BY <1>7, <1>9
    <2>2. working'[w] = committed'[w]
      BY <1>4, <1>5, <1>10, <1>18, WorkOrderRows
    <2> QED
      BY <1>6, <1>17, <1>24, <2>1, <2>2 DEF Completing
  <1>26. Phase(t)'
    BY <1>17, <1>25 DEF Phase, Busy
  <1> QED
    BY <1>10, <1>20, <1>21, <1>22, <1>26, StatementKeeps

\* The UPDATE of the status, once the material is held or used.
LEMMA FinishKeeps ==
  ASSUME WorkOrdersInv, NEW t \in Txn, FinishStatus(t)
  PROVE  WorkOrdersInv'
  <1>1. PICK w \in WorkOrder : tx[t].doc = w /\ Busy(t, w)
    BY PhaseOf DEF FinishStatus, IsIdle
  <1>2. PICK status : status = IF tx[t].op = "start" THEN "IN_PROGRESS" ELSE "COMPLETED"
    OBVIOUS
  <1>3. /\ \/ tx[t].step = "take" /\ tx[t].remaining <= 0
           \/ tx[t].step = "consume" /\ tx[t].todo = {}
        /\ working' = [working EXCEPT ![w].status = status]
        /\ Proceed(t, tx[t].op, "commit", w, 0)
        /\ UNCHANGED <<committed, holder, ledger, pending>>
    BY <1>1, <1>2 DEF FinishStatus
  <1>4. /\ working[w] = committed[w] /\ tx[t].op \in {"start", "complete"}
        /\ StockTypeOK /\ w \in Row /\ w \notin Bucket /\ w \in Document
        /\ w \in Holds(t)
    BY <1>1, <1>3, PhaseOf, WorkOrderRows
       DEF Busy, Creating, Looking, Starting, Started, Completing, Completed,
           HasTaken, HasUsed, WorkOrdersInv, IsIdle
  <1>5. /\ tx' \in [Txn -> TxRow] /\ (\A u \in Txn \ {t} : tx'[u] = tx[u])
        /\ tx'[t].op = tx[t].op /\ tx'[t].step = "commit" /\ tx'[t].doc = w
    BY <1>3, <1>4, Proceeds DEF StockTypeOK
  <1>6. /\ working'[w] = InStatus(committed[w], status)
        /\ \A r \in Row \ {w} : working'[r] = working[r]
        /\ DOMAIN working' = Row
    BY <1>3, <1>4 DEF StockTypeOK, InStatus
  <1>7. Touches(t, {}) /\ StockTypeOK' /\ \A b \in Bucket : working'[b] = working[b]
    <2>1. \A b \in Bucket : working'[b] = working[b]
      BY <1>4, <1>6, WorkOrderRows
    <2> QED
      BY <1>3, <1>4, <1>5, <1>6, <2>1 DEF Touches, StockTypeOK
  <1>8. Holds(t)' = Holds(t)
    BY <1>3 DEF Holds
  <1>9. Started(t, w)' \/ Completed(t, w)'
    <2>1. CASE Starting(t, w)
      <3>1. tx[t].remaining = 0 /\ status = "IN_PROGRESS"
        BY <1>2, <1>3, <2>1 DEF Starting, HasTaken
      <3>2. PICK hold : /\ HasTaken(t, w, hold)
                        /\ Total(hold) + 0 = committed[w].requiredQty
        BY <2>1, <3>1 DEF Starting
      <3>3. Total(hold) \in Int
        BY <3>2, GoodsOfHold DEF HasTaken, IsHold
      <3>4. HasTaken(t, w, hold)'
        <4>1. \A b \in Bucket \cap Holds(t) : working'[b] = working[b]
          BY <1>7
        <4> QED
          BY <1>3, <1>5, <1>8, <3>2, <4>1 DEF HasTaken
      <3>5. Total(hold) = committed[w].requiredQty
        BY <3>2, <3>3
      <3> QED
        BY <1>3, <1>5, <1>6, <3>1, <3>4, <3>5 DEF Started
    <2>2. CASE Completing(t, w)
      <3>1. tx[t].todo = {} /\ status = "COMPLETED"
        BY <1>2, <1>3, <2>2 DEF Completing, HasUsed
      <3>2. PICK hold : HasUsed(t, w, hold, Support(hold))
        BY <2>2, <3>1 DEF Completing
      <3>3. HasUsed(t, w, hold, Support(hold))'
        <4>1. \A b \in Support(hold) : working'[b] = working[b]
          BY <1>7 DEF Support
        <4> QED
          BY <1>3, <1>5, <1>8, <3>2, <4>1 DEF HasUsed
      <3> QED
        BY <1>3, <1>5, <1>6, <3>1, <3>3 DEF Completed
    <2> QED
      BY <1>1, <1>3, <2>1, <2>2 DEF Busy, Creating, Looking, Started, Completed
  <1>10. Phase(t)'
    BY <1>1, <1>5, <1>9 DEF Phase, Busy
  <1> QED
    BY <1>3, <1>7, <1>10, QuietKeeps

\* A transaction that is rolled back has done nothing.
LEMMA RollbackKeeps ==
  ASSUME WorkOrdersInv, NEW t \in Txn, Rollback(t)
  PROVE  WorkOrdersInv'
  <1>1. /\ StockTypeOK' /\ Unlocked' /\ LeavesAlone(t)
        /\ Holds(t)' = {} /\ pending'[t] = {} /\ tx'[t] = Idle
        /\ committed' = committed /\ ledger' = ledger
    BY RollbackEffect DEF WorkOrdersInv
  <1>2. \A u \in Txn : Phase(u)'
    <2>1. Phase(t)'
      BY <1>1 DEF Phase, Resting, IsIdle, Idle
    <2> QED
      BY <1>1, <2>1, OthersKeepPhase
  <1>3. LedgerInv'
    BY RollbackLedger DEF WorkOrdersInv
  <1>4. \A w \in WorkOrder : Material(w)'
    BY <1>1 DEF Material, WorkOrdersInv
  <1> QED
    BY <1>1, <1>2, <1>3, <1>4 DEF WorkOrdersInv


-----------------------------------------------------------------------------
(* What a COMMIT makes of the committed state.                             *)

\* Holding units that are available, or using units that are held, leaves a
\* bucket within its CHECK constraint.
LEMMA StockAfter ==
  ASSUME NEW row \in BucketRow \cup {Absent}, WithinStock(row), NEW q \in Nat
  PROVE  /\ q <= AvailableQty(row) => WithinStock(Moved(Quantities(row), 0, q))
         /\ q <= Quantities(row).reservedQty
              => WithinStock(Moved(Quantities(row), -q, -q))
  <1> DEFINE old == Quantities(row)
  <1>1. old \in BucketRow /\ old.physicalQty \in Int /\ old.reservedQty \in Int
    BY QuantitiesType DEF BucketRow
  <1>2. /\ 0 <= old.reservedQty /\ old.reservedQty <= old.physicalQty
        /\ AvailableQty(row) = old.physicalQty - old.reservedQty
    BY DEF WithinStock, AvailableQty
  <1>3. ASSUME NEW d \in Int, NEW e \in Int
        PROVE  /\ Quantities(Moved(old, d, e)).physicalQty = old.physicalQty + d
               /\ Quantities(Moved(old, d, e)).reservedQty = old.reservedQty + e
    <2>1. Moved(old, d, e) \in BucketRow
      BY <1>1 DEF Moved, BucketRow
    <2>2. Quantities(Moved(old, d, e)) = Moved(old, d, e)
      BY <2>1, StockAssumption DEF Quantities
    <2> QED
      BY <2>2 DEF Moved
  <1>4. q <= AvailableQty(row) => WithinStock(Moved(old, 0, q))
    <2>1. /\ Quantities(Moved(old, 0, q)).physicalQty = old.physicalQty + 0
          /\ Quantities(Moved(old, 0, q)).reservedQty = old.reservedQty + q
      BY <1>3
    <2> HIDE DEF old
    <2> QED
      BY <1>1, <1>2, <2>1 DEF WithinStock
  <1>5. q <= old.reservedQty => WithinStock(Moved(old, -q, -q))
    <2>1. /\ -q \in Int
          /\ Quantities(Moved(old, -q, -q)).physicalQty = old.physicalQty + (-q)
          /\ Quantities(Moved(old, -q, -q)).reservedQty = old.reservedQty + (-q)
      BY <1>3
    <2> HIDE DEF old
    <2> QED
      BY <1>1, <1>2, <2>1 DEF WithinStock
  <1> QED
    BY <1>4, <1>5

\* So no running transaction has written a bucket that is oversold.
LEMMA WorkingWithinStock ==
  ASSUME WorkOrdersInv, NEW b \in Bucket
  PROVE  WithinStock(working[b])
  <1>1. /\ committed[b] \in BucketRow \cup {Absent} /\ WithinStock(committed[b])
        /\ b \in Row
    BY WorkOrderRows DEF WorkOrdersInv, StockTypeOK
  <1>2. CASE holder[b] = None
    BY <1>1, <1>2 DEF WorkOrdersInv, Unlocked
  <1>3. CASE holder[b] # None
    <2>1. PICK t \in Txn : b \in Holds(t)
      BY <1>1, <1>3 DEF WorkOrdersInv, StockTypeOK, Holds
    <2>2. PICK w \in WorkOrder : Busy(t, w) /\ b # w
      BY <2>1, Begins, PhaseOf, WorkOrderRows
    <2>3. ASSUME NEW hold, HasTaken(t, w, hold)
          PROVE  WithinStock(working[b])
      <3>1. /\ hold[b] \in Nat
            /\ IF hold[b] = 0 THEN working[b] = committed[b]
               ELSE /\ hold[b] <= AvailableQty(committed[b])
                    /\ working[b] = Moved(Quantities(committed[b]), 0, hold[b])
        BY <2>1, <2>3 DEF HasTaken, IsHold
      <3> QED
        BY <1>1, <3>1, StockAfter
    <2>4. ASSUME NEW hold, NEW S, HasUsed(t, w, hold, S)
          PROVE  WithinStock(working[b])
      <3>1. /\ hold[b] \in Nat
            /\ hold[b] <= Quantities(committed[b]).reservedQty
            /\ working[b] = Moved(Quantities(committed[b]), -hold[b], -hold[b])
        BY <2>1, <2>2, <2>4 DEF HasUsed, IsHold
      <3> QED
        BY <1>1, <3>1, StockAfter
    <2> QED
      BY <2>1, <2>2, <2>3, <2>4 DEF Busy, Creating, Looking, Starting, Started,
                                    Completing, Completed
  <1> QED
    BY <1>2, <1>3

\* A work order is created, holds its material, or has used it; and no other
\* work order is concerned.
LEMMA CommitKeeps ==
  ASSUME WorkOrdersInv, NEW t \in Txn, WorkOrderCommit(t)
  PROVE  WorkOrdersInv'
  <1>1. /\ StockTypeOK' /\ Unlocked' /\ LeavesAlone(t)
        /\ Holds(t)' = {} /\ pending'[t] = {} /\ tx'[t] = Idle
        /\ \A r \in Row : committed'[r] = IF r \in Holds(t) THEN working[r]
                                                            ELSE committed[r]
        /\ ledger' = ledger \cup pending[t]
        /\ LedgerInv'
    BY CommitEffect, CommitLedger, HoldersAreBusy DEF WorkOrdersInv, WorkOrderCommit
  <1>2. PICK w \in WorkOrder : /\ Busy(t, w) /\ w \in Holds(t)
                               /\ Holds(t) \subseteq {w} \cup Bucket
    BY PhaseOf DEF WorkOrderCommit, IsIdle
  <1>3. \A e \in pending[t] : e.refId = w
    BY <1>2 DEF WorkOrderCommit, Busy, Creating, Looking, Starting, Started,
                Completing, Completed, HasTaken, HasUsed, Taken, Used, TakenRow,
                UsedRow
  <1>4. \A v \in WorkOrder \ {w} : /\ Of(ledger', v) = Of(ledger, v)
                                   /\ committed'[v] = committed[v]
    BY <1>1, <1>2, <1>3, WorkOrderRows DEF Of
  <1>5. /\ Of(ledger', w) = Of(ledger, w) \cup pending[t]
        /\ committed'[w] = working[w]
    BY <1>1, <1>2, <1>3, WorkOrderRows DEF Of
  <1>6. Material(w)'
    <2>1. CASE Creating(t, w)
      <3>1. /\ committed'[w] \in WorkOrderRow /\ committed'[w].status = "ASSIGNED"
        BY <1>5, <2>1, WorkOrderRows DEF Creating, NewWorkOrder
      <3>2. Of(ledger', w) = {}
        BY <1>5, <2>1, WorkOrderRows DEF Creating, WorkOrdersInv, Material
      <3> QED
        BY <3>1, <3>2 DEF Material
    <2>2. CASE Started(t, w)
      <3>1. PICK hold : /\ HasTaken(t, w, hold)
                        /\ Total(hold) = committed[w].requiredQty
        BY <2>2 DEF Started
      <3>2. committed[w] \in WorkOrderRow /\ Of(ledger, w) = {}
        BY <3>1 DEF HasTaken, WorkOrdersInv, Material
      <3>3. /\ committed'[w] \in WorkOrderRow /\ committed'[w].status = "IN_PROGRESS"
            /\ committed'[w].item = committed[w].item
            /\ committed'[w].location = committed[w].location
            /\ committed'[w].requiredQty = committed[w].requiredQty
        BY <1>5, <2>2, <3>2, WorkOrderRows DEF Started, WorkOrderStatus
      <3>4. Of(ledger', w) = Taken(w, hold) /\ IsHold(committed'[w], hold)
        BY <1>5, <3>1, <3>2, <3>3 DEF HasTaken, IsHold
      <3> QED
        BY <3>1, <3>3, <3>4 DEF Material
    <2>3. CASE Completed(t, w)
      <3>1. PICK hold : HasUsed(t, w, hold, Support(hold))
        BY <2>3 DEF Completed
      <3>2. committed[w] \in WorkOrderRow
        BY <3>1 DEF HasUsed, WorkOrdersInv, Material
      <3>3. /\ committed'[w] \in WorkOrderRow /\ committed'[w].status = "COMPLETED"
            /\ committed'[w].item = committed[w].item
            /\ committed'[w].location = committed[w].location
            /\ committed'[w].requiredQty = committed[w].requiredQty
        BY <1>5, <2>3, <3>2, WorkOrderRows DEF Completed, WorkOrderStatus
      <3>4. /\ Of(ledger', w) = Taken(w, hold) \cup Used(w, hold, Support(hold))
            /\ IsHold(committed'[w], hold)
            /\ Total(hold) = committed'[w].requiredQty
        BY <1>5, <3>1, <3>3 DEF HasUsed, IsHold
      <3> QED
        BY <3>3, <3>4 DEF Material
    <2> QED
      BY <1>2, <2>1, <2>2, <2>3 DEF WorkOrderCommit, Busy, Looking, Starting, Completing
  <1>7. \A v \in WorkOrder : Material(v)'
    BY <1>4, <1>6 DEF WorkOrdersInv, Material
  <1>8. \A u \in Txn : Phase(u)'
    <2>1. Phase(t)'
      BY <1>1 DEF Phase, Resting, IsIdle, Idle
    <2>2. \A u \in Txn \ {t} : w \notin Holds(u)
      BY <1>2 DEF Holds
    <2> QED
      BY <1>1, <1>4, <2>1, <2>2, OthersKeepPhase
  <1>9. \A b \in Bucket : WithinStock(committed'[b])
    BY <1>1, WorkOrderRows, WorkingWithinStock DEF WorkOrdersInv
  <1>10. \A e \in ledger' : e.refId \in WorkOrder
    BY <1>1, <1>3 DEF WorkOrdersInv
  <1> QED
    BY <1>1, <1>7, <1>8, <1>9, <1>10 DEF WorkOrdersInv

\* Every step keeps the invariant.
LEMMA StepWorkOrders == WorkOrdersInv /\ [WorkOrdersNext]_vars => WorkOrdersInv'
  <1> SUFFICES ASSUME WorkOrdersInv, [WorkOrdersNext]_vars PROVE WorkOrdersInv'
    OBVIOUS
  <1>1. CASE UNCHANGED vars
    <2>1. UNCHANGED <<committed, working, holder, ledger, pending, tx>>
      BY <1>1 DEF vars
    <2>2. StockTypeOK' /\ Unlocked' /\ LedgerInv'
      BY <2>1 DEF WorkOrdersInv, StockTypeOK, Unlocked, LedgerInv, EntriesOK, BooksOK
    <2>3. \A w \in WorkOrder : Material(w)'
      BY <2>1 DEF WorkOrdersInv, Material
    <2>4. \A t \in Txn : Phase(t)'
      BY <2>1, PhaseStays DEF Holds
    <2> QED
      BY <2>1, <2>2, <2>3, <2>4 DEF WorkOrdersInv
  <1>2. ASSUME NEW t \in Txn, WorkOrderRequest(t)
        PROVE  WorkOrdersInv'
    BY <1>2, CreateKeeps, BeginStartKeeps, BeginCompleteKeeps DEF WorkOrderRequest
  <1>3. ASSUME NEW t \in Txn, WorkOrderLocalStep(t)
        PROVE  WorkOrdersInv'
    BY <1>3, FindKeeps, FinishKeeps, CommitKeeps, RollbackKeeps
       DEF WorkOrderLocalStep, RefuseStart, RefuseTaken
  <1>4. ASSUME NEW t \in Txn, WorkOrderLockStep(t)
        PROVE  WorkOrdersInv'
    BY <1>4, TakeKeeps, UseKeeps DEF WorkOrderLockStep
  <1>5. ASSUME NEW t \in Txn, WorkOrderDeadlock(t) \/ Lost(t)
        PROVE  WorkOrdersInv'
    BY <1>5, RollbackKeeps DEF WorkOrderDeadlock, DeadlockVictim, Lost
  <1> QED
    BY <1>1, <1>2, <1>3, <1>4, <1>5 DEF WorkOrdersNext, WorkOrderStep


-----------------------------------------------------------------------------
(* What the listings and the start itself add up.                          *)

\* What a start sees available is a sum over the buckets it may take from.
LEMMA TotalAvailableIs ==
  ASSUME NEW t, NEW f, IsFiniteSet(Candidates(t)),
         \A b \in Candidates(t) : f[b] = AvailableQty(View(t, b))
  PROVE  TotalAvailable(t) = SumOf(f, Candidates(t))
  <1> DEFINE S == Candidates(t)
             Folds(g) == g = [T \in SUBSET S |->
                                IF T = {} THEN 0
                                ELSE LET x == CHOOSE x \in T : TRUE
                                     IN  AvailableQty(View(t, x)) + g[T \ {x}]]
             iter == CHOOSE g : Folds(g)
  <1>1. TotalAvailable(t) = iter[S]
    BY DEF TotalAvailable, MapThenSumSet, MapThenFoldSet
  <1> HIDE DEF S
  <1>2. ASSUME NEW g
        PROVE  Folds(g) <=> IsSum(g, f, S)
    BY DEF IsSum, PickOf, S
  <1>3. IsFiniteSet(S) /\ \E g : IsSum(g, f, S)
    BY SumExists DEF S
  <1> HIDE DEF Folds
  <1>4. Folds(iter)
    BY <1>2, <1>3
  <1> HIDE DEF iter
  <1>5. TotalAvailable(t) = SumOf(f, S)
    BY <1>1, <1>2, <1>3, <1>4, SumUnique DEF SumOf
  <1> QED
    BY <1>5 DEF S

\* What a listing shows as available is a sum over all buckets of the place.
LEMMA AvailableAtLocationIs ==
  ASSUME NEW version, NEW item, NEW location, NEW f,
         IsFiniteSet(BucketsOf(item, location)),
         \A b \in BucketsOf(item, location) : f[b] = AvailableQty(version[b])
  PROVE  AvailableAtLocation(version, item, location)
           = SumOf(f, BucketsOf(item, location))
  <1> DEFINE S == BucketsOf(item, location)
             Folds(g) == g = [T \in SUBSET S |->
                                IF T = {} THEN 0
                                ELSE LET x == CHOOSE x \in T : TRUE
                                     IN  AvailableQty(version[x]) + g[T \ {x}]]
             iter == CHOOSE g : Folds(g)
  <1>1. AvailableAtLocation(version, item, location) = iter[S]
    BY DEF AvailableAtLocation, MapThenSumSet, MapThenFoldSet
  <1> HIDE DEF S
  <1>2. ASSUME NEW g
        PROVE  Folds(g) <=> IsSum(g, f, S)
    BY DEF IsSum, PickOf, S
  <1>3. IsFiniteSet(S) /\ \E g : IsSum(g, f, S)
    BY SumExists DEF S
  <1> HIDE DEF Folds
  <1>4. Folds(iter)
    BY <1>2, <1>3
  <1> HIDE DEF iter
  <1>5. AvailableAtLocation(version, item, location) = SumOf(f, S)
    BY <1>1, <1>2, <1>3, <1>4, SumUnique DEF SumOf
  <1> QED
    BY <1>5 DEF S

\* The two agree, whatever t has or sees: a bucket that a start leaves out has
\* nothing available, and not less than nothing either.
LEMMA SameTotal ==
  ASSUME WorkOrdersInv, NEW t \in Txn, tx[t].doc \in WorkOrder,
         working[tx[t].doc] \in WorkOrderRow
  PROVE  LET order == working[tx[t].doc]
             seen == [b \in Bucket |-> View(t, b)]
         IN  /\ TotalAvailable(t) \in Int
             /\ AvailableAtLocation(seen, order.item, order.location)
                  = TotalAvailable(t)
  <1> DEFINE order == working[tx[t].doc]
             seen == [b \in Bucket |-> View(t, b)]
             f == [b \in Bucket |-> AvailableQty(View(t, b))]
             all == BucketsOf(order.item, order.location)
             S == Candidates(t)
  <1>1. /\ all \subseteq Bucket /\ S \subseteq all
        /\ \A b \in all : b \in S <=> f[b] > 0
    BY DEF BucketsOf, Candidates, AvailableBuckets
  <1>2. IsFiniteSet(all) /\ IsFiniteSet(S) /\ IsFiniteSet(all \ S)
    <2> HIDE DEF all, S
    <2> QED
      BY <1>1, FiniteBuckets, FS_Subset
  <1>3. ASSUME NEW b \in Bucket
        PROVE  f[b] \in Int /\ f[b] >= 0
    <2>1. PICK row \in BucketRow \cup {Absent} : row = View(t, b) /\ WithinStock(row)
      BY WorkingWithinStock DEF WorkOrdersInv, StockTypeOK, View
    <2>2. Quantities(row) \in BucketRow
      BY QuantitiesType
    <2>3. AvailableQty(row) \in Int /\ AvailableQty(row) >= 0
      BY <2>1, <2>2 DEF AvailableQty, WithinStock, BucketRow
    <2> QED
      BY <2>1, <2>3
  <1>4. TotalAvailable(t) = SumOf(f, S)
    <2>1. \A b \in S : f[b] = AvailableQty(View(t, b))
      BY <1>1
    <2> HIDE DEF f
    <2> QED
      BY <1>2, <2>1, TotalAvailableIs
  <1>5. AvailableAtLocation(seen, order.item, order.location) = SumOf(f, all)
    <2>1. \A b \in all : f[b] = AvailableQty(seen[b])
      BY <1>1
    <2> HIDE DEF f, seen, order
    <2> QED
      BY <1>2, <2>1, AvailableAtLocationIs
  <1> HIDE DEF f, all, S
  <1>6. SumOf(f, all \ S) = 0
    <2>1. \A b \in all \ S : f[b] = 0
      BY <1>1, <1>3
    <2> QED
      BY <1>2, <2>1, SumOfZeros
  <1>7. SumOf(f, all) = SumOf(f, S) + SumOf(f, all \ S)
    <2>1. S \cup (all \ S) = all /\ S \cap (all \ S) = {}
      BY <1>1
    <2>2. \A b \in all : f[b] \in Int
      BY <1>1, <1>3
    <2> QED
      BY <1>2, <2>1, <2>2, SumOfUnion
  <1>8. SumOf(f, S) \in Int
    BY <1>1, <1>2, <1>3, SumOfInt
  <1> QED
    BY <1>4, <1>5, <1>6, <1>7, <1>8

\* So a start at its first look and a listing at that instant decide alike.
LEMMA DecidesAsShown == WorkOrdersInv => StartDecidesAsShown
  <1> SUFFICES ASSUME WorkOrdersInv, NEW t \in Txn,
                      tx[t].op = "start", tx[t].step = "find"
               PROVE  LET order == working[tx[t].doc]
                          seen == [b \in Bucket |-> View(t, b)]
                      IN  TotalAvailable(t) >= order.requiredQty
                            <=> MaterialStatus(order, AvailableAtLocation(seen,
                                  order.item, order.location)).canStart
    BY DEF StartDecidesAsShown
  <1> DEFINE w == tx[t].doc
             seen == [b \in Bucket |-> View(t, b)]
  <1>1. /\ w \in WorkOrder /\ committed[w] # Absent
        /\ committed[w].status = "ASSIGNED" /\ working[w] = committed[w]
    BY PhaseOf DEF IsIdle, Busy, Creating, Looking, Starting, Started, Completing,
                   Completed
  <1>2. working[w] \in WorkOrderRow
    BY <1>1 DEF WorkOrdersInv, Material
  <1>3. /\ TotalAvailable(t) \in Int
        /\ AvailableAtLocation(seen, working[w].item, working[w].location)
             = TotalAvailable(t)
    BY <1>1, <1>2, SameTotal
  <1> HIDE DEF w, seen
  <1>4. ASSUME NEW order \in WorkOrderRow, order.status = "ASSIGNED",
               NEW available \in Int
        PROVE  available >= order.requiredQty
                 <=> MaterialStatus(order, available).canStart
    <2>1. PICK short \in Int : short = order.requiredQty - available
      BY <1>4 DEF WorkOrderRow
    <2>2. available >= order.requiredQty <=> short <= 0
      BY <1>4, <2>1 DEF WorkOrderRow
    <2>3. CASE short <= 0
      <3>1. MaterialStatus(order, available) =
              [shortageQty |-> 0, materialStatus |-> "SUFFICIENT", canStart |-> TRUE]
        BY <1>4, <2>1, <2>3 DEF MaterialStatus
      <3> QED
        BY <2>2, <2>3, <3>1
    <2>4. CASE short > 0
      <3>1. MaterialStatus(order, available) =
              [shortageQty |-> short, materialStatus |-> "SHORTAGE", canStart |-> FALSE]
        BY <1>4, <2>1, <2>4 DEF MaterialStatus
      <3> QED
        BY <2>2, <2>4, <3>1
    <2> QED
      BY <2>3, <2>4
  <1>5. TotalAvailable(t) >= working[w].requiredQty
          <=> MaterialStatus(working[w], TotalAvailable(t)).canStart
    BY <1>1, <1>2, <1>3, <1>4
  <1> QED
    BY <1>3, <1>5 DEF w, seen


-----------------------------------------------------------------------------
(* No movement twice.                                                      *)

\* The rows of one hold have different keys.
LEMMA KeysOfHold ==
  ASSUME NEW w, NEW hold \in [Bucket -> Nat], NEW S \in SUBSET Support(hold)
  PROVE  /\ \A d, e \in Taken(w, hold) \cup Used(w, hold, S) :
              d.idempotencyKey = e.idempotencyKey => d = e
         /\ \A d \in Taken(w, hold), e \in Used(w, hold, S) :
              d.idempotencyKey # e.idempotencyKey
         /\ \A e \in Taken(w, hold) \cup Used(w, hold, S) : \E b, kind :
              e.idempotencyKey = <<"WORK_ORDER", w, kind, b>>
  <1>1. \A e \in Taken(w, hold) : \E b \in Support(hold) :
          /\ e = TakenRow(w, b, hold[b])
          /\ e.idempotencyKey = <<"WORK_ORDER", w, "RESERVE", b>>
    BY DEF Taken, TakenRow
  <1>2. \A e \in Used(w, hold, S) : \E b \in S :
          /\ e = UsedRow(w, b, hold[b])
          /\ e.idempotencyKey = <<"WORK_ORDER", w, "CONSUME", b>>
    BY DEF Used, UsedRow
  <1>3. \A b, c : /\ <<"WORK_ORDER", w, "RESERVE", b>> # <<"WORK_ORDER", w, "CONSUME", c>>
                  /\ <<"WORK_ORDER", w, "RESERVE", b>> = <<"WORK_ORDER", w, "RESERVE", c>>
                       => b = c
                  /\ <<"WORK_ORDER", w, "CONSUME", b>> = <<"WORK_ORDER", w, "CONSUME", c>>
                       => b = c
    OBVIOUS
  <1>4. \A d, e \in Taken(w, hold) : d.idempotencyKey = e.idempotencyKey => d = e
    BY <1>1, <1>3
  <1>5. \A d, e \in Used(w, hold, S) : d.idempotencyKey = e.idempotencyKey => d = e
    BY <1>2, <1>3
  <1>6. \A d \in Taken(w, hold), e \in Used(w, hold, S) :
          d.idempotencyKey # e.idempotencyKey
    BY <1>1, <1>2, <1>3
  <1>7. \A e \in Taken(w, hold) \cup Used(w, hold, S) : \E b, kind :
          e.idempotencyKey = <<"WORK_ORDER", w, kind, b>>
    BY <1>1, <1>2
  <1> QED
    BY <1>4, <1>5, <1>6, <1>7

\* What a transaction has booked is part of the hold of its work order, and is
\* not in the ledger.
LEMMA KeysOfPending ==
  ASSUME WorkOrdersInv, NEW t \in Txn, NEW d \in pending[t]
  PROVE  \E w \in WorkOrder \cap Holds(t) :
           /\ \E b, kind : d.idempotencyKey = <<"WORK_ORDER", w, kind, b>>
           /\ \A e \in pending[t] : d.idempotencyKey = e.idempotencyKey => d = e
           /\ \A e \in Of(ledger, w) : d.idempotencyKey # e.idempotencyKey
  <1>1. PICK w \in WorkOrder \cap Holds(t) : Busy(t, w)
    BY Begins, PhaseOf
  <1>2. ASSUME NEW hold, HasTaken(t, w, hold)
        PROVE  /\ \E b, kind : d.idempotencyKey = <<"WORK_ORDER", w, kind, b>>
               /\ \A e \in pending[t] : d.idempotencyKey = e.idempotencyKey => d = e
               /\ \A e \in Of(ledger, w) : d.idempotencyKey # e.idempotencyKey
    <2>1. hold \in [Bucket -> Nat] /\ d \in Taken(w, hold) /\ pending[t] = Taken(w, hold)
      BY <1>2 DEF HasTaken, IsHold
    <2>2. Of(ledger, w) = {}
      BY <1>2, WorkOrderRows DEF HasTaken, WorkOrdersInv, Material
    <2> QED
      BY <2>1, <2>2, KeysOfHold
  <1>3. ASSUME NEW hold, NEW S, HasUsed(t, w, hold, S)
        PROVE  /\ \E b, kind : d.idempotencyKey = <<"WORK_ORDER", w, kind, b>>
               /\ \A e \in pending[t] : d.idempotencyKey = e.idempotencyKey => d = e
               /\ \A e \in Of(ledger, w) : d.idempotencyKey # e.idempotencyKey
    <2>1. /\ hold \in [Bucket -> Nat] /\ S \in SUBSET Support(hold)
          /\ d \in Used(w, hold, S) /\ pending[t] = Used(w, hold, S)
          /\ Of(ledger, w) = Taken(w, hold)
      BY <1>3 DEF HasUsed, IsHold
    <2> QED
      BY <2>1, KeysOfHold
  <1>4. /\ \E b, kind : d.idempotencyKey = <<"WORK_ORDER", w, kind, b>>
        /\ \A e \in pending[t] : d.idempotencyKey = e.idempotencyKey => d = e
        /\ \A e \in Of(ledger, w) : d.idempotencyKey # e.idempotencyKey
    BY <1>1, <1>2, <1>3 DEF Busy, Creating, Looking, Starting, Started,
                            Completing, Completed
  <1> QED
    BY <1>1, <1>4

\* No key is used twice, in the ledger or by two transactions.
LEMMA KeysAreUnique == WorkOrdersInv => KeysUnique
  <1> SUFFICES ASSUME WorkOrdersInv PROVE KeysUnique
    OBVIOUS
  <1>1. \A v, w, b, c, kind, sort :
          <<"WORK_ORDER", v, kind, b>> = <<"WORK_ORDER", w, sort, c>> => v = w
    OBVIOUS
  <1>2. ASSUME NEW d \in ledger, NEW e \in ledger, d.idempotencyKey = e.idempotencyKey
        PROVE  d = e
    <2>1. PICK w \in WorkOrder : w = d.refId /\ w = e.refId
      BY <1>1, <1>2, KeysNameOrders DEF WorkOrdersInv
    <2>2. d \in Of(ledger, w) /\ e \in Of(ledger, w)
      BY <2>1 DEF Of
    <2>3. PICK hold : /\ IsHold(committed[w], hold)
                      /\ Of(ledger, w) \subseteq Taken(w, hold)
                                                   \cup Used(w, hold, Support(hold))
      BY <2>2 DEF WorkOrdersInv, Material
    <2>4. hold \in [Bucket -> Nat] /\ Support(hold) \in SUBSET Support(hold)
      BY <2>3 DEF IsHold
    <2> QED
      BY <1>2, <2>2, <2>3, <2>4, KeysOfHold
  <1>3. ASSUME NEW t \in Txn, NEW u \in Txn, NEW d \in pending[t],
               NEW e \in ledger \cup pending[u], d.idempotencyKey = e.idempotencyKey
        PROVE  t = u /\ d = e /\ e \notin ledger
    <2>1. PICK w \in WorkOrder \cap Holds(t) :
            /\ \E b, kind : d.idempotencyKey = <<"WORK_ORDER", w, kind, b>>
            /\ \A f \in pending[t] : d.idempotencyKey = f.idempotencyKey => d = f
            /\ \A f \in Of(ledger, w) : d.idempotencyKey # f.idempotencyKey
      BY KeysOfPending
    <2>2. e \notin ledger
      <3> SUFFICES ASSUME e \in ledger PROVE FALSE
        OBVIOUS
      <3>1. PICK b, kind : e.idempotencyKey = <<"WORK_ORDER", e.refId, kind, b>>
        BY KeysNameOrders
      <3>2. PICK c, sort : e.idempotencyKey = <<"WORK_ORDER", w, sort, c>>
        BY <1>3, <2>1
      <3>3. e.refId = w
        BY <1>1, <3>1, <3>2
      <3> QED
        BY <1>3, <2>1, <3>3 DEF Of
    <2>3. e \in pending[u]
      BY <2>2
    <2>4. PICK v \in WorkOrder \cap Holds(u) :
            \E b, kind : e.idempotencyKey = <<"WORK_ORDER", v, kind, b>>
      BY <2>3, KeysOfPending
    <2>5. v = w
      BY <1>1, <1>3, <2>1, <2>4
    <2>6. t = u
      BY <2>1, <2>4, <2>5 DEF Holds
    <2> QED
      BY <1>3, <2>1, <2>2, <2>3, <2>6
  <1> QED
    BY <1>2, <1>3 DEF KeysUnique

-----------------------------------------------------------------------------
\* The ledger remembers of every work order exactly one hold, and every running
\* transaction has taken or used the part of one that its statement says.
THEOREM HoldsAreRemembered == WorkOrdersSpec => []WorkOrdersInv
  BY InitWorkOrders, StepWorkOrders, PTL DEF WorkOrdersSpec

\* Rows, locks, transactions and work orders stay what they are.
THEOREM WorkOrdersTypes == WorkOrdersSpec => []WorkOrdersTypeOK
  <1>1. ASSUME WorkOrdersInv, NEW w \in WorkOrder
        PROVE  /\ committed[w] \in WorkOrderRow \cup {Absent}
               /\ working[w] \in WorkOrderRow \cup {Absent}
    <2>1. committed[w] \in WorkOrderRow \cup {Absent} /\ w \in Row /\ w \notin Bucket
      BY <1>1, WorkOrderRows DEF WorkOrdersInv, Material
    <2>2. CASE holder[w] = None
      BY <1>1, <2>1, <2>2 DEF WorkOrdersInv, Unlocked
    <2>3. CASE holder[w] # None
      <3>1. PICK t \in Txn : w \in Holds(t)
        BY <1>1, <2>1, <2>3 DEF WorkOrdersInv, StockTypeOK, Holds
      <3>2. Busy(t, w)
        BY <1>1, <2>1, <3>1, Begins, PhaseOf
      <3>3. CASE Creating(t, w)
        BY <3>3, WorkOrderRows DEF Creating
      <3>4. CASE Started(t, w) \/ Completed(t, w)
        <4>1. committed[w] \in WorkOrderRow
          BY <2>1, <3>4 DEF Started, Completed, HasTaken, HasUsed
        <4> QED
          BY <3>4, <4>1, WorkOrderRows DEF Started, Completed, WorkOrderStatus
      <3> QED
        BY <2>1, <3>2, <3>3, <3>4 DEF Busy, Looking, Starting, Completing
    <2> QED
      BY <2>1, <2>2, <2>3
  <1>2. WorkOrdersInv => WorkOrdersTypeOK
    BY <1>1 DEF WorkOrdersTypeOK, WorkOrdersInv
  <1> QED
    BY <1>2, HoldsAreRemembered, PTL

\* A running work order holds exactly what it requires, of its own item and at
\* its own place; a completed one has used exactly that; the others hold nothing.
THEOREM MaterialIsHeld == WorkOrdersSpec => []WorkOrderHoldsItsMaterial
  <1>1. ASSUME WorkOrdersInv, NEW w \in WorkOrder, committed[w] # Absent
        PROVE  /\ HeldFor(w) = IF committed[w].status = "IN_PROGRESS"
                               THEN committed[w].requiredQty ELSE 0
               /\ ConsumedBy(w) = IF committed[w].status = "COMPLETED"
                                  THEN committed[w].requiredQty ELSE 0
               /\ \A b \in Bucket :
                    NetReserved(ledger, w, b) # 0 =>
                      /\ NetReserved(ledger, w, b) > 0
                      /\ b \in BucketsOf(committed[w].item, committed[w].location)
    <2>1. Material(w)
      BY <1>1 DEF WorkOrdersInv
    <2>2. \A b \in Bucket :
            /\ NetReserved(ledger, w, b) \in Nat
            /\ NetReserved(ledger, w, b) # 0
                 => b \in BucketsOf(committed[w].item, committed[w].location)
      BY <2>1, NetOfMaterial
    <2>3. \A n \in Nat : n # 0 => n > 0
      OBVIOUS
    <2> QED
      BY <1>1, <2>1, <2>2, <2>3, MaterialTells
  <1>2. WorkOrdersInv => WorkOrderHoldsItsMaterial
    BY <1>1 DEF WorkOrderHoldsItsMaterial
  <1> QED
    BY <1>2, HoldsAreRemembered, PTL

\* A start is refused at its first look exactly if a listing at that instant
\* says that the material is short, whatever other transactions are doing.
THEOREM StartsDecideAsShown == WorkOrdersSpec => []StartDecidesAsShown
  BY DecidesAsShown, HoldsAreRemembered, PTL

\* Work orders hold only what is available and use only what is held.
THEOREM WorkOrdersNeverOversell == WorkOrdersSpec => []NeverOversold
  <1>1. WorkOrdersInv => NeverOversold
    BY WorkingWithinStock DEF WorkOrdersInv, NeverOversold
  <1> QED
    BY <1>1, HoldsAreRemembered, PTL

\* Reconciliation finds nothing, whichever work orders started, failed or ended.
THEOREM WorkOrdersExplainStock == WorkOrdersSpec => []LedgerExplainsStock
  <1>1. WorkOrdersInv => LedgerExplainsStock
    BY LedgerInvExplains DEF WorkOrdersInv
  <1> QED
    BY <1>1, HoldsAreRemembered, PTL

\* No unit is held twice or used twice for the same need.
THEOREM NoMaterialTwice == WorkOrdersSpec => []KeysUnique
  BY KeysAreUnique, HoldsAreRemembered, PTL
=============================================================================
