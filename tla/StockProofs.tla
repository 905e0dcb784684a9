---------------------------- MODULE StockProofs ----------------------------
(***************************************************************************)
(* What the proofs about the services rest on: facts about the operators   *)
(* of StockService (there is a least number, a first bucket of an ordered  *)
(* list, and a sequence is a function), what COMMIT and ROLLBACK do to     *)
(* locks and rows, what MapThenSumSet returns, and how the ledger follows  *)
(* the buckets while transactions run.                                     *)
(***************************************************************************)
EXTENDS StockService, Sequences, TLAPS, FiniteSetTheorems, SequenceTheorems

\* Every nonempty set of naturals has a least element: of the intervals 0..n
\* that end in the set, one has no other below it.
LEMMA LeastNatural ==
  ASSUME NEW S \in SUBSET Nat, S # {}
  PROVE  \E m \in S : \A n \in S : m <= n
  <1> DEFINE R == StrictSubsetOrdering(Nat)
             F == FiniteSubsetsOf(Nat)
             T == {0 .. n : n \in S}
  <1>1. IsWellFoundedOn(R, F)
    BY FS_StrictSubsetOrderingWellFounded
  <1>2. T \subseteq F
    <2>1. \A n \in S : 0 .. n \in SUBSET Nat /\ IsFiniteSet(0 .. n)
      BY FS_Interval
    <2> QED
      BY <2>1 DEF FiniteSubsetsOf
  <1>3. PICK I \in T : \A J \in T : ~ (<<J, I>> \in R)
    <2>1. T # {}
      OBVIOUS
    <2> HIDE DEF R, F, T
    <2> QED
      BY <1>1, <1>2, <2>1, WFMin
  <1>4. PICK m \in S : I = 0 .. m
    BY <1>3
  <1>5. ASSUME NEW n \in S, n < m
        PROVE  FALSE
    <2>1. 0 .. n \subseteq 0 .. m /\ 0 .. m \subseteq Nat
      BY <1>5
    <2>2. m \in 0 .. m /\ m \notin 0 .. n
      BY <1>5
    <2>3. <<0 .. n, 0 .. m>> \in R
      BY <2>1, <2>2 DEF StrictSubsetOrdering
    <2> QED
      BY <1>3, <1>4, <2>3
  <1> QED
    BY <1>5

\* Min of a nonempty set of naturals is its least element.
LEMMA MinIsLeast ==
  ASSUME NEW S \in SUBSET Nat, S # {}
  PROVE  Min(S) \in S /\ \A n \in S : Min(S) <= n
  BY LeastNatural DEF Min

\* The next bucket of a nonempty list is one of the list.
LEMMA FirstExpiringIn ==
  ASSUME NEW S \in SUBSET Bucket, S # {}
  PROVE  /\ FirstExpiring(S) \in S
         /\ \A c \in S : FefoRank[FirstExpiring(S)[1]] <= FefoRank[c[1]]
  <1>1. \E b \in S : \A c \in S : FefoRank[b[1]] <= FefoRank[c[1]]
    <2> DEFINE T == {FefoRank[b[1]] : b \in S}
    <2>1. T \in SUBSET Nat /\ T # {}
      BY StockAssumption DEF Bucket
    <2>2. PICK m \in T : \A n \in T : m <= n
      <3> HIDE DEF T
      <3> QED
        BY <2>1, LeastNatural
    <2> QED
      BY <2>2
  <1> QED
    BY <1>1 DEF FirstExpiring

\* The next bucket by id is one of the list too.
LEMMA FirstByUuidIn ==
  ASSUME NEW S \in SUBSET Bucket, S # {}
  PROVE  FirstByUuid(S) \in S
  <1>1. \E b \in S : \A c \in S : UuidRank[b] <= UuidRank[c]
    <2> DEFINE T == {UuidRank[b] : b \in S}
    <2>1. T \in SUBSET Nat /\ T # {}
      BY StockAssumption
    <2>2. PICK m \in T : \A n \in T : m <= n
      <3> HIDE DEF T
      <3> QED
        BY <2>1, LeastNatural
    <2> QED
      BY <2>2
  <1> QED
    BY <1>1 DEF FirstByUuid

\* A function on 1..n is a sequence; one on a sequence's domain too.
LEMMA FunctionIsSeq ==
  ASSUME NEW S, NEW T, NEW s \in Seq(T), NEW f \in [DOMAIN s -> S]
  PROVE  f \in Seq(S)
  <1>1. Len(s) \in Nat /\ DOMAIN s = 1 .. Len(s)
    BY LenProperties
  <1> QED
    BY <1>1

\* What Proceed leaves in the record of its transaction.
LEMMA Proceeds ==
  ASSUME tx \in [Txn -> TxRow], NEW t \in Txn, NEW doc \in Document,
         NEW op \in {"none", "create", "reserve", "cancel", "fulfil", "start",
                     "complete", "dispatch", "receive", "receipt", "adjustment"},
         NEW step \in {"find", "take", "release", "debit", "commit"},
         NEW line \in Nat, Proceed(t, op, step, doc, line)
  PROVE  /\ tx' \in [Txn -> TxRow]
         /\ \A u \in Txn \ {t} : tx'[u] = tx[u]
         /\ tx'[t].op = op
         /\ tx'[t].step = step
         /\ tx'[t].doc = doc
         /\ tx'[t].line = line
         /\ tx'[t].todo = {}
  <1> DEFINE row == [Idle EXCEPT !.op = op, !.step = step, !.doc = doc,
                                 !.line = line]
  <1>1. /\ row.op = op /\ row.step = step /\ row.doc = doc /\ row.line = line
        /\ row.remaining = 0 /\ row.todo = {}
        /\ row = [f \in {"op", "step", "doc", "line", "remaining", "todo"} |->
                    row[f]]
    BY DEF Idle
  <1>2. tx' = [tx EXCEPT ![t] = row]
    BY DEF Proceed
  <1> HIDE DEF row
  <1>3. row \in TxRow
    BY <1>1 DEF TxRow
  <1> QED
    BY <1>1, <1>2, <1>3

-----------------------------------------------------------------------------
(***************************************************************************)
(* Who holds what.  A transaction and the rows it has locked are its own   *)
(* until it ends.                                                          *)
(***************************************************************************)

Holds(t) == {r \in Row : holder[r] = t}

\* A row nobody has locked has no uncommitted version.
Unlocked == \A r \in Row : holder[r] = None => working[r] = committed[r]

\* A step of t touches nothing of what another transaction holds.
LeavesAlone(t) ==
    \A u \in Txn \ {t} :
      /\ tx'[u] = tx[u] /\ pending'[u] = pending[u]
      /\ Holds(u)' = Holds(u)
      /\ \A r \in Holds(u) : /\ working'[r] = working[r]
                             /\ committed'[r] = committed[r]

\* What COMMIT does: the versions of t are committed, with what it booked.
LEMMA CommitEffect ==
  ASSUME StockTypeOK, Unlocked, NEW t \in Txn, Commit(t)
  PROVE  /\ StockTypeOK' /\ Unlocked' /\ LeavesAlone(t)
         /\ Holds(t)' = {} /\ pending'[t] = {} /\ tx'[t] = Idle
         /\ \A r \in Row : committed'[r] = IF r \in Holds(t) THEN working[r]
                                                             ELSE committed[r]
         /\ ledger' = ledger \cup pending[t]
  <1> USE StockAssumption
  <1>1. /\ committed' = [r \in Row |->
                            IF holder[r] = t THEN working[r] ELSE committed[r]]
        /\ ledger' = ledger \cup pending[t]
        /\ working' = working
        /\ holder' = [r \in Row |-> IF holder[r] = t THEN None ELSE holder[r]]
        /\ pending' = [pending EXCEPT ![t] = {}]
        /\ tx' = [tx EXCEPT ![t] = Idle]
    BY DEF Commit, Finish
  <1>2. StockTypeOK'
    <2>1. Idle \in TxRow
      BY DEF Idle, TxRow
    <2>2. tx' \in [Txn -> TxRow] /\ DOMAIN pending' = Txn
      BY <1>1, <2>1 DEF StockTypeOK
    <2>3. holder' \in [Row -> Txn \cup {None}]
      BY <1>1 DEF StockTypeOK
    <2> QED
      BY <1>1, <2>2, <2>3 DEF StockTypeOK, Row
  <1>3. Unlocked' /\ Holds(t)' = {}
    BY <1>1 DEF Unlocked, Holds
  <1>4. LeavesAlone(t)
    BY <1>1 DEF LeavesAlone, Holds, StockTypeOK
  <1> QED
    BY <1>1, <1>2, <1>3, <1>4 DEF StockTypeOK, Holds

\* What ROLLBACK does: the versions of t are forgotten, with what it booked.
LEMMA RollbackEffect ==
  ASSUME StockTypeOK, Unlocked, NEW t \in Txn, Rollback(t)
  PROVE  /\ StockTypeOK' /\ Unlocked' /\ LeavesAlone(t)
         /\ Holds(t)' = {} /\ pending'[t] = {} /\ tx'[t] = Idle
         /\ UNCHANGED <<committed, ledger>>
  <1> USE StockAssumption
  <1>1. /\ working' = [r \in Row |->
                          IF holder[r] = t THEN committed[r] ELSE working[r]]
        /\ committed' = committed /\ ledger' = ledger
        /\ holder' = [r \in Row |-> IF holder[r] = t THEN None ELSE holder[r]]
        /\ pending' = [pending EXCEPT ![t] = {}]
        /\ tx' = [tx EXCEPT ![t] = Idle]
    BY DEF Rollback, Finish
  <1>2. StockTypeOK'
    <2>1. Idle \in TxRow
      BY DEF Idle, TxRow
    <2>2. tx' \in [Txn -> TxRow] /\ DOMAIN pending' = Txn
      BY <1>1, <2>1 DEF StockTypeOK
    <2>3. holder' \in [Row -> Txn \cup {None}]
      BY <1>1 DEF StockTypeOK
    <2> QED
      BY <1>1, <2>2, <2>3 DEF StockTypeOK, Row
  <1>3. Unlocked' /\ Holds(t)' = {}
    BY <1>1 DEF Unlocked, Holds
  <1>4. LeavesAlone(t)
    BY <1>1 DEF LeavesAlone, Holds, StockTypeOK
  <1> QED
    BY <1>1, <1>2, <1>3, <1>4 DEF StockTypeOK

\* What a statement of t does that takes the lock of row r, or has it, and
\* writes at most rows it holds then.
Touches(t, S) ==
    /\ UNCHANGED <<committed, ledger>>
    /\ \A r \in S : CanLock(t, r)
    /\ \A r \in Row : holder'[r] = IF r \in S THEN t ELSE holder[r]
    /\ \A r \in Row \ (S \cup Holds(t)) : working'[r] = working[r]
    /\ \A u \in Txn \ {t} : pending'[u] = pending[u] /\ tx'[u] = tx[u]

\* Such a statement disturbs nobody.
LEMMA TouchesAlone ==
  ASSUME Unlocked, NEW t \in Txn, NEW S \in SUBSET Row, Touches(t, S)
  PROVE  LeavesAlone(t) /\ Unlocked' /\ Holds(t)' = Holds(t) \cup S
  BY StockAssumption DEF Touches, LeavesAlone, Unlocked, Holds, CanLock

-----------------------------------------------------------------------------
(***************************************************************************)
(* Sums.  MapThenSumSet is a fold: a recursive function on the subsets of  *)
(* a set.  What it returns is proved by looking at a smallest set for      *)
(* which it would be wrong.                                                *)
(***************************************************************************)

\* A nonempty collection of subsets of a finite set has a minimal member.
LEMMA MinimalSubset ==
  ASSUME NEW S, IsFiniteSet(S), NEW C \in SUBSET (SUBSET S), C # {}
  PROVE  \E T \in C : \A U \in C : U \subseteq T => U = T
  <1> DEFINE R == StrictSubsetOrdering(S)
             F == FiniteSubsetsOf(S)
  <1>1. IsWellFoundedOn(R, F)
    BY FS_StrictSubsetOrderingWellFounded
  <1>2. C \subseteq F
    BY FS_Subset DEF FiniteSubsetsOf
  <1>3. PICK T \in C : \A U \in C : ~ (<<U, T>> \in R)
    <2> HIDE DEF R, F
    <2> QED
      BY <1>1, <1>2, WFMin
  <1> QED
    BY <1>3 DEF StrictSubsetOrdering

-----------------------------------------------------------------------------
PickOf(T) == CHOOSE x \in T : TRUE

\* g[T] is the sum of f over T, for every subset T of S.
IsSum(g, f, S) ==
    g = [T \in SUBSET S |-> IF T = {} THEN 0 ELSE f[PickOf(T)] + g[T \ {PickOf(T)}]]

\* The sum of f over the finite set S.
SumOf(f, S) == (CHOOSE g : IsSum(g, f, S))[S]

\* There is at most one such g, on what two of them share.
LEMMA SumUnique ==
  ASSUME NEW S, IsFiniteSet(S), NEW T, NEW f, NEW h, NEW g1, NEW g2,
         IsSum(g1, f, S), IsSum(g2, h, T), \A x \in S \cap T : f[x] = h[x],
         NEW U \in SUBSET (S \cap T)
  PROVE  g1[U] = g2[U]
  <1> SUFFICES ASSUME g1[U] # g2[U] PROVE FALSE
    OBVIOUS
  <1> DEFINE C == {V \in SUBSET (S \cap T) : g1[V] # g2[V]}
  <1>1. C # {} /\ C \in SUBSET (SUBSET S)
    OBVIOUS
  <1>2. PICK V \in C : \A W \in C : W \subseteq V => W = V
    <2> HIDE DEF C
    <2> QED
      BY <1>1, MinimalSubset
  <1>3. V # {}
    BY DEF IsSum
  <1>4. PickOf(V) \in V
    BY <1>3 DEF PickOf
  <1>5. g1[V \ {PickOf(V)}] = g2[V \ {PickOf(V)}]
    BY <1>2, <1>4
  <1>6. /\ g1[V] = f[PickOf(V)] + g1[V \ {PickOf(V)}]
        /\ g2[V] = h[PickOf(V)] + g2[V \ {PickOf(V)}]
    BY <1>3 DEF IsSum
  <1> QED
    BY <1>4, <1>5, <1>6

\* There is one.
LEMMA SumExists ==
  ASSUME NEW S, IsFiniteSet(S), NEW f
  PROVE  \E g : IsSum(g, f, S)
  <1> SUFFICES ASSUME ~ \E g : IsSum(g, f, S) PROVE FALSE
    OBVIOUS
  <1> DEFINE C == {T \in SUBSET S : ~ \E g : IsSum(g, f, T)}
  <1>1. C # {} /\ C \in SUBSET (SUBSET S)
    OBVIOUS
  <1>2. PICK T \in C : \A U \in C : U \subseteq T => U = T
    <2> HIDE DEF C
    <2> QED
      BY <1>1, MinimalSubset
  <1> DEFINE G(U) == CHOOSE g : IsSum(g, f, U)
             p == PickOf(T)
             sum == [U \in SUBSET T |->
                       IF U # T THEN G(U)[U]
                       ELSE IF T = {} THEN 0 ELSE f[p] + G(T \ {p})[T \ {p}]]
  <1>3. ASSUME NEW U \in SUBSET T, U # T
        PROVE  IsSum(G(U), f, U)
    <2>1. \E g : IsSum(g, f, U)
      BY <1>2, <1>3
    <2> QED
      BY <2>1
  <1>4. ASSUME NEW U \in SUBSET T, U # {}
        PROVE  sum[U] = f[PickOf(U)] + sum[U \ {PickOf(U)}]
    <2>1. PickOf(U) \in U
      BY <1>4 DEF PickOf
    <2> DEFINE V == U \ {PickOf(U)}
    <2>2. V \in SUBSET T /\ V # T /\ V \in SUBSET U
      BY <2>1
    <2>3. sum[V] = G(V)[V]
      BY <2>2
    <2>4. CASE U = T
      BY <2>2, <2>3, <2>4, <1>4
    <2>5. CASE U # T
      <3>1. sum[U] = G(U)[U]
        BY <2>5
      <3>2. IsSum(G(U), f, U) /\ IsSum(G(V), f, V)
        BY <1>3, <2>2, <2>5
      <3> HIDE DEF G
      <3>3. G(U)[U] = f[PickOf(U)] + G(U)[V]
        BY <3>2, <1>4 DEF IsSum
      <3>4. IsFiniteSet(U)
        BY FS_Subset
      <3>5. G(U)[V] = G(V)[V]
        BY <3>2, <3>4, <2>2, SumUnique
      <3> QED
        BY <3>1, <3>3, <3>5, <2>3
    <2> QED
      BY <2>4, <2>5
  <1>5. sum[{}] = 0
    <2>1. CASE T = {}
      BY <2>1
    <2>2. CASE T # {}
      <3>1. IsSum(G({}), f, {})
        BY <1>3, <2>2
      <3> HIDE DEF G
      <3>2. G({})[{}] = 0
        BY <3>1 DEF IsSum
      <3> QED
        BY <3>2, <2>2
    <2> QED
      BY <2>1, <2>2
  <1>6. IsSum(sum, f, T)
    <2> HIDE DEF p, G
    <2>1. \A U \in SUBSET T : sum[U] = IF U = {} THEN 0
                                       ELSE f[PickOf(U)] + sum[U \ {PickOf(U)}]
      BY <1>4, <1>5
    <2>2. sum = [U \in SUBSET T |-> sum[U]]
      OBVIOUS
    <2> HIDE DEF sum
    <2> QED
      BY <2>1, <2>2 DEF IsSum
  <1> QED
    BY <1>2, <1>6

\* The sum over no element, and over one element and the rest.
LEMMA SumOfStep ==
  ASSUME NEW S, IsFiniteSet(S), NEW f
  PROVE  /\ SumOf(f, {}) = 0
         /\ S # {} => SumOf(f, S) = f[PickOf(S)] + SumOf(f, S \ {PickOf(S)})
  <1> DEFINE G(T) == CHOOSE g : IsSum(g, f, T)
  <1>1. ASSUME NEW T, IsFiniteSet(T)
        PROVE  IsSum(G(T), f, T)
    BY <1>1, SumExists
  <1>2. SumOf(f, {}) = 0
    <2>1. IsSum(G({}), f, {})
      BY <1>1, FS_EmptySet
    <2>2. SumOf(f, {}) = G({})[{}]
      BY DEF SumOf
    <2> HIDE DEF G
    <2> QED
      BY <2>1, <2>2 DEF IsSum
  <1>3. ASSUME S # {}
        PROVE  SumOf(f, S) = f[PickOf(S)] + SumOf(f, S \ {PickOf(S)})
    <2> DEFINE T == S \ {PickOf(S)}
    <2>1. T \in SUBSET S /\ IsFiniteSet(T)
      BY FS_Subset
    <2>2. IsSum(G(S), f, S) /\ IsSum(G(T), f, T)
      BY <1>1, <2>1
    <2>3. SumOf(f, S) = G(S)[S] /\ SumOf(f, T) = G(T)[T]
      BY DEF SumOf
    <2> HIDE DEF G
    <2>4. G(S)[S] = f[PickOf(S)] + G(S)[T]
      BY <2>2, <1>3 DEF IsSum
    <2>5. G(S)[T] = G(T)[T]
      BY <2>2, <2>1, SumUnique
    <2> QED
      BY <2>3, <2>4, <2>5
  <1> QED
    BY <1>2, <1>3

\* Functions with the same values have the same sum.
LEMMA SumOfSame ==
  ASSUME NEW S, IsFiniteSet(S), NEW f, NEW h, \A x \in S : f[x] = h[x]
  PROVE  SumOf(f, S) = SumOf(h, S)
  <1>1. IsSum(CHOOSE g : IsSum(g, f, S), f, S)
    BY SumExists
  <1>2. IsSum(CHOOSE g : IsSum(g, h, S), h, S)
    BY SumExists
  <1> QED
    BY <1>1, <1>2, SumUnique DEF SumOf

\* A sum of integers is an integer.
LEMMA SumOfInt ==
  ASSUME NEW S, IsFiniteSet(S), NEW f, \A x \in S : f[x] \in Int
  PROVE  SumOf(f, S) \in Int
  <1> SUFFICES ASSUME SumOf(f, S) \notin Int PROVE FALSE
    OBVIOUS
  <1> DEFINE C == {T \in SUBSET S : SumOf(f, T) \notin Int}
  <1>1. C # {} /\ C \in SUBSET (SUBSET S)
    OBVIOUS
  <1>2. PICK T \in C : \A U \in C : U \subseteq T => U = T
    <2> HIDE DEF C
    <2> QED
      BY <1>1, MinimalSubset
  <1>3. IsFiniteSet(T) /\ SumOf(f, {}) = 0
    BY FS_Subset, SumOfStep
  <1>4. T # {}
    BY <1>3
  <1>5. PickOf(T) \in T
    BY <1>4 DEF PickOf
  <1>6. SumOf(f, T \ {PickOf(T)}) \in Int
    BY <1>2, <1>5
  <1>7. SumOf(f, T) = f[PickOf(T)] + SumOf(f, T \ {PickOf(T)})
    BY <1>3, <1>4, SumOfStep
  <1> QED
    BY <1>5, <1>6, <1>7

\* Any element may be the one that is added to the rest.
LEMMA SumOfRemove ==
  ASSUME NEW S, IsFiniteSet(S), NEW f, \A x \in S : f[x] \in Int, NEW x \in S
  PROVE  SumOf(f, S) = f[x] + SumOf(f, S \ {x})
  <1> DEFINE Fails(T) == \E y \in T : SumOf(f, T) # f[y] + SumOf(f, T \ {y})
  <1> SUFFICES ASSUME Fails(S) PROVE FALSE
    OBVIOUS
  <1> DEFINE C == {T \in SUBSET S : Fails(T)}
  <1>1. C # {} /\ C \in SUBSET (SUBSET S)
    OBVIOUS
  <1>2. PICK T \in C : \A U \in C : U \subseteq T => U = T
    <2> HIDE DEF C
    <2> QED
      BY <1>1, MinimalSubset
  <1>3. PICK y \in T : SumOf(f, T) # f[y] + SumOf(f, T \ {y})
    BY <1>2
  <1> DEFINE p == PickOf(T)
  <1>4. IsFiniteSet(T) /\ p \in T
    BY FS_Subset DEF PickOf
  <1>5. SumOf(f, T) = f[p] + SumOf(f, T \ {p})
    BY <1>4, SumOfStep
  <1>6. y # p
    BY <1>3, <1>5
  <1>7. ASSUME NEW z \in T, NEW w \in T, z # w
        PROVE  SumOf(f, T \ {z}) = f[w] + SumOf(f, (T \ {z}) \ {w})
    <2> DEFINE U == T \ {z}
    <2>1. U \in SUBSET S /\ U \subseteq T /\ U # T /\ w \in U
      BY <1>7
    <2>2. ~ Fails(U)
      BY <1>2, <2>1
    <2> QED
      BY <2>1, <2>2
  <1>8. /\ SumOf(f, T \ {p}) = f[y] + SumOf(f, (T \ {p}) \ {y})
        /\ SumOf(f, T \ {y}) = f[p] + SumOf(f, (T \ {y}) \ {p})
    BY <1>4, <1>6, <1>7
  <1>9. (T \ {p}) \ {y} = (T \ {y}) \ {p}
    OBVIOUS
  <1>10. SumOf(f, (T \ {y}) \ {p}) \in Int
    <2>1. IsFiniteSet((T \ {y}) \ {p})
      BY <1>4, FS_Subset
    <2> QED
      BY <2>1, SumOfInt
  <1>11. f[p] \in Int /\ f[y] \in Int
    BY <1>4
  <1>12. PICK r \in Int : /\ SumOf(f, T \ {p}) = f[y] + r
                         /\ SumOf(f, T \ {y}) = f[p] + r
    <2> HIDE DEF p
    <2> QED
      BY <1>8, <1>9, <1>10
  <1>13. \A i, j, k \in Int : i + (j + k) = j + (i + k)
    OBVIOUS
  <1> HIDE DEF p
  <1> QED
    BY <1>3, <1>5, <1>11, <1>12, <1>13

\* One more element adds its value.
LEMMA SumOfAdd ==
  ASSUME NEW S, IsFiniteSet(S), NEW f, NEW x, x \notin S,
         \A y \in S \cup {x} : f[y] \in Int
  PROVE  SumOf(f, S \cup {x}) = f[x] + SumOf(f, S)
  <1>1. IsFiniteSet(S \cup {x}) /\ (S \cup {x}) \ {x} = S
    BY FS_AddElement
  <1> QED
    BY <1>1, SumOfRemove

\* A sum over two disjoint sets is the sum of the two sums.
LEMMA SumOfUnion ==
  ASSUME NEW S, IsFiniteSet(S), NEW T, IsFiniteSet(T), S \cap T = {}, NEW f,
         \A x \in S \cup T : f[x] \in Int
  PROVE  SumOf(f, S \cup T) = SumOf(f, S) + SumOf(f, T)
  <1> SUFFICES ASSUME SumOf(f, S \cup T) # SumOf(f, S) + SumOf(f, T) PROVE FALSE
    OBVIOUS
  <1> DEFINE C == {U \in SUBSET T : SumOf(f, S \cup U) # SumOf(f, S) + SumOf(f, U)}
  <1>1. C # {} /\ C \in SUBSET (SUBSET T)
    OBVIOUS
  <1>2. PICK U \in C : \A V \in C : V \subseteq U => V = U
    <2> HIDE DEF C
    <2> QED
      BY <1>1, MinimalSubset
  <1>3. IsFiniteSet(U) /\ IsFiniteSet(S \cup U)
    BY FS_Subset, FS_Union
  <1>4. U # {}
    <2>1. SumOf(f, {}) = 0 /\ SumOf(f, S) \in Int
      BY SumOfStep, SumOfInt
    <2>2. S \cup {} = S
      OBVIOUS
    <2> QED
      BY <2>1, <2>2
  <1>5. PICK x \in U : TRUE
    BY <1>4
  <1> DEFINE V == U \ {x}
  <1>6. V \subseteq U /\ V # U /\ V \in SUBSET T
    OBVIOUS
  <1>7. SumOf(f, S \cup V) = SumOf(f, S) + SumOf(f, V)
    BY <1>2, <1>6
  <1>8. SumOf(f, U) = f[x] + SumOf(f, V)
    BY <1>3, SumOfRemove
  <1>9. SumOf(f, S \cup U) = f[x] + SumOf(f, S \cup V)
    <2>1. (S \cup U) \ {x} = S \cup V
      OBVIOUS
    <2> QED
      BY <2>1, <1>3, SumOfRemove
  <1>10. SumOf(f, S) \in Int /\ SumOf(f, V) \in Int /\ f[x] \in Int
    BY <1>3, <1>6, FS_Subset, SumOfInt
  <1> HIDE DEF V
  <1> QED
    BY <1>2, <1>7, <1>8, <1>9, <1>10

\* When the value of one element changes, the sum changes by as much.
LEMMA SumOfChange ==
  ASSUME NEW S, IsFiniteSet(S), NEW f, NEW h, NEW x \in S, NEW d \in Int,
         \A y \in S : f[y] \in Int, h[x] = f[x] + d,
         \A y \in S \ {x} : h[y] = f[y]
  PROVE  SumOf(h, S) = SumOf(f, S) + d
  <1>1. IsFiniteSet(S \ {x})
    BY FS_Subset
  <1>2. /\ SumOf(f, S) = f[x] + SumOf(f, S \ {x})
        /\ SumOf(h, S) = h[x] + SumOf(h, S \ {x})
    BY SumOfRemove
  <1>3. /\ SumOf(h, S \ {x}) = SumOf(f, S \ {x})
        /\ SumOf(f, S \ {x}) \in Int
    BY <1>1, SumOfSame, SumOfInt
  <1> QED
    BY <1>2, <1>3

\* The sum of differences is the difference of the sums.
LEMMA SumOfMinus ==
  ASSUME NEW S, IsFiniteSet(S), NEW f, NEW g, NEW h,
         \A x \in S : f[x] \in Int /\ g[x] \in Int /\ h[x] = f[x] - g[x]
  PROVE  SumOf(h, S) = SumOf(f, S) - SumOf(g, S)
  <1> SUFFICES ASSUME SumOf(h, S) # SumOf(f, S) - SumOf(g, S) PROVE FALSE
    OBVIOUS
  <1> DEFINE C == {T \in SUBSET S : SumOf(h, T) # SumOf(f, T) - SumOf(g, T)}
  <1>1. C # {} /\ C \in SUBSET (SUBSET S)
    OBVIOUS
  <1>2. PICK T \in C : \A U \in C : U \subseteq T => U = T
    <2> HIDE DEF C
    <2> QED
      BY <1>1, MinimalSubset
  <1>3. IsFiniteSet(T) /\ T \subseteq S
    BY <1>1, <1>2, FS_Subset
  <1>4. SumOf(f, {}) = 0 /\ SumOf(g, {}) = 0 /\ SumOf(h, {}) = 0
    BY <1>3, SumOfStep
  <1>5. SumOf(h, T) # SumOf(f, T) - SumOf(g, T)
    BY <1>2
  <1>6. PICK x \in T : TRUE
    <2>1. ASSUME T = {}
          PROVE  FALSE
      <3>1. SumOf(h, {}) # SumOf(f, {}) - SumOf(g, {})
        BY <1>5, <2>1
      <3> QED
        BY <1>4, <3>1
    <2> QED
      BY <2>1
  <1>7. IsFiniteSet(T \ {x})
    BY <1>3, FS_Subset
  <1>8. SumOf(h, T \ {x}) = SumOf(f, T \ {x}) - SumOf(g, T \ {x})
    <2>1. T \ {x} \notin C
      BY <1>2
    <2> QED
      BY <1>3, <2>1
  <1>9. /\ SumOf(f, T \ {x}) \in Int
        /\ SumOf(g, T \ {x}) \in Int
    BY <1>3, <1>7, SumOfInt
  <1>10. \A y \in T : f[y] \in Int /\ g[y] \in Int /\ h[y] \in Int
    BY <1>3
  <1>11. /\ SumOf(f, T) = f[x] + SumOf(f, T \ {x})
         /\ SumOf(g, T) = g[x] + SumOf(g, T \ {x})
         /\ SumOf(h, T) = h[x] + SumOf(h, T \ {x})
    BY <1>3, <1>10, SumOfRemove
  <1>12. f[x] \in Int /\ g[x] \in Int /\ h[x] = f[x] - g[x]
    BY <1>3
  <1> QED
    BY <1>5, <1>8, <1>9, <1>11, <1>12

\* Finitely many finite sets, none of which shares an element with another,
\* have as many elements together as one by one.
LEMMA SumOfSizes ==
  ASSUME NEW S, IsFiniteSet(S), NEW U, NEW f,
         \A x \in S : IsFiniteSet(U[x]) /\ f[x] = Cardinality(U[x]),
         \A x, y \in S : x # y => U[x] \cap U[y] = {}
  PROVE  /\ IsFiniteSet(UNION {U[x] : x \in S})
         /\ Cardinality(UNION {U[x] : x \in S}) = SumOf(f, S)
  <1> DEFINE All(T) == UNION {U[x] : x \in T}
             Right(T) == IsFiniteSet(All(T)) /\ Cardinality(All(T)) = SumOf(f, T)
  <1> SUFFICES ASSUME ~ Right(S) PROVE FALSE
    OBVIOUS
  <1> DEFINE C == {T \in SUBSET S : ~ Right(T)}
  <1>1. C # {} /\ C \in SUBSET (SUBSET S)
    OBVIOUS
  <1>2. PICK T \in C : \A V \in C : V \subseteq T => V = T
    <2> HIDE DEF C
    <2> QED
      BY <1>1, MinimalSubset
  <1>3. IsFiniteSet(T) /\ T \subseteq S /\ ~ Right(T)
    BY <1>1, <1>2, FS_Subset
  <1>4. PICK x \in T : TRUE
    <2>1. ASSUME T = {}
          PROVE  FALSE
      <3>1. All({}) = {}
        OBVIOUS
      <3>2. IsFiniteSet({}) /\ Cardinality({}) = 0 /\ SumOf(f, {}) = 0
        BY <1>3, FS_EmptySet, SumOfStep
      <3> HIDE DEF All
      <3> QED
        BY <1>3, <2>1, <3>1, <3>2
    <2> QED
      BY <2>1
  <1>5. Right(T \ {x})
    <2>1. T \ {x} \notin C
      BY <1>2
    <2> QED
      BY <1>3, <2>1
  <1>6. All(T) = All(T \ {x}) \cup U[x]
    OBVIOUS
  <1>7. All(T \ {x}) \cap U[x] = {}
    BY <1>3
  <1>8. IsFiniteSet(U[x]) /\ f[x] = Cardinality(U[x])
    BY <1>3
  <1>9. \A y \in T : f[y] \in Int
    BY <1>3, FS_CardinalityType
  <1>10. SumOf(f, T) = f[x] + SumOf(f, T \ {x})
    BY <1>3, <1>9, SumOfRemove
  <1> HIDE DEF All
  <1>11. /\ IsFiniteSet(All(T))
         /\ Cardinality(All(T)) = Cardinality(All(T \ {x})) + Cardinality(U[x])
    <2>1. PICK A : A = All(T \ {x})
      OBVIOUS
    <2>2. PICK B : B = U[x]
      OBVIOUS
    <2>3. IsFiniteSet(A) /\ IsFiniteSet(B) /\ A \cap B = {}
      BY <1>5, <1>7, <1>8, <2>1, <2>2
    <2>4. /\ IsFiniteSet(A \cup B)
          /\ Cardinality(A \cup B) =
               Cardinality(A) + Cardinality(B) - Cardinality(A \cap B)
      BY <2>3, FS_Union
    <2>5. Cardinality(A \cap B) = 0
      BY <2>3, FS_EmptySet
    <2>6. Cardinality(A) \in Nat /\ Cardinality(B) \in Nat
      BY <2>3, FS_CardinalityType
    <2> QED
      BY <1>6, <2>1, <2>2, <2>4, <2>5, <2>6
  <1>12. Cardinality(All(T \ {x})) \in Nat /\ Cardinality(U[x]) \in Nat
    BY <1>5, <1>8, FS_CardinalityType
  <1> QED
    BY <1>3, <1>5, <1>8, <1>10, <1>11, <1>12

\* A sum of what is not negative is not negative.
LEMMA SumOfNat ==
  ASSUME NEW S, IsFiniteSet(S), NEW f, \A x \in S : f[x] \in Nat
  PROVE  SumOf(f, S) \in Nat
  <1> SUFFICES ASSUME SumOf(f, S) \notin Nat PROVE FALSE
    OBVIOUS
  <1> DEFINE C == {T \in SUBSET S : SumOf(f, T) \notin Nat}
  <1>1. C # {} /\ C \in SUBSET (SUBSET S)
    OBVIOUS
  <1>2. PICK T \in C : \A U \in C : U \subseteq T => U = T
    <2> HIDE DEF C
    <2> QED
      BY <1>1, MinimalSubset
  <1>3. IsFiniteSet(T) /\ T \subseteq S
    BY <1>1, <1>2, FS_Subset
  <1>4. SumOf(f, {}) = 0
    BY <1>3, SumOfStep
  <1>5. PICK x \in T : TRUE
    <2>1. ASSUME T = {}
          PROVE  FALSE
      <3>1. SumOf(f, {}) \notin Nat
        BY <1>2, <2>1
      <3> QED
        BY <1>4, <3>1
    <2> QED
      BY <2>1
  <1>6. SumOf(f, T \ {x}) \in Nat
    <2>1. T \ {x} \notin C
      BY <1>2
    <2> QED
      BY <1>3, <2>1
  <1>7. \A y \in T : f[y] \in Int
    BY <1>3
  <1>8. SumOf(f, T) = f[x] + SumOf(f, T \ {x})
    BY <1>3, <1>7, SumOfRemove
  <1>9. f[x] \in Nat /\ SumOf(f, T) \notin Nat
    BY <1>2, <1>3
  <1> QED
    BY <1>6, <1>8, <1>9

-----------------------------------------------------------------------------
(***************************************************************************)
(* The ledger.  Its two columns are summed with SumOver.                   *)
(***************************************************************************)

PhysicalSum(S) == SumOver(S, LAMBDA e : e.physicalDelta)
ReservedSum(S) == SumOver(S, LAMBDA e : e.reservedDelta)

\* The sum of the column physical_delta is a sum of a function.
LEMMA PhysicalSumIs ==
  ASSUME NEW S, IsFiniteSet(S), NEW f, \A e \in S : f[e] = e.physicalDelta
  PROVE  PhysicalSum(S) = SumOf(f, S)
  <1> DEFINE Folds(g) == g = [T \in SUBSET S |->
                                IF T = {} THEN 0
                                ELSE LET x == CHOOSE x \in T : TRUE
                                     IN  x.physicalDelta + g[T \ {x}]]
             iter == CHOOSE g : Folds(g)
  <1>1. PhysicalSum(S) = iter[S]
    BY DEF PhysicalSum, SumOver, MapThenSumSet, MapThenFoldSet
  <1>2. ASSUME NEW g
        PROVE  Folds(g) <=> IsSum(g, f, S)
    BY DEF IsSum, PickOf
  <1>3. \E g : IsSum(g, f, S)
    BY SumExists
  <1> HIDE DEF Folds
  <1>4. Folds(iter)
    BY <1>2, <1>3
  <1> HIDE DEF iter
  <1> QED
    BY <1>1, <1>2, <1>3, <1>4, SumUnique DEF SumOf

\* So is that of the column reserved_delta.
LEMMA ReservedSumIs ==
  ASSUME NEW S, IsFiniteSet(S), NEW f, \A e \in S : f[e] = e.reservedDelta
  PROVE  ReservedSum(S) = SumOf(f, S)
  <1> DEFINE Folds(g) == g = [T \in SUBSET S |->
                                IF T = {} THEN 0
                                ELSE LET x == CHOOSE x \in T : TRUE
                                     IN  x.reservedDelta + g[T \ {x}]]
             iter == CHOOSE g : Folds(g)
  <1>1. ReservedSum(S) = iter[S]
    BY DEF ReservedSum, SumOver, MapThenSumSet, MapThenFoldSet
  <1>2. ASSUME NEW g
        PROVE  Folds(g) <=> IsSum(g, f, S)
    BY DEF IsSum, PickOf
  <1>3. \E g : IsSum(g, f, S)
    BY SumExists
  <1> HIDE DEF Folds
  <1>4. Folds(iter)
    BY <1>2, <1>3
  <1> HIDE DEF iter
  <1> QED
    BY <1>1, <1>2, <1>3, <1>4, SumUnique DEF SumOf

\* A row of the ledger, as far as its sums go.
IsEntry(e) == /\ e.inventoryId \in Bucket
              /\ e.physicalDelta \in Int
              /\ e.reservedDelta \in Int

Entries(S) == IsFiniteSet(S) /\ \A e \in S : IsEntry(e)

\* The sums of no rows, of one more row, and of two sets of rows together.
LEMMA LedgerSums ==
  /\ PhysicalSum({}) = 0 /\ ReservedSum({}) = 0
  /\ \A S : Entries(S) => PhysicalSum(S) \in Int /\ ReservedSum(S) \in Int
  /\ \A S, T : Entries(S) /\ Entries(T) /\ S \cap T = {} =>
       /\ PhysicalSum(S \cup T) = PhysicalSum(S) + PhysicalSum(T)
       /\ ReservedSum(S \cup T) = ReservedSum(S) + ReservedSum(T)
  /\ \A S, e : Entries(S) /\ IsEntry(e) /\ e \notin S =>
       /\ PhysicalSum(S \cup {e}) = PhysicalSum(S) + e.physicalDelta
       /\ ReservedSum(S \cup {e}) = ReservedSum(S) + e.reservedDelta
  <1> DEFINE f(S) == [e \in S |-> e.physicalDelta]
             h(S) == [e \in S |-> e.reservedDelta]
  <1>1. PhysicalSum({}) = 0 /\ ReservedSum({}) = 0
    BY FS_EmptySet, PhysicalSumIs, ReservedSumIs, SumOfStep
  <1>2. ASSUME NEW S, NEW T, T \subseteq S, Entries(S)
        PROVE  /\ PhysicalSum(T) = SumOf(f(S), T)
               /\ ReservedSum(T) = SumOf(h(S), T)
               /\ IsFiniteSet(T)
               /\ \A e \in T : f(S)[e] \in Int /\ h(S)[e] \in Int
               /\ \A e \in T : /\ f(S)[e] = e.physicalDelta
                               /\ h(S)[e] = e.reservedDelta
    <2>1. IsFiniteSet(T)
      BY <1>2, FS_Subset DEF Entries
    <2>2. \A e \in T : /\ f(S)[e] = e.physicalDelta
                       /\ h(S)[e] = e.reservedDelta
      BY <1>2
    <2>3. \A e \in T : f(S)[e] \in Int /\ h(S)[e] \in Int
      BY <1>2 DEF Entries, IsEntry
    <2> HIDE DEF f, h
    <2> QED
      BY <2>1, <2>2, <2>3, PhysicalSumIs, ReservedSumIs
  <1> HIDE DEF f, h
  <1>3. ASSUME NEW S, Entries(S)
        PROVE  PhysicalSum(S) \in Int /\ ReservedSum(S) \in Int
    BY <1>2, <1>3, SumOfInt
  <1>4. ASSUME NEW S, NEW T, Entries(S), Entries(T), S \cap T = {}
        PROVE  /\ PhysicalSum(S \cup T) = PhysicalSum(S) + PhysicalSum(T)
               /\ ReservedSum(S \cup T) = ReservedSum(S) + ReservedSum(T)
    <2> DEFINE V == S \cup T
    <2>1. Entries(V) /\ S \subseteq V /\ T \subseteq V
      BY <1>4, FS_Union DEF Entries
    <2>2. /\ SumOf(f(V), V) = SumOf(f(V), S) + SumOf(f(V), T)
          /\ SumOf(h(V), V) = SumOf(h(V), S) + SumOf(h(V), T)
      BY <1>2, <1>4, <2>1, SumOfUnion
    <2> HIDE DEF V
    <2>3. /\ PhysicalSum(V) = PhysicalSum(S) + PhysicalSum(T)
          /\ ReservedSum(V) = ReservedSum(S) + ReservedSum(T)
      BY <1>2, <2>1, <2>2
    <2> QED
      BY <2>3 DEF V
  <1>5. ASSUME NEW S, NEW e, Entries(S), IsEntry(e), e \notin S
        PROVE  /\ PhysicalSum(S \cup {e}) = PhysicalSum(S) + e.physicalDelta
               /\ ReservedSum(S \cup {e}) = ReservedSum(S) + e.reservedDelta
    <2> DEFINE V == S \cup {e}
    <2>1. Entries(V) /\ S \subseteq V /\ e \in V
      BY <1>5, FS_AddElement DEF Entries
    <2>2. /\ SumOf(f(V), V) = f(V)[e] + SumOf(f(V), S)
          /\ SumOf(h(V), V) = h(V)[e] + SumOf(h(V), S)
      BY <1>2, <1>5, <2>1, SumOfAdd
    <2>3. /\ PhysicalSum(V) = SumOf(f(V), V) /\ PhysicalSum(S) = SumOf(f(V), S)
          /\ ReservedSum(V) = SumOf(h(V), V) /\ ReservedSum(S) = SumOf(h(V), S)
          /\ f(V)[e] = e.physicalDelta /\ h(V)[e] = e.reservedDelta
      BY <1>2, <2>1
    <2>4. /\ e.physicalDelta \in Int /\ e.reservedDelta \in Int
          /\ PhysicalSum(S) \in Int /\ ReservedSum(S) \in Int
      BY <1>3, <1>5 DEF IsEntry
    <2> HIDE DEF V
    <2>5. /\ PhysicalSum(V) = PhysicalSum(S) + e.physicalDelta
          /\ ReservedSum(V) = ReservedSum(S) + e.reservedDelta
      BY <2>2, <2>3, <2>4
    <2> QED
      BY <2>5 DEF V
  <1> QED
    BY <1>1, <1>3, <1>4, <1>5

-----------------------------------------------------------------------------
(***************************************************************************)
(* The ledger against the buckets, while transactions run: what the locks  *)
(* keep true of every service that books its movements with Book.          *)
(***************************************************************************)

\* A row nobody has locked has no uncommitted version, and a transaction that
\* has not begun or has ended holds no lock.
LocksOK ==
    \A r \in Row : /\ holder[r] = None => working[r] = committed[r]
                   /\ holder[r] # None => ~IsIdle(holder[r])

\* What a transaction has booked is not in the ledger yet, and concerns
\* buckets it has locked.
EntriesOK ==
    /\ Entries(ledger)
    /\ \A t \in Txn : /\ Entries(pending[t])
                      /\ pending[t] \cap ledger = {}
                      /\ \A e \in pending[t] : holder[e.inventoryId] = t

At(S, b) == {e \in S : e.inventoryId = b}

\* The movements S turn the quantities of the row before into those of row.
Explains(S, before, row) ==
    /\ Quantities(row).physicalQty = Quantities(before).physicalQty + PhysicalSum(S)
    /\ Quantities(row).reservedQty = Quantities(before).reservedQty + ReservedSum(S)

\* The ledger explains what is committed of a bucket, and the rows a
\* transaction has booked so far explain what it has made of it.
BooksOK ==
    \A b \in Bucket :
      /\ Explains(At(ledger, b), InitialStock[b], committed[b])
      /\ \A t \in Txn :
           holder[b] = t => Explains(At(pending[t], b), committed[b], working[b])

LedgerInv == EntriesOK /\ BooksOK

\* Selecting the rows of a bucket.
LEMMA RowsAt ==
  ASSUME NEW S, Entries(S), NEW b
  PROVE  Entries(At(S, b))
  <1>1. At(S, b) \subseteq S
    BY DEF At
  <1> QED
    BY <1>1, FS_Subset DEF Entries

\* The quantities of a bucket are numbers.
LEMMA QuantitiesType ==
  ASSUME NEW row \in BucketRow \cup {Absent}
  PROVE  Quantities(row) \in BucketRow
  BY DEF Quantities, BucketRow

\* The initial quantities of a bucket are numbers, and nothing is reserved.
LEMMA InitialQuantities ==
  ASSUME NEW b \in Bucket
  PROVE  /\ Quantities(InitialStock[b]) \in BucketRow
         /\ Quantities(InitialStock[b]).physicalQty >= 0
         /\ Quantities(InitialStock[b]).reservedQty = 0
  BY StockAssumption DEF Quantities, BucketRow

\* Nothing is booked at the start.
LEMMA InitLedger == Init => LedgerInv
  <1> SUFFICES ASSUME Init PROVE LedgerInv
    OBVIOUS
  <1>1. Entries({}) /\ (\A b : At({}, b) = {})
    BY FS_EmptySet DEF Entries, At
  <1>2. EntriesOK
    BY <1>1 DEF Init, EntriesOK
  <1>3. ASSUME NEW b \in Bucket
        PROVE  Explains({}, InitialStock[b], committed[b])
    <2>1. committed[b] = InitialStock[b]
      BY DEF Init, Row
    <2>2. Quantities(InitialStock[b]) \in BucketRow
      BY InitialQuantities
    <2> QED
      BY <2>1, <2>2, LedgerSums DEF Explains, BucketRow
  <1>4. \A b \in Bucket, t \in Txn : holder[b] # t
    BY StockAssumption DEF Init, Row
  <1>5. BooksOK
    BY <1>1, <1>3, <1>4 DEF BooksOK, Init
  <1> QED
    BY <1>2, <1>5 DEF LedgerInv

\* Two sets of movements, one after the other.
LEMMA ExplainedInTurn ==
  ASSUME NEW S, NEW T, Entries(S), Entries(T), S \cap T = {},
         NEW first, NEW second, NEW third,
         Quantities(first) \in BucketRow, Quantities(second) \in BucketRow,
         Explains(S, first, second), Explains(T, second, third)
  PROVE  Explains(S \cup T, first, third)
  <1>1. /\ PhysicalSum(S \cup T) = PhysicalSum(S) + PhysicalSum(T)
        /\ ReservedSum(S \cup T) = ReservedSum(S) + ReservedSum(T)
        /\ PhysicalSum(S) \in Int /\ PhysicalSum(T) \in Int
        /\ ReservedSum(S) \in Int /\ ReservedSum(T) \in Int
    BY LedgerSums
  <1> QED
    BY <1>1 DEF Explains, BucketRow

\* COMMIT appends what the transaction booked to the ledger.
LEMMA CommitLedger ==
  ASSUME StockTypeOK, LocksOK, LedgerInv, NEW t \in Txn, Commit(t)
  PROVE  LedgerInv'
  <1> USE StockAssumption
  <1>1. /\ ledger' = ledger \cup pending[t]
        /\ pending' = [pending EXCEPT ![t] = {}]
        /\ pending'[t] = {} /\ \A u \in Txn \ {t} : pending'[u] = pending[u]
        /\ \A r \in Row : holder'[r] = IF holder[r] = t THEN None ELSE holder[r]
        /\ \A r \in Row : committed'[r] = IF holder[r] = t THEN working[r]
                                                           ELSE committed[r]
        /\ working' = working
    BY DEF Commit, Finish, StockTypeOK
  <1>2. EntriesOK'
    <2>1. Entries(ledger') /\ Entries({})
      BY <1>1, FS_Union, FS_EmptySet DEF LedgerInv, EntriesOK, Entries
    <2>2. ASSUME NEW u \in Txn, u # t
          PROVE  /\ Entries(pending'[u])
                 /\ pending'[u] \cap ledger' = {}
                 /\ \A e \in pending'[u] : holder'[e.inventoryId] = u
      <3>1. \A e \in pending[u] : e.inventoryId \in Row
        BY DEF LedgerInv, EntriesOK, Entries, IsEntry, Row
      <3> QED
        BY <1>1, <2>2, <3>1 DEF LedgerInv, EntriesOK
    <2> QED
      BY <1>1, <2>1, <2>2 DEF EntriesOK
  <1>3. ASSUME NEW b \in Bucket
        PROVE  /\ Explains(At(ledger', b), InitialStock[b], committed'[b])
               /\ \A u \in Txn : holder'[b] = u =>
                    Explains(At(pending'[u], b), committed'[b], working'[b])
    <2>1. At(ledger', b) = At(ledger, b) \cup At(pending[t], b)
      BY <1>1 DEF At
    <2>2. b \in Row
      BY DEF Row
    <2>3. CASE holder[b] = t
      <3>1. Explains(At(ledger', b), InitialStock[b], working[b])
        <4>1. /\ Entries(At(ledger, b)) /\ Entries(At(pending[t], b))
              /\ At(ledger, b) \cap At(pending[t], b) = {}
          <5>1. /\ Entries(ledger) /\ Entries(pending[t])
                /\ pending[t] \cap ledger = {}
            BY DEF LedgerInv, EntriesOK
          <5>2. At(ledger, b) \cap At(pending[t], b) = {}
            BY <5>1 DEF At
          <5> QED
            BY <5>1, <5>2, RowsAt
        <4>2. /\ Quantities(InitialStock[b]) \in BucketRow
              /\ Quantities(committed[b]) \in BucketRow
          BY InitialQuantities, QuantitiesType DEF StockTypeOK
        <4> QED
          BY <2>1, <2>3, <4>1, <4>2, ExplainedInTurn DEF LedgerInv, BooksOK
      <3> QED
        BY <1>1, <2>2, <2>3, <3>1
    <2>4. CASE holder[b] # t
      <3>1. At(pending[t], b) = {}
        BY <2>4 DEF LedgerInv, EntriesOK, At
      <3> QED
        BY <1>1, <2>1, <2>2, <2>4, <3>1 DEF LedgerInv, BooksOK
    <2> QED
      BY <2>3, <2>4
  <1> QED
    BY <1>2, <1>3 DEF LedgerInv, BooksOK

\* ROLLBACK leaves the ledger and what is committed as they are.
LEMMA RollbackLedger ==
  ASSUME StockTypeOK, LedgerInv, NEW t \in Txn, Rollback(t)
  PROVE  LedgerInv'
  <1> USE StockAssumption
  <1>1. /\ ledger' = ledger /\ committed' = committed
        /\ pending'[t] = {} /\ \A u \in Txn \ {t} : pending'[u] = pending[u]
        /\ \A r \in Row : holder'[r] = IF holder[r] = t THEN None ELSE holder[r]
        /\ \A r \in Row : working'[r] = IF holder[r] = t THEN committed[r]
                                                         ELSE working[r]
    BY DEF Rollback, Finish, StockTypeOK
  <1>2. EntriesOK'
    <2>1. Entries({})
      BY FS_EmptySet DEF Entries
    <2>2. ASSUME NEW u \in Txn
          PROVE  /\ Entries(pending'[u]) /\ pending'[u] \cap ledger' = {}
                 /\ \A e \in pending'[u] : holder'[e.inventoryId] = u
      <3>1. CASE u = t
        BY <1>1, <2>1, <3>1
      <3>2. CASE u # t
        <4>1. /\ pending'[u] = pending[u] /\ Entries(pending[u])
              /\ pending[u] \cap ledger = {}
          BY <1>1, <3>2 DEF LedgerInv, EntriesOK
        <4>2. ASSUME NEW e \in pending[u]
              PROVE  holder'[e.inventoryId] = u
          <5>1. e.inventoryId \in Row /\ holder[e.inventoryId] = u
            BY <4>1 DEF LedgerInv, EntriesOK, Entries, IsEntry, Row
          <5> QED
            BY <1>1, <3>2, <5>1
        <4> QED
          BY <1>1, <4>1, <4>2
      <3> QED
        BY <3>1, <3>2
    <2> QED
      BY <1>1, <2>2 DEF LedgerInv, EntriesOK
  <1>3. BooksOK'
    <2>1. \A b \in Bucket : b \in Row
      BY DEF Row
    <2> QED
      BY <1>1, <2>1 DEF LedgerInv, BooksOK
  <1> QED
    BY <1>2, <1>3 DEF LedgerInv

\* What a statement that books nothing may change of buckets and locks: it
\* may take locks, and create buckets with nothing in them.
BooksNothing(t) ==
    /\ UNCHANGED <<committed, ledger, pending>>
    /\ \A b \in Bucket :
         /\ holder'[b] = holder[b] \/ (holder[b] = None /\ holder'[b] = t)
         /\ Quantities(working'[b]) = Quantities(working[b])

\* Such a statement leaves the ledger and what explains it as they are.
LEMMA NothingBooked ==
  ASSUME StockTypeOK, LocksOK, LedgerInv, NEW t \in Txn, BooksNothing(t)
  PROVE  LedgerInv'
  <1> USE StockAssumption
  <1>1. EntriesOK'
    BY DEF BooksNothing, LedgerInv, EntriesOK, Entries, IsEntry
  <1>2. ASSUME NEW b \in Bucket, NEW u \in Txn, holder'[b] = u
        PROVE  Explains(At(pending[u], b), committed[b], working'[b])
    <2>1. Quantities(working'[b]) = Quantities(working[b])
      BY DEF BooksNothing
    <2>2. CASE holder[b] = u
      BY <2>1, <2>2 DEF LedgerInv, BooksOK, Explains
    <2>3. CASE holder[b] = None
      <3>1. working[b] = committed[b]
        BY <2>3 DEF LocksOK, Row
      <3>2. At(pending[u], b) = {}
        BY <2>3 DEF LedgerInv, EntriesOK, At
      <3>3. Quantities(committed[b]) \in BucketRow
        BY QuantitiesType DEF StockTypeOK
      <3> QED
        BY <2>1, <3>1, <3>2, <3>3, LedgerSums DEF Explains, BucketRow
    <2> QED
      BY <1>2, <2>2, <2>3 DEF BooksNothing
  <1>3. BooksOK'
    BY <1>2 DEF BooksNothing, LedgerInv, BooksOK
  <1> QED
    BY <1>1, <1>3 DEF LedgerInv

\* What a statement that books one movement of the bucket b changes.
BooksMovement(t, key, b, physicalDelta, reservedDelta, ref) ==
    /\ UNCHANGED <<committed, ledger>>
    /\ CanLock(t, b) /\ holder'[b] = t
    /\ \A c \in Bucket \ {b} : holder'[c] = holder[c] /\ working'[c] = working[c]
    /\ working[b] # Absent
    /\ working'[b] = Moved(working[b], physicalDelta, reservedDelta)
    /\ Book(t, key, b, physicalDelta, reservedDelta, ref)

\* If the entry is new, the ledger goes on explaining the stock.
LEMMA MovementBooked ==
  ASSUME StockTypeOK, LocksOK, LedgerInv, NEW t \in Txn, NEW key, NEW b \in Bucket,
         NEW physicalDelta \in Int, NEW reservedDelta \in Int, NEW ref,
         BooksMovement(t, key, b, physicalDelta, reservedDelta, ref),
         \A e \in ledger \cup pending[t] : e.idempotencyKey # key
  PROVE  LedgerInv'
  <1> USE StockAssumption
  <1> DEFINE new == [idempotencyKey |-> key, inventoryId |-> b,
                     physicalDelta |-> physicalDelta,
                     reservedDelta |-> reservedDelta, refId |-> ref]
  <1>1. /\ IsEntry(new) /\ new.inventoryId = b
        /\ new.physicalDelta = physicalDelta /\ new.reservedDelta = reservedDelta
        /\ new.idempotencyKey = key
    BY DEF IsEntry
  <1>2. pending' = [pending EXCEPT ![t] = @ \cup {new}]
    BY DEF BooksMovement, Book
  <1> HIDE DEF new
  <1>3. new \notin ledger /\ new \notin pending[t]
    BY <1>1
  <1>4. /\ pending'[t] = pending[t] \cup {new}
        /\ \A u \in Txn \ {t} : pending'[u] = pending[u]
    BY <1>2 DEF StockTypeOK
  <1>5. EntriesOK'
    <2>1. Entries(pending[t] \cup {new})
      BY <1>1, FS_AddElement DEF LedgerInv, EntriesOK, Entries
    <2>2. \A u \in Txn \ {t} : holder[b] # u
      BY DEF BooksMovement, CanLock
    <2>3. \A u \in Txn : \A e \in pending[u] : e.inventoryId \in Bucket
      BY DEF LedgerInv, EntriesOK, Entries, IsEntry
    <2>4. /\ Entries(ledger') /\ Entries(pending'[t])
          /\ pending'[t] \cap ledger' = {}
      BY <1>3, <1>4, <2>1 DEF BooksMovement, LedgerInv, EntriesOK
    <2>5. \A e \in pending'[t] : holder'[e.inventoryId] = t
      BY <1>1, <1>4, <2>3 DEF BooksMovement, LedgerInv, EntriesOK
    <2>6. ASSUME NEW u \in Txn \ {t}
          PROVE  /\ Entries(pending'[u])
                 /\ pending'[u] \cap ledger' = {}
                 /\ \A e \in pending'[u] : holder'[e.inventoryId] = u
      BY <1>4, <2>2, <2>3 DEF BooksMovement, LedgerInv, EntriesOK
    <2> QED
      BY <2>4, <2>5, <2>6 DEF EntriesOK
  <1>6. ASSUME NEW c \in Bucket, NEW u \in Txn, holder'[c] = u
        PROVE  Explains(At(pending'[u], c), committed[c], working'[c])
    <2>1. CASE c # b
      <3>1. At(pending'[u], c) = At(pending[u], c)
        BY <1>1, <1>4, <2>1 DEF At
      <3> QED
        BY <1>6, <2>1, <3>1 DEF BooksMovement, LedgerInv, BooksOK
    <2>2. CASE c = b
      <3>1. u = t /\ At(pending'[t], b) = At(pending[t], b) \cup {new}
        BY <1>1, <1>4, <1>6, <2>2 DEF At, BooksMovement
      <3>2. Entries(At(pending[t], b)) /\ new \notin At(pending[t], b)
        <4>1. Entries(pending[t])
          BY DEF LedgerInv, EntriesOK
        <4>2. new \notin At(pending[t], b)
          BY <1>3 DEF At
        <4> QED
          BY <4>1, <4>2, RowsAt
      <3>3. /\ Quantities(committed[b]) \in BucketRow
            /\ Quantities(working[b]) \in BucketRow
        BY QuantitiesType DEF StockTypeOK
      <3>4. Explains(At(pending[t], b), committed[b], working[b])
        <4>1. CASE holder[b] = t
          BY <4>1 DEF LedgerInv, BooksOK
        <4>2. CASE holder[b] = None
          <5>1. At(pending[t], b) = {} /\ working[b] = committed[b]
            BY <4>2 DEF LedgerInv, EntriesOK, At, LocksOK, Row
          <5> QED
            BY <5>1, <3>3, LedgerSums DEF Explains, BucketRow
        <4> QED
          BY <4>1, <4>2 DEF BooksMovement, CanLock
      <3>5. /\ working[b] \in BucketRow /\ Quantities(working[b]) = working[b]
        BY DEF BooksMovement, StockTypeOK, Quantities
      <3>6. /\ Quantities(working'[b]).physicalQty
                 = Quantities(working[b]).physicalQty + physicalDelta
            /\ Quantities(working'[b]).reservedQty
                 = Quantities(working[b]).reservedQty + reservedDelta
        <4>1. working'[b] \in BucketRow
          BY <3>5 DEF BooksMovement, Moved, BucketRow
        <4>2. Quantities(working'[b]) = working'[b]
          BY <4>1 DEF Quantities
        <4> QED
          BY <3>5, <4>2 DEF BooksMovement, Moved
      <3>7. /\ PhysicalSum(At(pending'[t], b))
                 = PhysicalSum(At(pending[t], b)) + physicalDelta
            /\ ReservedSum(At(pending'[t], b))
                 = ReservedSum(At(pending[t], b)) + reservedDelta
            /\ PhysicalSum(At(pending[t], b)) \in Int
            /\ ReservedSum(At(pending[t], b)) \in Int
        BY <1>1, <3>1, <3>2, LedgerSums
      <3> HIDE DEF Moved
      <3> QED
        BY <2>2, <3>1, <3>3, <3>4, <3>6, <3>7 DEF Explains, BucketRow
    <2> QED
      BY <2>1, <2>2
  <1>7. BooksOK'
    BY <1>6 DEF BooksMovement, LedgerInv, BooksOK
  <1> QED
    BY <1>5, <1>7 DEF LedgerInv

\* What the invariant says of committed stock is what reconcile looks for.
LEMMA LedgerInvExplains == LedgerInv => LedgerExplainsStock
  <1> SUFFICES ASSUME LedgerInv, NEW b \in Bucket
               PROVE  /\ Quantities(committed[b]).physicalQty
                           = Quantities(InitialStock[b]).physicalQty
                               + PhysicalSum(At(ledger, b))
                      /\ Quantities(committed[b]).reservedQty
                           = ReservedSum(At(ledger, b))
    BY DEF LedgerExplainsStock, PhysicalSum, ReservedSum, At
  <1>1. Explains(At(ledger, b), InitialStock[b], committed[b])
    BY DEF LedgerInv, BooksOK
  <1>2. Quantities(InitialStock[b]).reservedQty = 0
    BY InitialQuantities
  <1>3. ReservedSum(At(ledger, b)) \in Int
    BY RowsAt, LedgerSums DEF LedgerInv, EntriesOK
  <1> QED
    BY <1>1, <1>2, <1>3 DEF Explains
=============================================================================
