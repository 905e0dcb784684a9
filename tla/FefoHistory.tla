----------------------------- MODULE FefoHistory -----------------------------
(***************************************************************************)
(* OrdersService with a history variable: what a line of an order has seen *)
(* of its buckets.                                                         *)
(*                                                                         *)
(* findAvailableBuckets lists the buckets of a line once, without locks.   *)
(* One that gets units back afterwards is not visited any more, so that    *)
(* "first expired, first out" cannot be said of the stock as it is when    *)
(* units are taken; it is said here of what the line has seen.  The        *)
(* variable changes nothing in what the service does.                      *)
(***************************************************************************)
EXTENDS OrdersService

VARIABLE
    seenEmpty       \* the buckets that the query of a line under way, run by
                    \* a transaction, did not list

history == <<vars, seenEmpty>>

\* What findAvailableBuckets leaves out.
NotListed(t, item, location) ==
    BucketsOf(item, location) \ AvailableBuckets(t, item, location)

Observe ==
    seenEmpty' =
      [t \in Txn |->
         IF tx'[t].step # "take" \/ tx[t].doc \notin Order THEN {}
         ELSE IF tx[t].step = "take" THEN seenEmpty[t]
         ELSE LET line == working[tx[t].doc].lines[tx[t].line]
              IN  NotListed(t, line.item, line.location)]

FefoInit == Init /\ seenEmpty = [t \in Txn |-> {}]

FefoNext == OrdersNext /\ Observe

FefoSpec == FefoInit /\ [][FefoNext]_history

\* The buckets that the line which t is at has taken from.
Taken(t) ==
    LET order == working[tx[t].doc]
    IN  {order.reservations[k].inventoryId :
           k \in ReservationsOfLine(order, tx[t].line, "ACTIVE")}

\* First expired, first out: when a line has taken from a bucket, it has seen
\* each bucket of its item that expires earlier with nothing available: either
\* the query did not list it, or the transaction has it locked and has left
\* nothing in it (orders.service.ts:147-160), whoever took or returned units
\* between the query and the locks.
EarlierExpiryFirst ==
    \A t \in Txn :
      (tx[t].doc \in Order /\ tx[t].step = "take") =>
        LET line == working[tx[t].doc].lines[tx[t].line]
        IN  \A b \in BucketsOf(line.item, line.location), c \in Taken(t) :
              FefoRank[b[1]] < FefoRank[c[1]] =>
                \/ b \in seenEmpty[t]
                \/ holder[b] = t /\ AvailableQty(working[b]) = 0
=============================================================================
