# Mini Ops ERP: a TLA+ model of its stock keeping

The backend (`src/backend`, NestJS on PostgreSQL through TypeORM) keeps the stock of a
small business: goods are received, reserved for customer orders, held for work orders,
moved between locations and shipped. All services change the same rows, concurrently,
and what makes the system correct is that no interleaving, failure or repetition ever
promises or ships a unit that is not there. This directory models that core, and the
browser client (`src/frontend`, React) that calls it: its session and its pages.

## Inventory of the system

| Component | State | Operations | Interaction |
|---|---|---|---|
| Stock service (`inventory/stock.service.ts`) | `inventory` (one bucket per item, location, batch), `inventory_transactions` (append-only ledger) | `lockBucketById`, `lockOrCreateBucket`, `applyMovement`, `findAvailableBuckets` | called by every service inside the caller's transaction |
| Customer orders (`orders/orders.service.ts`) | `customer_orders`, lines, `reservations` | create, reserve, cancel, fulfil | locks the order, then buckets |
| Stock transfers (`transfers/transfers.service.ts`) | `stock_transfers` | create, dispatch, receive (partial) | locks the transfer, then one bucket; creates buckets |
| Work orders (`work-orders/work-orders.service.ts`) | `work_orders`; its holds live only in the ledger | create, start, complete | locks the work order, then buckets |
| Receipts, adjustments, reconciliation (`inventory/inventory.service.ts`) | none of its own | receive, adjust, reconcile | creates and locks one bucket |
| PostgreSQL | row versions, row locks, unique indexes | commit, rollback, waiting, deadlock detection | READ COMMITTED |
| Document numbers (`common/utils/document-number.ts`) | sequences | `nextval` | called by the creates |
| Error mapping (`common/filters`) | none | exception to HTTP code | 40P01 and 23505 become 409, 25P02 becomes 500 |
| Authentication, roles (`auth`, `common/guards`) | `users`, issued tokens | login, per-request re-read of the account | in front of every controller |
| Master data (`masters`) | locations, categories, items, batches | single-row creates, listings | read by the services and the forms |
| Browser session (`frontend/src/api/client.ts`, `context/AuthContext.tsx`, `pages/LoginPage.tsx`) | token in localStorage, user and loading flag in React state | restore, login, sign-out, 401 handler | every request carries the token that is stored when it is sent |
| Operational pages (`frontend/src/pages`, `hooks/useReferenceData.ts`) | rows, filter, loading, error, notice; form, busy, batch options | load, act, submit, choose | HTTP requests side by side, answers in any order or never |
| Schema, migrations, seed (`database`) | constraints, first rows | run before the service | starting point |

What is hard here: several statements of several transactions interleave; decisions are
taken on unlocked reads and confirmed under locks; locks are taken in orders that differ
between operations; a transaction may be refused, chosen as a deadlock victim or lose its
connection after it has written; unique indexes decide races; requests are sent again
when their answers are lost; the browser runs requests side by side, cancels none, and its
callbacks see the state of the render in which they were made. The hazards, each at its line, are in `PROJECT.json`.

What makes each component correct: the stock service never oversells a bucket, and its
ledger explains every quantity; an order is filled entirely or not at all, by expiry among
the buckets it has seen, and only its shipping takes its goods out;
a transfer loses and duplicates no unit; a work order holds and consumes exactly what it
requires; a reference is received once, and a code names one batch; together every unit is
accounted for, and every request ends. The server never acts on rights older than the
request; the browser acts for the user it shows, and comes back from every failure. What a
page confirms has happened, and what is filled in once is created once.

## Modules

| Module | Models |
|---|---|
| `StockService` | buckets, ledger, and transactions: the substrate all others extend |
| `OrdersService` | customer orders, one action per statement that others may interleave with |
| `FefoHistory` | `OrdersService` with a history variable: what a line's query has left out |
| `OrderBook` | what the order desk promises: operations at one instant, no buckets or locks |
| `OrdersRefinement` | `OrdersService` implements `OrderBook` |
| `InventoryService` | receipts, new batches and adjustments |
| `DeliveryBook` | what a receipt promises: a delivery comes in at one instant, once |
| `InventoryRefinement` | `InventoryService` implements `DeliveryBook` |
| `TransfersService` | transfers |
| `TransitBook` | what a transfer promises: goods leave and arrive at one instant |
| `TransfersRefinement` | `TransfersService` implements `TransitBook` |
| `WorkOrdersService` | work orders, and their derived material status |
| `MaterialReport` | `WorkOrdersService` with a reader of the details of a work order |
| `Erp` | all services at once on the same buckets |
| `Session` | accounts, tokens and guards of the server, and the session of one browser |
| `Pages` | one operational page: its table and its form, against the server and another user |
| `StockProofs` | lemmas on the substrate: choices, sums over a ledger, movements, commits |
| `OrdersProofs` | theorems about the order service: locks and holds; its ledger, whole orders, the order of expiry; the refinement of `OrderBook` |
| `InventoryProofs`, `TransfersProofs`, `WorkOrdersProofs` | theorems about the other services, the refinement of `TransitBook` included |
| `ErpProofs` | theorems about all services at once |
| `SessionProofs`, `PagesProofs` | theorems about the browser |
| `MC*` | instances for TLC |

### How state and actions correspond to the code

A row of a locked table is a point of the functions `committed` and `working`: the last
committed version and the newest one, which differ only while `holder` says that a
transaction has the row. A plain `SELECT` sees `View` (its own writes, else the committed
version); a `FOR UPDATE` waits until `CanLock` and then reads the newest version. A
transaction's uncommitted ledger rows are in `pending`, and `tx` has what its handler is
doing: the operation, the next statement, and the variables of its loop. An order's lines
and reservations are written only under the order's lock and are kept in its row.

One action is one statement at which another transaction may come in between: the read of
the candidates (`FindBuckets`), each turn of the loop that locks a bucket and books a
movement (`TakeBucket`; lock, check, insert and update in one action, because the row
lock excludes everyone else from that bucket and the order's lock from the order), the
end of the loop, the commit. A transfer's movement and the saving of its row are two actions
(`DebitSource`, `SaveDispatched`; `CreditDestination`, `SaveReceived`), so that a transaction
can end between them with the goods booked and the transfer as it was. A `Begin...` action takes the lock of the document and passes
the guards. A request refused before it has written anything changes nothing and is no
step; one refused later is a step that rolls back (`RefuseShortage`, `RefuseDispatch`,
`RefuseTaken`, `RefuseStart`, `RefuseReceipt`, `InsertBucketRaced`, `InsertBatchRaced`). `Lost` rolls any
running transaction back at any point: the process dies, the connection breaks, a
statement times out. `DeadlockVictim` ends a transaction that waits in a circle.

Two places follow the database and not the comment above the code. After a unique
violation the whole transaction is aborted, so `InsertBucketRaced` rolls back instead of
re-reading. And lines are visited by their id, a random uuid, so the instances contain
the same two items in both orders.

A receipt with a new code (`resolveBatch`) begins when the code is not found; the id of the
row it will insert is a member of `NewBatch`, and two ids with one `CodeOf` are two attempts
at one batch. `InsertBatch` waits while another transaction's insert of the code is
undecided, as PostgreSQL's unique index does; if that one is committed, the request ends
(`InsertBatchRaced`), and if it is rolled back, the insert goes on.

`TransfersRefinement`, `OrdersRefinement` and `InventoryRefinement` map committed rows only, so a step of a
transaction before its commit is a stutter of the abstract specification and the commit is
the whole operation. `MaterialReport` adds the three statements of `detail`, which run
outside a transaction; inside `create` the same code runs under the transaction's view.

`Session` has one record per request, from its `fetch` to the callback of its answer:
`step` says how far the server is (`sent`, `admitted` by the guards, `answered`), `awaited`
that the page still waits. `Guard` is `JwtAuthGuard` with `JwtStrategy.validate`, then
`RolesGuard`; `Handle` the handler behind them; the deliveries are the code after `await`
in `client.ts` and in its callers. A token is known by the login that issued it. `Mount` is
the effect of `AuthProvider` when the page is loaded; `Click` and `Browse` need a page behind
`RequireAuth`. `Broken` is a rejected `fetch` or a 5xx, at any time, whether or not the server
has acted. `seen`, `mixed`, `overlapped` and `acted` only remember what the properties ask.

`Pages` chooses at the start which of the four pages it is; they share their structure, and
what tells them apart is in `Moves`, `Buttons`, `AsksForBatch`, `LoadClearsError` and the
form's reset in `Created`. The table is followed for one document, and `rows` is its status
if it is in the table. A request keeps the filter of the render it was made in, because
`load` is a closure; `GoesOn` is the `load()` after an operation. `Act` needs only that the
table is not loading, since no button of a row is disabled by an operation under way.
`Perform` and `ReadBack` are apart because `detail` runs after the commit. `Later(m.to)` follows
two further operations, which is as far as any document can go. The receipt form asks for a
batch of the options or for a new code (`fresh`, `ToggleNewBatch`); `Body` sends one of them,
and what was chosen in the other mode stays in the form.

`FefoHistory` adds one variable, `seenEmpty`: when a line's query has run, the buckets of its
item that it did not list. It says what the line knew, which nothing in the database keeps.

The seed books its opening balances in the ledger under `SEED:` keys. The models start
after it: `InitialStock` is its outcome, `ledger` is what was booked since, and the
properties add the two.

## Runs

| Run | Instance | Shows |
|---|---|---|
| `orders` | 3 transactions, 3 orders, 3 batches, 4 units, two items, with the history | no overselling; ledger, reservations and quantities agree; all lines or none; the ledger's rows of each order are what it holds and has shipped; first expired, first out, of the buckets a line has listed; a step takes out what the orders it fulfils held, to the unit |
| `orders_fair` | 2 transactions, 2 orders of up to two lines, no symmetry | refinement of `OrderBook`: what commits could have been done at that instant; every transaction ends, deadlocks included |
| `inventory` | 3 transactions, a known batch, two ids for one new code, one reference | refinement of `DeliveryBook`: a delivery comes in once, and a failed one leaves its reference free; a code names one batch; batches and buckets appear only with their goods |
| `transfers` | 3 transactions, 3 transfers, 3 units, a new bucket | no unit lost or duplicated in transit; ledger and transfer agree; refinement of `TransitBook` |
| `erp` | 2 transactions; an order, a work order, a transfer, adjustments, 3 units | the services keep each other's invariants; the ledger's memory of what work orders hold is exact; the listing and the start agree on what is enough; the rows of each order tell its story among those of others; every unit accounted for; every request ends |
| `session` | 2 users of different roles, 3 requests, 1 change of an account or expiry | rights are never older than the request; operations are done for the user on the screen; the screen comes back; sessions end for a reason |
| `pages` | each of the 4 pages, 4 requests, a draft, another user's operation | what is confirmed has happened; a draft is created once; rows of another filter are flagged; the form comes back |
| `inventory_race` | expected violation | the loser of an insert race does not re-read |
| `pages_notice` | expected violation | a confirmation describes a state that its own answer denies |
| `orders_deadlock` | expected violation | two allocations can hold what the other wants |
| `transfers_repeat` | expected violation | a repeated partial receipt does not collide |
| `work_orders_shortage` | expected violation | the details of a work order can report it short of what it holds |

The five violations are disagreements between a comment or document and the code; each is
quoted and explained in `PROJECT.json` under `findings`. None of them costs a unit: the
invariants of the passing runs hold in the same models. Three smaller ones have no run.
`reservation.entity.ts:23` says that a bucket's reserved quantity is the sum of its active
reservations, which holds only without work orders, as the comment in `reconcile` says;
`ReservedIsHeldByAll` is the equation that counts them. `README.md:244` of the repository says
that a reservation "allocates FEFO (earliest expiry first)", but a bucket that gets its units
back after the query of a line has listed the candidates is passed over for one that expires
later. And `useReferenceData.ts:30` says that the batches are "refetched whenever the selected
item changes", but an answer for the item selected before can come last and stay in the form;
the server refuses such a batch.

Some properties say less than a reader may expect, because the code promises less.
`EarlierExpiryFirst` is about the buckets a line has listed: units that come back after the
query are not looked for. `ConfirmedTookEffect` says that what a page
confirms has taken effect; the wording of the confirmation may be out of date when it appears
(`pages_notice`). `CreatedOncePerDraft` excepts drafts whose answer was lost: sent again, an order
is a second order, and the server cannot tell. In `inventory`, `transfers` and their theorems
nothing is ever reserved, so `NeverOversold` says there that nothing falls below zero; that
adjustments and dispatches leave reserved units alone is what `erp` and `BackendNeverOversells` say.
`SessionEndsForAReason` is about answers to requests that carried the current token: the 401
of an earlier token ends a later session too, and so does a connection that breaks while the
stored token is validated (`AuthContext.tsx:41`). `ActsAsShown` excepts logins begun at
`/login` before the stored token has been validated, when two answers compete for the screen.
`WrongTableIsFlagged` excepts a filter that is changed while a request is under way: its
rows, or the `load` of an operation, can then replace those of the new filter for good. What
it leaves is the case nobody is racing: a failed load of the new filter, with the old rows
still in the table, must show its error.

### Bounds, and why they are enough

Three transactions are needed for the interesting order races: two that contend and one
that cancels or ships in between; a deadlock and a refused shortage need two. Quantities
are chosen so that one line fits in one bucket, another needs two, and the orders
together ask for more than there is. Batch 1 expires before batch 2 while their bucket
ids run the other way, so the lock orders of allocation and release differ. Transfers of
one and two units make a receipt of a part, of the rest, and of too much possible, and a
transfer back reuses the created bucket. Documents are created once and then end in a
final status, so the number of documents bounds the behaviours of those models without
any constraint. The only explicit bound of the backend is `MaxUnkeyed`, the number of ledger
rows without an idempotency key, which keeps adjustments and anonymous receipts finite: a
request that would need one more is not made (`KeysLeft`). It is 2 in `inventory` and 1 in
`erp`, and both let an adjustment meet a held bucket, which is all that these rows can do.
Two ids for one code are enough for a race; a third attempt meets the same index.

In `session` three requests allow a validation, a login and an operation to be in flight at
once, and `MaxChanges` 1 puts one change of an account or one expiry anywhere between their
steps; two roles and an operation for one of them suffice for a refusal. In `pages`
`MaxRequests` counts the user's requests; the load that follows an operation takes its
place, so four let two operations, a submission and a change of filter overlap. One draft may
be sent several times; `MaxOthers` 1 puts another user's operation anywhere. The filters
tried are none and the first status. Whether there is stock enough, and with it `canStart`,
is left open in `pages`: the server may refuse any operation.

`erp` has one work order of two units, taken by expiry from two buckets: an order, a
transfer and an adjustment contend for them between the total a start reads and its locks. That
the holds of several work orders in one bucket are told apart is proved (`MaterialIsHeld`,
`ReservedIsAllHeld`), and `work_orders_shortage` runs two of them.

Deadlock checking is off because the models do stop: all documents final, all requests made.

### Fairness

`orders_fair` assumes that a transaction which can go on does (weak fairness of the local
steps: the server keeps running handlers), that a waiter for a row lock is served
eventually (strong fairness, because the lock may be free only now and then: PostgreSQL
queues the waiters of a row), and that the deadlock detector runs (weak fairness: a circle
does not dissolve by itself). `erp` assumes the same of the next statement of every service
(`Progress`). Nothing is assumed of clients, and `Lost` has no fairness.

`session` and `pages` assume for every request that the server goes on with it and its
answer is delivered, or its connection breaks: `fetch` has no timeout in this code, so what
ends a wait for a silent server is the network. Which of them happens is left open; nothing
is assumed of users or of the administrator.

## Proofs

TLAPS proves what follows for any number of transactions, documents, lines, buckets and
units, for any accounts, requests and drafts, from the assumptions below. Each theorem is
`Specification => []Property` or `=> [][Action]_vars`; the property is, wherever a run names
one, the definition that TLC checks.

| Module | Inductive invariant | Theorems drawn from it |
|---|---|---|
| `OrdersProofs` | `ProtocolInv`, `HoldInv` | `Protocol`, `TypeCorrect`, `HoldsAreCounted`, `ReservedIsWhatIsHeld`, `NothingOversold` |
| | `OrderLedgerInv`, `ShippingInv`, `FillInv`, `ExpiryInv` | `LedgerIsTrue`, `NothingBookedTwice`, `StockIsExplained`, `OrdersAreSettled`, `FilledEntirelyOrNotAtAll`, `BucketsAreVisitedInOrder`, `FirstExpiredFirstOut` |
| | `BookInv` | `OrdersGetWhatTheyAsked`, `OrdersImplementPromises`, `ShipmentsAreExact` |
| `InventoryProofs` | `InventoryInv` | `ReceiptsAreOrderly`, `InventoryTypes`, `ReceiptsNeverOversell`, `ReceiptsComeAtOnce`, `CodesAreSettled`, `BucketsComeStocked`, `ReceiptsExplainStock`, `NoReceiptTwice` |
| `TransfersProofs` | `TransfersInv`, `TransferBooks` | `TransfersAreOrderly`, `TransfersTypes`, `TransfersNeverOversold`, `TransfersImplementTransit`, `TransfersAreBooked`, `LedgerFollowsTransfers`, `NothingLostInTransit`, `TransfersExplainStock`, `NoMovementTwice` |
| `WorkOrdersProofs` | `WorkOrdersInv` | `HoldsAreRemembered`, `WorkOrdersTypes`, `MaterialIsHeld`, `StartsDecideAsShown`, `WorkOrdersNeverOversell`, `WorkOrdersExplainStock`, `NoMaterialTwice` |
| `ErpProofs` | `ErpInv` | `BackendIsSound`, `BackendNeverOversells`, `BackendExplainsStock`, `BackendBooksOnce`, `ReservationsAreExplained`, `ReservedIsAllHeld`, `NoUnitUnaccounted` |
| `SessionProofs` | `SessionInv` | `SessionIsOrderly`, `SessionTypes`, `RightsAreNeverOlder`, `BookedForTheUserShown`, `SessionsEndForAReason` |
| `PagesProofs` | `PagesInv` | `PagesAreOrderly`, `PagesTypes`, `DraftsAreCreatedOnce`, `ConfirmedOperationsTookEffect`, `WrongTablesAreFlagged` |

### The arguments

*Orders, locks.* Type correctness alone is not inductive: that `working[tx[t].doc]` is an
order at all, when a statement reads it, follows from the lock that was taken statements
earlier. `ProtocolInv` says which locks a transaction holds at each statement, that a row
without a holder has one version, that the line a loop is at is one of its order's, and that
the candidates of a line and the buckets that orders reserve from exist.

*Orders, holds.* `ReservedIsHeld` is about committed rows and is not inductive: a commit moves
a bucket and an order from one version to the other, so the invariant must count the units
held in the working versions as well. That still does not suffice, because a transaction
commits only the rows it has locked. What makes the merged version consistent is `HoldsLocked`:
an order and a bucket that are not locked by one transaction agree, in both versions, on what
the order holds in the bucket. `AvailableQty` is read after the lock is granted, so what
`TakeBucket` takes is still there; that keeps `Covered`, and with it the CHECK constraint.

*Ledgers.* `LedgerExplainsStock` speaks of what is committed; inductive is `LedgerInv`: the
ledger explains the committed buckets, and the `pending` rows of the transaction that has a
bucket locked explain what it has made of it. Both sums stay right only if a row that is
added is a new one, a set being what it is in the model and a unique index what it is in the
code; so `LedgerInv` goes together with what the keys say. For orders that is `KeysKnown`, that each key names a
movement which its reservation, in the version of the row's writer, has gone through; a
reservation that is released or shipped is never opened again. `ShippingInv`
says that a transaction that has written a different physical quantity has also made its order
FULFILLED.

*Orders, lines.* `AllLinesOrNone` speaks of committed orders, which are made statement by
statement. `FillInv` says what the transaction that has an order locked has made of it
(`InHand`): while it fills a line, what the line's reservations add up to and what `remaining`
says make the quantity ordered, and every other line is filled or not begun; while it closes
the order, the reservations are ACTIVE or have the outcome of the request, and those of an
order that ships still add up. So an order is settled when it is committed, and only then.
`EarlierExpiryFirst` needs to know besides why the loop went on from a bucket (`ByExpiry`):
it took all there was, or found nothing. Together with `Accounted`, which keeps for every bucket
of the line that the query listed it, left it out (`seenEmpty`), or that the loop has passed it
with its lock, this is first expired, first out as far as a line can see. `NothingOversold` turns "not more than nothing
available" into "nothing available".

*Orders, promises.* `OrderBook` has no buckets: its guard for a reservation, `IsFree`, compares
for each shelf what the form asks with what is on hand and not promised, and a commit of
`OrdersService` has to meet it although its units were found bucket by bucket while others
committed. Both sides are turned into sums over the buckets of the shelf. What is promised
of a shelf (a sum over the RESERVED orders of what their lines ask) is what is reserved in its
buckets, because settled orders hold what they ask (`FillInv`), in buckets of the shelves
their lines name (`Fits`), and every bucket counts its holds (`HoldInv`); so what is free on
a shelf is the sum of `AvailableQty` over its buckets. The version that a commit makes satisfies the
same equation and no bucket in it is reserved beyond what it has (`Covered`); so after the
commit nothing is promised that is not there, and before it the shelf had room for this order.
`BookInv` adds what this needs of running transactions: that they do not change what their
order asks for (`AsAsked`), that their candidates fit (`CandidatesFit`), and that shipping takes from a bucket
the units it releases (`LeavesAvailable`). Every step but a commit leaves the committed rows
as they are, and is a stutter of the book.
`ShipmentsAreExact` comes from the same invariant. When an order is fulfilled, its holds in a bucket
are gone while the available quantity is what it was (`LeavesAvailable`); both versions
count their holds, so the physical quantity has fallen by the units the order held. Every
other commit leaves the physical quantities alone, and fulfils nothing.

*Receipts.* `Phase` says of each transaction, statement by statement, what it has locked,
written and booked. `CodesApart` is what the unique index enforces: while an uncommitted batch
has a code, no other row of the code is committed or being inserted. `CodesNameStock` follows
at the commit, because a batch that was inserted is locked until its goods are booked.
`ReceiptsComeAtOnce` reads off what a commit adds to the ledger: one row, of the bucket that
changes by the quantity asked for (`AsRequested`), with a reference that no row had before.

*Transfers.* Between a movement and the saving of its transfer the ledger is ahead of the row;
`Phase` says what is then still to be saved. From `Phase` it follows what a commit makes of the committed rows (`Outcome`): it
raises a transfer, lets its goods leave, or lets some arrive. Each is one step of
`TransitBook` with its guards: `OutstandingQty` and the source's available quantity are read under locks
the transaction still has. Every other step changes nothing that is committed and is a stutter. The
account of a transfer in the ledger (`Accounted`) and the conservation of goods (`Conserved`)
follow from the same three outcomes.

*Work orders.* Their holds have no table. `Material` says that the rows of the ledger which
refer to a work order are those of one hold, a function from buckets to units whose sum is
what the order requires, taken or taken and used as its status says; a running start has
taken the part of a hold it has visited, and a running completion has used a part of the one it read. Since
`consumeMaterial` recomputes the hold from the net reserved quantity of each bucket, the proof shows
that those sums give the hold back. `StartsDecideAsShown` compares two sums over different
sets of buckets, which agree because those that differ have nothing available.

*The whole backend.* The invariants of the services on their own do not survive their company:
`Counted`, for one, says that orders hold all that is reserved in a bucket, and beside a work
order that is false. `ErpInv` is therefore relative to documents. `Told` says what the ledger's movements
which refer to one document tell of its row: for an order, bucket by bucket, what its ACTIVE
reservations hold and what those shipped have taken away; for a work order, that it never returns more than it took; for a transfer,
that what has moved adds up to what is under way, in the row that is about to be saved
(`Saved`). `DocsOK` says so of the committed movements and
the committed row, and, while a transaction has the document locked, of the movements including its own
and the row it has written. Only that transaction books for the document (`OwnDoc`), so
everybody else's statements leave `Told` alone, whichever bucket they touch. About buckets no
more is needed than that the ledger explains them (`LedgerInv`) and that none is promised
beyond what it has (`ShelvesOK`), because every statement decides under the bucket's lock. `Control` has
for each kind of document what is left to say of a running transaction: the line its loop is
at, that a start has booked nothing in a bucket it has yet to visit, that a completion finds
a positive hold in each, that a receipt's part is still outstanding. `KeysUnique` is a part of `ErpInv`: a key of a document
is new to it by `Told`, hence new to all, since keys name their document.
The properties follow by summing. A finite sum may be taken group by group (`SumByGroup`):
what is reserved in a bucket is the sum over the documents of what each reserves there, which
is what an order holds, what the ledger has for a work order, and nothing for a transfer
(`ReservedIsAllHeld`); none of these is negative, which is the other half of
`NeverOversold`. What has moved of a batch is the sum over its buckets, and also the sum over
adjustments, orders, work orders and transfers, of which the last is the negative of what is in
transit (`NoUnitUnaccounted`).

*Session.* Who is on the screen and whose token is stored are set by different answers.
`SessionInv` follows a user from the login that issued the token, through the profile in its
answer or in that of `GET /auth/me`, to the screen and to the requests sent from there.

*Pages.* What a page says rests on requests that are still under way, so `PagesInv` has a part
about each of them: what its answer will be worth, whose filter it carries, whether the draft
in it is on the screen, created, or lost. `ThirdLikeSecond` shows that after two further
operations a document's status can go nowhere new, for the tables of `Moves`, so what a notice
confirms stays true however many follow.

There is one lemma per action; `Rollback` (which is also `Lost`, the refusals and the deadlock
victim) and `Commit` are lemmas of their own. Facts about sums avoid induction, which the
provers cannot do with an operator as a parameter: a sum over a finite set is a value of some
function on its subsets that satisfies the recursion (`SumExists`), and two such functions
agree (`SumUnique`), because a subset of least cardinality on which they differed would have a
smaller one. Adding and removing a term, and comparing two sums term by term, follow.

### The assumptions

TLC evaluates them in every run. `StockAssumption`: ranks are injective, as sort keys
that end in a unique id are, buckets are no documents, and the initial stock reserves nothing.
`OrdersAssumption`: orders have lines, with positive quantities, as the request validation
demands. `TransfersAssumption`, `WorkOrdersAssumption`: positive quantities, two different
locations, and finitely many transfers, locations and batches (tables are finite; the sums of the
properties would mean nothing otherwise). `InventoryAssumption`: new batches start
without stock, and finitely many transactions run (the connection pool is bounded).
`OrderBookAssumption`: finitely many batches and orders. `ErpAssumption`: a number names one
document, delivery references and new batches are no documents, and the orders and work orders
are finitely many.
`RaisedAssumption`, and the conjuncts about `Absent` and `None`: a row is never equal to the
value that stands for no row. `SessionAssumption`, `PagesAssumption`: the types of the
constants.

### Model-checked only

- Everything with fairness or ENABLED: `EveryTransactionEnds`, `EveryRequestEnds`,
  `ScreenIsReleased`, `FormIsReleased`. No backend proves it.
- What is particular to one service in company. `ErpProofs` proves of all services at once what
  concerns the buckets, the ledger and the documents' share of both; that orders are filled entirely and by
  expiry, that a start holds exactly what is required, the two refinements and the races of new batches are
  proved of each service on its own, and `erp` does not check them either.
- The disagreements with comments and documents: a counterexample needs no proof.

## Not modelled

- Document numbers: a database sequence, atomic and never rolled back; documents are model
  values that the INSERT chooses fresh.
- Error mapping: it has no state. Which errors end a transaction is in the services, that a
  page shows every refusal as an error is in `Pages`; status codes are not told apart
  beyond 401 and 403.
- Master data: the creates are single-row inserts behind unique constraints; locations and
  items are constants. A batch created by `POST /batches` has no goods, so `CodesNameStock`
  speaks of batches that receipts create.
- Schema, migrations and seed run before the service; `InitialStock` is their outcome.
- The 32-bit width of quantities: PostgreSQL refuses an overflow, and the transaction rolls
  back like any other.
- Listings and details beyond what `Pages` and `MaterialReport` show of them: they change
  nothing.
- In the browser: the load of the reference data (a failure leaves the lists empty), the
  panels with the ledger of a bucket and with the suggested sources, the quantity typed for a
  partial receipt, the roles that hide buttons on a page (they
  are in `Session`), the doubled effects of React's StrictMode in development, and a second
  tab, which would share the stored token but not the user on the screen.

## Plan

1. Done: `StockService`, `OrdersService` with its abstract specification, the other
   services, their composition; the first theorems about orders.
2. Done: batches created with a receipt and their race; the derived material status against
   what a start decides; the account of goods in transit that transfers implement; liveness
   of the whole backend; the session and the pages of the browser.
3. Done: an inductive invariant for every service, the session and the pages; their ledgers
   and the sums over them; transfers implement `TransitBook`.
4. Done: orders implement `OrderBook`; an inductive invariant of the whole backend, and from it
   the two sums over all documents. Every safety and action property that a passing run checks is
   now a theorem.
5. Done: the movement and the saving of a transfer apart; receipts implement `DeliveryBook`;
   what a line has seen of expiry; shipping to the unit; the ledger order by order, in company.
6. Left: orders filled entirely and by expiry, and the two refinements, in the whole backend.
   `ErpInv` already has the locks they rest on; what is missing is `InHand` and `ByExpiry` relative
   to one order.
