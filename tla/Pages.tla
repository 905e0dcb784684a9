-------------------------------- MODULE Pages --------------------------------
(***************************************************************************)
(* An operational page of the browser (frontend/src/pages): a filtered     *)
(* table whose rows have buttons, and a form that creates a document.      *)
(*                                                                         *)
(* load, act and submit run side by side.  Nothing is cancelled, answers   *)
(* arrive in any order or not at all, and the callback of an answer sees   *)
(* the filter of the render in which its request was made.  Other users    *)
(* change the same rows.  Which page it is, is chosen at the start.        *)
(*                                                                         *)
(* The table is followed for one document.  Whether there is stock enough  *)
(* is left open: the server may refuse any operation.                      *)
(***************************************************************************)
EXTENDS Integers

CONSTANTS
    Item, Batch,
    ItemOf,         \* the item of a batch
    Filters,        \* the filters that are tried; "" is none
    MaxRequests,    \* bound: requests the user makes
    MaxDrafts,      \* bound: times the form is filled in
    MaxOthers,      \* bound: operations of other users
    None

ASSUME PagesAssumption ==
    /\ ItemOf \in [Batch -> Item]
    /\ "" \in Filters
    /\ MaxRequests \in Nat \ {0} /\ MaxDrafts \in Nat /\ MaxOthers \in Nat
    /\ None \notin Item \cup Batch \cup Nat

-----------------------------------------------------------------------------
(* What the server's operations do to a document, and the buttons that a   *)
(* page shows beside a row.                                                *)

Page == {"orders", "transfers", "workOrders", "inventory"}

First == [orders |-> "DRAFT", transfers |-> "REQUESTED",
          workOrders |-> "ASSIGNED", inventory |-> "STOCKED"]

Move(op, from, to) == [op |-> op, from |-> from, to |-> to]

Moves ==
    [orders |->
        {Move("reserve", {"DRAFT"}, {"RESERVED"}),
         Move("cancel", {"DRAFT", "RESERVED"}, {"CANCELLED"}),
         Move("fulfil", {"RESERVED"}, {"FULFILLED"})},
     transfers |->
        {Move("dispatch", {"REQUESTED"}, {"DISPATCHED"}),
         Move("receive", {"DISPATCHED"}, {"DISPATCHED", "RECEIVED"})},
     workOrders |->
        {Move("start", {"ASSIGNED"}, {"IN_PROGRESS"}),
         Move("complete", {"IN_PROGRESS"}, {"COMPLETED"})},
     inventory |-> {}]

Buttons ==
    [orders |-> {<<"DRAFT", "reserve">>, <<"RESERVED", "fulfil">>,
                 <<"RESERVED", "cancel">>, <<"DRAFT", "cancel">>},
     transfers |-> {<<"REQUESTED", "dispatch">>, <<"DISPATCHED", "receive">>},
     workOrders |-> {<<"ASSIGNED", "start">>, <<"IN_PROGRESS", "complete">>},
     inventory |-> {}]

Op == {m.op : m \in UNION {Moves[p] : p \in Page}}

Status == {First[p] : p \in Page}
            \cup UNION {m.to : m \in UNION {Moves[p] : p \in Page}}

\* Two of the forms ask for a batch of the item.
AsksForBatch(p) == p \in {"transfers", "inventory"}

RequestId == 1 .. MaxRequests
Draft == 1 .. MaxDrafts

\* draft numbers what the user has typed; keyed: a receipt with a reference;
\* fresh: a receipt into a batch that is named by a new code.
Form == [draft : Draft \cup {None}, keyed : BOOLEAN, fresh : BOOLEAN,
         item : Item \cup {None}, batch : Batch \cup {None}]

Request ==
    [kind : {"none", "list", "act", "create", "batches"},
     step : {"unsent", "sent", "committed", "answered", "refused"},
     filter : Filters \cup {None},          \* of the render that sent it
     op : Op \cup {None},
     form : Form \cup {None},
     answer : SUBSET (Status \cup Batch),   \* the rows or the options it has
     awaited : BOOLEAN]

VARIABLES
    page,
    status,         \* of the document, at the server
    performed,      \* the operations that took effect on it
    made,           \* what the forms have created, by request
    others,         \* how often other users have been at the document
    request, sent,
    filter,         \* what is selected
    rows,           \* the status of the document in the table, if it is there
    shownFor,       \* the filter the rows were asked for
    loading, error,
    notice,         \* the confirmation on the screen: operation and status
    raced,          \* the filter was changed while requests were under way
    form, drafts,
    busy,           \* the form's button is disabled
    batches,        \* the options of its batch field
    lost            \* drafts whose request got no answer

server == <<page, status, performed, made, others>>
table == <<filter, rows, shownFor, loading, error, notice, raced>>
dialog == <<form, drafts, busy, batches, lost>>
vars == <<server, request, sent, table, dialog>>

Unsent == [kind |-> "none", step |-> "unsent", filter |-> None, op |-> None,
           form |-> None, answer |-> {}, awaited |-> FALSE]

Blank == [draft |-> None, keyed |-> FALSE, fresh |-> FALSE,
          item |-> None, batch |-> None]

\* Mutant: the handler's event is taken for the filter.
ListRequestOfEvent(f) ==
    [Unsent EXCEPT !.kind = "list", !.step = "sent", !.filter = "event",
                   !.awaited = TRUE]

ListRequest(f) ==
    [Unsent EXCEPT !.kind = "list", !.step = "sent", !.filter = f,
                   !.awaited = TRUE]

\* The user's next request.
Send(req) ==
    /\ sent < MaxRequests
    /\ sent' = sent + 1
    /\ request' = [request EXCEPT ![sent + 1] =
                     [req EXCEPT !.step = "sent", !.awaited = TRUE]]

\* An operation that succeeded goes on with load(), as it was when the
\* operation was begun.
GoesOn(r) == request' = [request EXCEPT ![r] = ListRequest(request[r].filter)]

Settled(r) == request' = [request EXCEPT ![r] = Unsent]

\* InventoryPage.load clears the error, the others leave it to act.
LoadClearsError == page = "inventory"

BeginLoad ==
    /\ loading' = TRUE
    /\ error' = (error /\ ~LoadClearsError)

UnderWay(kinds) ==
    \E r \in RequestId : request[r].awaited /\ request[r].kind \in kinds

-----------------------------------------------------------------------------
(* The user.                                                               *)

ChangeFilter(f) ==
    /\ f # filter
    /\ f \in {"", First[page]}
    /\ filter' = f
    /\ raced' = UnderWay({"list", "act", "create"})
    /\ Send(ListRequest(f))
    /\ BeginLoad
    /\ UNCHANGED <<server, rows, shownFor, notice, dialog>>

Refresh ==
    /\ page = "inventory"
    /\ Send(ListRequest(filter))
    /\ BeginLoad
    /\ UNCHANGED <<server, filter, rows, shownFor, notice, raced, dialog>>

\* The table is hidden while it loads; the buttons are never disabled by an
\* operation under way.
Act(op) ==
    /\ ~loading
    /\ \E s \in rows : <<s, op>> \in Buttons[page]
    /\ error' = FALSE
    /\ notice' = None
    /\ Send([Unsent EXCEPT !.kind = "act", !.op = op, !.filter = filter])
    /\ UNCHANGED <<server, filter, rows, shownFor, loading, raced, dialog>>

NoticeExpires ==
    /\ notice # None
    /\ notice' = None
    /\ UNCHANGED <<server, request, sent, filter, rows, shownFor, loading,
                   error, raced, dialog>>

\* The fields stay open to typing while the form is busy.
FillIn(keyed) ==
    /\ drafts < MaxDrafts
    /\ keyed => page = "inventory"
    /\ drafts' = drafts + 1
    /\ form' = [form EXCEPT !.draft = drafts + 1, !.keyed = keyed]
    /\ UNCHANGED <<server, request, sent, table, busy, batches, lost>>

\* The options of the item before stay until those of this one are here.
ChooseItem(i) ==
    /\ AsksForBatch(page)
    /\ form.item # i
    /\ form' = [form EXCEPT !.item = i, !.batch = None]
    /\ Send([Unsent EXCEPT !.kind = "batches", !.form = form'])
    /\ UNCHANGED <<server, table, drafts, busy, batches, lost>>

\* The link under the field: a code to type in place of the options.
ToggleNewBatch ==
    /\ page = "inventory"
    /\ form' = [form EXCEPT !.fresh = ~@]
    /\ UNCHANGED <<server, request, sent, table, drafts, busy, batches, lost>>

ChooseBatch(b) ==
    /\ ~form.fresh
    /\ b \in batches
    /\ form' = [form EXCEPT !.batch = b]
    /\ UNCHANGED <<server, request, sent, table, drafts, busy, batches, lost>>

\* A required field whose value is not among its options counts as empty.
BatchGiven == IF form.fresh THEN form.item # None ELSE form.batch \in batches

\* Mutant: the button is not disabled.
ReadyOrBusy == form.draft # None /\ (AsksForBatch(page) => BatchGiven)

Ready ==
    /\ ~busy
    /\ form.draft # None
    /\ AsksForBatch(page) => BatchGiven

\* The body of the request: either the code or the id of a batch.
Body == IF form.fresh THEN [form EXCEPT !.batch = None] ELSE form

Submit ==
    /\ Ready
    /\ busy' = TRUE
    /\ Send([Unsent EXCEPT !.kind = "create", !.form = Body,
                           !.filter = filter])
    /\ UNCHANGED <<server, table, form, drafts, batches, lost>>

-----------------------------------------------------------------------------
(* The server.                                                             *)

\* An answer nobody waits for any more is of no consequence.
Replied(r, step, answer) ==
    request' = [request EXCEPT ![r] =
      IF @.awaited THEN [@ EXCEPT !.step = step, !.answer = answer]
      ELSE Unsent]

Matches(f, s) == f \in {"", s}

ReplyList(r) ==
    /\ request[r].kind = "list" /\ request[r].step = "sent"
    /\ Replied(r, "answered", {s \in {status} : Matches(request[r].filter, s)})
    /\ UNCHANGED <<server, sent, table, dialog>>

ReplyBatches(r) ==
    /\ request[r].kind = "batches" /\ request[r].step = "sent"
    /\ Replied(r, "answered",
               {b \in Batch : ItemOf[b] = request[r].form.item})
    /\ UNCHANGED <<server, sent, table, dialog>>

\* Mutant: cancel does not look at the status of the order.
AcceptsCancel(m) == status \in m.from \/ m.op = "cancel"

Accepts(m) == status \in m.from

\* The transaction of an operation.
Perform(r) ==
    /\ request[r].kind = "act" /\ request[r].step = "sent"
    /\ \E m \in Moves[page] :
         /\ m.op = request[r].op
         /\ Accepts(m)
         /\ status' \in m.to
         /\ performed' = performed \cup {m.op}
    /\ Replied(r, "committed", {})
    /\ UNCHANGED <<page, made, others, sent, table, dialog>>

\* The answer of an operation is read after its transaction.
ReadBack(r) ==
    /\ request[r].step = "committed"
    /\ Replied(r, "answered", {status})
    /\ UNCHANGED <<server, sent, table, dialog>>

\* "That batch belongs to a different item."
FitsItem(f) == f.batch # None => ItemOf[f.batch] = f.item

\* Mutant: the reference is stored and not looked up.
NeverReceived(f) == FALSE

\* A receipt is refused when its reference has been booked.
ReceivedBefore(f) ==
    f.keyed /\ \E c \in made : c.form.keyed /\ c.form.draft = f.draft

Create(r) ==
    LET f == request[r].form
    IN  /\ request[r].kind = "create" /\ request[r].step = "sent"
        /\ FitsItem(f)
        /\ ~ReceivedBefore(f)
        /\ made' = made \cup {[by |-> r, form |-> f]}
        /\ Replied(r, "answered", {})
        /\ UNCHANGED <<page, status, performed, others, sent, table, dialog>>

\* A wrong status, too little stock, a deadlock, a batch of another item.
Refuse(r) ==
    /\ request[r].kind \in {"act", "create"} /\ request[r].step = "sent"
    /\ Replied(r, "refused", {})
    /\ UNCHANGED <<server, sent, table, dialog>>

OtherUser(m) ==
    /\ others < MaxOthers
    /\ status \in m.from
    /\ status' \in m.to
    /\ others' = others + 1
    /\ UNCHANGED <<page, performed, made, request, sent, table, dialog>>

-----------------------------------------------------------------------------
(* What the page does with an answer, or when there will be none.          *)

Awaited(r, kind, steps) ==
    /\ request[r].awaited
    /\ request[r].kind = kind
    /\ request[r].step \in steps

ShowRows(r) ==
    /\ Awaited(r, "list", {"answered"})
    /\ rows' = request[r].answer
    /\ shownFor' = request[r].filter
    /\ loading' = FALSE
    /\ Settled(r)
    /\ UNCHANGED <<server, sent, filter, error, notice, raced, dialog>>

Confirm(r) ==
    /\ Awaited(r, "act", {"answered"})
    /\ notice' = [op |-> request[r].op, status |-> request[r].answer]
    /\ GoesOn(r)
    /\ BeginLoad
    /\ UNCHANGED <<server, sent, filter, rows, shownFor, raced, dialog>>

Rejected(r) ==
    /\ Awaited(r, "act", {"refused"})
    /\ error' = TRUE
    /\ Settled(r)
    /\ UNCHANGED <<server, sent, filter, rows, shownFor, loading, notice,
                   raced, dialog>>

Created(r) ==
    /\ Awaited(r, "create", {"answered"})
    /\ form' = IF page = "orders" THEN Blank
               ELSE [form EXCEPT !.draft = None, !.keyed = FALSE]
    /\ busy' = FALSE
    /\ GoesOn(r)
    /\ BeginLoad
    /\ UNCHANGED <<server, sent, filter, rows, shownFor, notice, raced,
                   drafts, batches, lost>>

\* The form keeps what was typed.
NotCreated(r) ==
    /\ Awaited(r, "create", {"refused"})
    /\ busy' = FALSE
    /\ Settled(r)
    /\ UNCHANGED <<server, sent, table, form, drafts, batches, lost>>

OfferBatches(r) ==
    /\ Awaited(r, "batches", {"answered"})
    /\ batches' = request[r].answer
    /\ Settled(r)
    /\ UNCHANGED <<server, sent, table, form, drafts, busy, lost>>

\* Mutant: a failed load leaves the error as it was.
FailSilently(kind) == error' = error

Fail(kind) == error' = (error \/ kind \in {"list", "act"})

\* Mutant: setBusy(false) is not in finally.
StaysBusy(kind) == busy

Released(kind) == busy /\ kind # "create"

\* The connection breaks, or the answer is a 5xx, before or after the server
\* has done its part.
Broken(r) ==
    LET kind == request[r].kind
    IN  /\ request[r].awaited
        /\ Fail(kind)
        /\ loading' = (loading /\ kind # "list")
        /\ busy' = Released(kind)
        /\ batches' = IF kind = "batches" THEN {} ELSE batches
        /\ lost' = IF kind = "create" THEN lost \cup {request[r].form.draft}
                   ELSE lost
        /\ request' = [request EXCEPT ![r] =
             IF kind \in {"act", "create"} /\ @.step = "sent"
             THEN [@ EXCEPT !.awaited = FALSE]
             ELSE Unsent]
        /\ UNCHANGED <<server, sent, filter, rows, shownFor, notice, raced,
                       form, drafts>>

-----------------------------------------------------------------------------
Init ==
    /\ page \in Page
    /\ status = First[page]
    /\ performed = {} /\ made = {} /\ others = 0
    /\ request = [r \in RequestId |-> IF r = 1 THEN ListRequest("") ELSE Unsent]
    /\ sent = 1
    /\ filter = "" /\ rows = {} /\ shownFor = "" /\ raced = FALSE
    /\ loading = TRUE /\ error = FALSE /\ notice = None
    /\ form = Blank /\ drafts = 0 /\ busy = FALSE /\ batches = {} /\ lost = {}

Server(r) ==
    \/ ReplyList(r)
    \/ ReplyBatches(r)
    \/ Perform(r)
    \/ ReadBack(r)
    \/ Create(r)
    \/ Refuse(r)

Delivery(r) ==
    \/ ShowRows(r)
    \/ Confirm(r)
    \/ Rejected(r)
    \/ Created(r)
    \/ NotCreated(r)
    \/ OfferBatches(r)
    \/ Broken(r)

Next ==
    \/ \E r \in RequestId : Server(r) \/ Delivery(r)
    \/ \E f \in Filters : ChangeFilter(f)
    \/ \E op \in Op : Act(op)
    \/ \E keyed \in BOOLEAN : FillIn(keyed)
    \/ \E i \in Item : ChooseItem(i)
    \/ \E b \in Batch : ChooseBatch(b)
    \/ ToggleNewBatch
    \/ \E m \in Moves[page] : OtherUser(m)
    \/ Refresh
    \/ NoticeExpires
    \/ Submit

Spec == Init /\ [][Next]_vars

\* The server answers a request, or its connection breaks: fetch has no
\* timeout of its own.  Nothing is assumed of the users.
FairSpec == Spec /\ \A r \in RequestId : WF_vars(Server(r) \/ Delivery(r))

-----------------------------------------------------------------------------
PagesTypeOK ==
    /\ page \in Page
    /\ status \in Status
    /\ performed \subseteq Op
    /\ made \subseteq [by : RequestId, form : Form]
    /\ others \in 0 .. MaxOthers
    /\ request \in [RequestId -> Request]
    /\ sent \in RequestId
    /\ filter \in Filters /\ shownFor \in Filters
    /\ rows \subseteq Status
    /\ notice \in [op : Op, status : SUBSET Status] \cup {None}
    /\ loading \in BOOLEAN /\ error \in BOOLEAN /\ raced \in BOOLEAN
    /\ form \in Form /\ drafts \in 0 .. MaxDrafts
    /\ busy \in BOOLEAN
    /\ batches \subseteq Batch
    /\ lost \subseteq Draft

\* What the user has filled in once is created once, although requests have no
\* key of their own (orders.service.ts:58): only a draft whose answer never
\* came can be there twice, and a receipt with a reference not even then.
CreatedOncePerDraft ==
    \A c, d \in made :
        /\ c # d
        /\ c.form.draft = d.form.draft
        => c.form.draft \in lost /\ ~(c.form.keyed /\ d.form.keyed)

\* After(s) and Later(s): where legal operations lead from a set of statuses.
After(S) == S \cup UNION {m.to : m \in {n \in Moves[page] : n.from \cap S # {}}}
Later(S) == After(After(S))

\* What the page confirms has happened: the operation has taken effect, and
\* the status it was answered with, read after the commit (orders.service.ts:232),
\* is its outcome or what somebody has legally made of it since.
ConfirmedTookEffect ==
    notice # None =>
        /\ notice.op \in performed
        /\ \E m \in Moves[page] : m.op = notice.op /\ notice.status \subseteq Later(m.to)

\* Once dispatched, "nothing has been added to" the destination "yet; the stock
\* is in transit" (TransfersPage.tsx:48); once started, the units "are now
\* reserved" (WorkOrdersPage.tsx:45): at the least, the answer that the page
\* makes the sentence from says that the document is in that state.
NoticeIsTrue ==
    notice # None =>
        /\ notice.op = "dispatch" => notice.status \subseteq {"DISPATCHED"}
        /\ notice.op = "start" => notice.status \subseteq {"IN_PROGRESS"}

\* At rest, a table whose rows were asked for with another filter than the one
\* selected says so by an error, unless the filter was changed while another
\* request was under way (OrdersPage.tsx:24-34).
WrongTableIsFlagged ==
    (shownFor # filter /\ ~UnderWay({"list", "act", "create"}))
        => error \/ raced

\* The form can be sent again, whatever becomes of its request: the button
\* that keeps a draft from being sent twice does not stay disabled.
FormIsReleased == busy ~> ~busy

=============================================================================
