----------------------------- MODULE PagesProofs -----------------------------
(***************************************************************************)
(* Theorems about Pages, for any items, batches, filters, requests and     *)
(* drafts.                                                                 *)
(*                                                                         *)
(* What a page says or creates rests on requests that are still under way, *)
(* so the invariant has a part about each of them: what its answer will be *)
(* worth, whose filter it carries, whether the draft in it is on the       *)
(* screen, created, or lost.                                               *)
(***************************************************************************)
EXTENDS Pages, TLAPS

\* An operation has taken effect, and each status in S is its outcome or what
\* can be made of it.
Outcome(op, S) ==
    /\ op \in performed
    /\ \E m \in Moves[page] : m.op = op /\ S \subseteq Later(m.to)

\* The page waits only for what it has sent.
OnlySent(r) == request[r].awaited => r <= sent

\* A request that will load the table knows the filter of its render.
FilterKnown(r) ==
    request[r].kind \in {"list", "act", "create"} => request[r].filter \in Filters

\* The rows are of documents, and the options of batches.
AnswerFits(r) ==
    /\ request[r].kind \in {"list", "act"} => request[r].answer \subseteq Status
    /\ request[r].kind = "batches" => request[r].answer \subseteq Batch

\* Of an operation that has been committed and not answered yet, the answer
\* will be true; of one that has been answered, it is.
OperationIsTrue(r) ==
    /\ request[r].kind = "act" => request[r].op \in Op
    /\ request[r].step = "committed" =>
         request[r].kind = "act" /\ Outcome(request[r].op, {status})
    /\ request[r].kind = "act" /\ request[r].step = "answered" =>
         Outcome(request[r].op, request[r].answer)

\* A form was sent with what the user had typed.
FormIsKnown(r) ==
    /\ request[r].kind \in {"create", "batches"} => request[r].form \in Form
    /\ request[r].kind = "create" => request[r].form.draft \in 1 .. drafts

\* A form that the server has not seen yet is waited for, or given up as lost.
FollowedOrLost(r) ==
    request[r].kind = "create" /\ request[r].step = "sent" =>
        request[r].awaited \/ request[r].form.draft \in lost

RequestOK(r) ==
    /\ OnlySent(r)
    /\ FilterKnown(r)
    /\ AnswerFits(r)
    /\ OperationIsTrue(r)
    /\ FormIsKnown(r)
    /\ FollowedOrLost(r)

\* The form's button is disabled while its request is waited for, so there is
\* one at most.
AwaitsForm(r) == request[r].awaited /\ request[r].kind = "create"

OneForm ==
    /\ \A r \in RequestId : AwaitsForm(r) => busy
    /\ \A r, s \in RequestId : AwaitsForm(r) /\ AwaitsForm(s) => r = s

\* A draft is created by a form that has not been dealt with yet only if it was
\* lost before.
NotCreatedYet ==
    \A r \in RequestId :
        request[r].kind = "create" /\ request[r].step = "sent" =>
            \A c \in made : c.form.draft = request[r].form.draft =>
                                c.form.draft \in lost

\* The page has been told, or is about to be, that a draft on the screen was
\* created.
Told(d) ==
    \E r \in RequestId :
        AwaitsForm(r) /\ request[r].step = "answered" /\ request[r].form.draft = d

DraftsOK ==
    /\ form.draft # None => form.draft \in 1 .. drafts
    /\ \A c \in made : c.form.draft \in 1 .. drafts
    /\ \A c \in made : c.form.draft = form.draft =>
                           c.form.draft \in lost \/ Told(c.form.draft)

\* Unless the filter was changed while they were under way, all that will load
\* the table carry the selected one; and one of them is under way, or an error
\* is shown, while the rows are those of another.
LoadsTable == {"list", "act", "create"}

TableOK ==
    raced \/ /\ \A r \in RequestId :
                   request[r].awaited /\ request[r].kind \in LoadsTable =>
                       request[r].filter = filter
             /\ shownFor # filter => error \/ UnderWay({"list", "act"})

PagesInv ==
    /\ PagesTypeOK
    /\ \A r \in RequestId : RequestOK(r)
    /\ OneForm
    /\ NotCreatedYet
    /\ DraftsOK
    /\ CreatedOncePerDraft
    /\ ConfirmedTookEffect
    /\ TableOK

-----------------------------------------------------------------------------
(* The documents.                                                          *)

\* An operation leads to a status, from a page's document.
LEMMA MovesAreOperations ==
    ASSUME NEW p \in Page, NEW m \in Moves[p]
    PROVE  m.op \in Op /\ m.to \subseteq Status
BY DEF Op, Status

\* Three operations in a row lead no further than two: after a receipt there are
\* only receipts, and all else is final by then.
LEMMA ThirdLikeSecond ==
    ASSUME page \in Page,
           NEW a \in Moves[page], NEW b \in Moves[page], NEW c \in Moves[page],
           NEW x \in a.to, x \in b.from,
           NEW y \in b.to, y \in c.from
    PROVE  c.to \subseteq b.to
<1>1. CASE page = "orders"
  <2>1. Moves[page] = {Move("reserve", {"DRAFT"}, {"RESERVED"}),
                       Move("cancel", {"DRAFT", "RESERVED"}, {"CANCELLED"}),
                       Move("fulfil", {"RESERVED"}, {"FULFILLED"})}
    BY <1>1 DEF Moves
  <2>2. \A m \in Moves[page] :
            \/ m.from = {"DRAFT"} /\ m.to = {"RESERVED"}
            \/ m.from = {"DRAFT", "RESERVED"} /\ m.to = {"CANCELLED"}
            \/ m.from = {"RESERVED"} /\ m.to = {"FULFILLED"}
    BY <2>1 DEF Move
  <2> QED
    BY <2>2
<1>2. CASE page = "transfers"
  <2>1. Moves[page] =
          {Move("dispatch", {"REQUESTED"}, {"DISPATCHED"}),
           Move("receive", {"DISPATCHED"}, {"DISPATCHED", "RECEIVED"})}
    BY <1>2 DEF Moves
  <2>2. \A m \in Moves[page] :
            \/ m.from = {"REQUESTED"} /\ m.to = {"DISPATCHED"}
            \/ m.from = {"DISPATCHED"} /\ m.to = {"DISPATCHED", "RECEIVED"}
    BY <2>1 DEF Move
  <2> QED
    BY <2>2
<1>3. CASE page = "workOrders"
  <2>1. Moves[page] = {Move("start", {"ASSIGNED"}, {"IN_PROGRESS"}),
                       Move("complete", {"IN_PROGRESS"}, {"COMPLETED"})}
    BY <1>3 DEF Moves
  <2>2. \A m \in Moves[page] :
            \/ m.from = {"ASSIGNED"} /\ m.to = {"IN_PROGRESS"}
            \/ m.from = {"IN_PROGRESS"} /\ m.to = {"COMPLETED"}
    BY <2>1 DEF Move
  <2> QED
    BY <2>2
<1>4. CASE page = "inventory"
  BY <1>4 DEF Moves
<1> QED
  BY <1>1, <1>2, <1>3, <1>4 DEF Page

\* What comes after a set of statuses: they, and where an operation leads.
LEMMA AfterIs ==
    ASSUME NEW S, NEW s
    PROVE  s \in After(S) <=>
             \/ s \in S
             \/ \E n \in Moves[page] : s \in n.to /\ n.from \cap S # {}
BY DEF After

\* Two further operations are as far as a document can go: what can be made of
\* the status an operation led to is all there is.
LEMMA LaterIsClosed ==
    ASSUME page \in Page, NEW m \in Moves[page], NEW n \in Moves[page],
           NEW s \in Later(m.to), s \in n.from
    PROVE  n.to \subseteq Later(m.to)
<1> SUFFICES ASSUME NEW t \in n.to PROVE t \in After(After(m.to))
  BY DEF Later
<1>1. s \in After(After(m.to))
  BY DEF Later
<1>2. s \in After(m.to)
  <2>1. SUFFICES ASSUME NEW k \in Moves[page],
                        s \in k.to, k.from \cap After(m.to) # {}
                 PROVE  s \in After(m.to)
    BY <1>1, AfterIs
  <2>2. PICK y \in k.from : y \in After(m.to)
    BY <2>1
  <2>3. CASE y \in m.to
    BY <2>1, <2>3, AfterIs
  <2>4. CASE \E l \in Moves[page] : y \in l.to /\ l.from \cap m.to # {}
    <3>1. PICK l \in Moves[page] : y \in l.to /\ l.from \cap m.to # {}
      BY <2>4
    <3>2. PICK x \in m.to : x \in l.from
      BY <3>1
    <3>3. k.to \subseteq l.to
      BY <2>2, <3>1, <3>2, ThirdLikeSecond
    <3> QED
      BY <2>1, <3>1, <3>3, AfterIs
  <2> QED
    BY <2>2, <2>3, <2>4, AfterIs
<1>3. n.from \cap After(m.to) # {}
  BY <1>2
<1> QED
  BY <1>3, AfterIs

\* What is true of an operation stays true while the server goes on; and the
\* status of the document stays an outcome of it after it has changed again.
LEMMA OutcomeStays ==
    ASSUME page \in Page, page' = page, performed \subseteq performed',
           \/ status' = status
           \/ \E n \in Moves[page] : status \in n.from /\ status' \in n.to,
           NEW op
    PROVE  /\ \A S : Outcome(op, S) =>
                /\ op \in performed'
                /\ \E m \in Moves[page'] : m.op = op /\ S \subseteq Later(m.to)'
           /\ Outcome(op, {status}) => Outcome(op, {status})'
<1>1. ASSUME NEW T PROVE Later(T)' = Later(T)
  BY DEF Later, After
<1>2. \A S : Outcome(op, S) =>
        /\ op \in performed'
        /\ \E m \in Moves[page'] : m.op = op /\ S \subseteq Later(m.to)'
  BY <1>1 DEF Outcome
<1>3. ASSUME Outcome(op, {status}) PROVE Outcome(op, {status})'
  <2>1. PICK m \in Moves[page] : m.op = op /\ status \in Later(m.to)
    BY <1>3 DEF Outcome
  <2>2. status' \in Later(m.to)
    BY <2>1, LaterIsClosed
  <2>3. op \in performed' /\ m \in Moves[page']
    BY <1>3 DEF Outcome
  <2> QED
    BY <1>1, <2>1, <2>2, <2>3 DEF Outcome
<1> QED
  BY <1>2, <1>3

-----------------------------------------------------------------------------
(* The requests.                                                           *)

\* A request that nothing was sent for, or that is over.
LEMMA UnsentRequest ==
    /\ Unsent \in Request
    /\ Unsent.kind = "none" /\ Unsent.step = "unsent" /\ Unsent.answer = {}
    /\ ~Unsent.awaited
BY DEF Unsent, Request

\* load() asks for the rows of a filter.
LEMMA ListRequestIs ==
    ASSUME NEW f \in Filters
    PROVE  /\ ListRequest(f) \in Request
           /\ ListRequest(f).kind = "list" /\ ListRequest(f).step = "sent"
           /\ ListRequest(f).filter = f /\ ListRequest(f).answer = {}
           /\ ListRequest(f).awaited
BY DEF ListRequest, Unsent, Request

\* What is sent is what the caller has put together.
LEMMA SentRequest ==
    ASSUME NEW base \in Request
    PROVE  LET q == [base EXCEPT !.step = "sent", !.awaited = TRUE]
           IN  /\ q \in Request /\ q.kind = base.kind /\ q.step = "sent"
               /\ q.filter = base.filter /\ q.op = base.op
               /\ q.form = base.form /\ q.answer = base.answer /\ q.awaited
BY DEF Request

\* The server deals with a request: the others are as they were, and if nobody
\* waits for it any more, it is over.
LEMMA RepliedRequest ==
    ASSUME request \in [RequestId -> Request],
           NEW r \in RequestId,
           NEW step \in {"committed", "answered", "refused"},
           NEW answer \in SUBSET (Status \cup Batch),
           Replied(r, step, answer)
    PROVE  /\ request' \in [RequestId -> Request]
           /\ \A s \in RequestId : s # r => request'[s] = request[s]
           /\ ~request[r].awaited => request'[r] = Unsent
           /\ request[r].awaited =>
                /\ request'[r].kind = request[r].kind
                /\ request'[r].step = step
                /\ request'[r].filter = request[r].filter
                /\ request'[r].op = request[r].op
                /\ request'[r].form = request[r].form
                /\ request'[r].answer = answer
                /\ request'[r].awaited
<1>1. PICK q \in Request : q = request[r]
  OBVIOUS
<1>2. CASE ~q.awaited
  BY <1>1, <1>2, UnsentRequest DEF Replied
<1>3. CASE q.awaited
  <2>1. request' = [request EXCEPT ![r] =
                      [q EXCEPT !.step = step, !.answer = answer]]
    BY <1>1, <1>3 DEF Replied
  <2>2. [q EXCEPT !.step = step, !.answer = answer] \in Request
    BY DEF Request
  <2> QED
    BY <1>1, <1>3, <2>1, <2>2 DEF Request
<1> QED
  BY <1>2, <1>3

\* A request stays in order while it is the same, or when it is over, whatever
\* the server and the other requests do.
LEMMA RequestKept ==
    ASSUME PagesTypeOK, NEW r \in RequestId, RequestOK(r),
           request'[r] = request[r] \/ request'[r] = Unsent,
           page' = page, performed \subseteq performed',
           \/ status' = status
           \/ \E n \in Moves[page] : status \in n.from /\ status' \in n.to,
           sent' \in Nat, sent <= sent',
           drafts' \in Nat, drafts <= drafts',
           lost \subseteq lost'
    PROVE  RequestOK(r)'
<1>1. CASE request'[r] = Unsent
  BY <1>1, UnsentRequest
  DEF RequestOK, OnlySent, FilterKnown, AnswerFits, OperationIsTrue,
      FormIsKnown, FollowedOrLost
<1>2. CASE request'[r] = request[r]
  <2>1. OnlySent(r)' /\ FilterKnown(r)' /\ AnswerFits(r)'
    BY <1>2 DEF PagesTypeOK, RequestId, RequestOK, OnlySent, FilterKnown,
       AnswerFits
  <2>2. FormIsKnown(r)' /\ FollowedOrLost(r)'
    BY <1>2 DEF PagesTypeOK, RequestOK, FormIsKnown, FollowedOrLost
  <2>3. OperationIsTrue(r)'
    <3>1. OperationIsTrue(r) /\ page \in Page
      BY DEF RequestOK, PagesTypeOK
    <3>2. PICK op : op = request[r].op
      OBVIOUS
    <3>3. PICK S : S = request[r].answer
      OBVIOUS
    <3>4. Outcome(op, S) => /\ op \in performed'
                            /\ \E m \in Moves[page'] :
                                 m.op = op /\ S \subseteq Later(m.to)'
      BY <3>1, OutcomeStays
    <3>5. Outcome(op, {status}) => Outcome(op, {status})'
      BY <3>1, OutcomeStays
    <3>6. Outcome(request[r].op, request[r].answer) =>
            Outcome(request[r].op, request[r].answer)'
      BY <1>2, <3>2, <3>3, <3>4 DEF Outcome
    <3>7. Outcome(request[r].op, {status}) => Outcome(request[r].op, {status})'
      BY <1>2, <3>2, <3>5 DEF Outcome
    <3> QED
      BY <1>2, <3>1, <3>6, <3>7 DEF OperationIsTrue
  <2> QED
    BY <2>1, <2>2, <2>3 DEF RequestOK
<1> QED
  BY <1>1, <1>2

-----------------------------------------------------------------------------
(* The parts of the invariant that a step leaves alone.                    *)

\* What the invariant says of drafts.
DraftsInv ==
    /\ OneForm
    /\ NotCreatedYet
    /\ DraftsOK
    /\ CreatedOncePerDraft

\* Drafts are not disturbed by what happens to requests that are no forms.
LEMMA DraftsUndisturbed ==
    ASSUME PagesInv,
           \A s \in RequestId :
               \/ request'[s] = request[s]
               \/ ~AwaitsForm(s) /\ request'[s].kind # "create",
           UNCHANGED <<made, drafts, busy>>,
           form'.draft = form.draft,
           lost \subseteq lost'
    PROVE  DraftsInv'
<1>1. OneForm'
  BY DEF PagesInv, OneForm, AwaitsForm
<1>2. NotCreatedYet'
  BY DEF PagesInv, NotCreatedYet
<1>3. ASSUME NEW d, Told(d) PROVE Told(d)'
  BY <1>3 DEF Told, AwaitsForm
<1>4. DraftsOK'
  BY <1>3 DEF PagesInv, DraftsOK
<1>5. CreatedOncePerDraft'
  BY DEF PagesInv, CreatedOncePerDraft
<1> QED
  BY <1>1, <1>2, <1>4, <1>5 DEF DraftsInv

\* A notice stays true while it is on the screen.
LEMMA NoticeStays ==
    ASSUME PagesInv, notice' = notice, page' = page,
           performed \subseteq performed',
           \/ status' = status
           \/ \E n \in Moves[page] : status \in n.from /\ status' \in n.to
    PROVE  ConfirmedTookEffect'
<1> SUFFICES ASSUME notice # None PROVE ConfirmedTookEffect'
  BY DEF ConfirmedTookEffect
<1>1. /\ Outcome(notice.op, notice.status) /\ page \in Page
  BY DEF PagesInv, PagesTypeOK, ConfirmedTookEffect, Outcome
<1>2. PICK op : op = notice.op
  OBVIOUS
<1>3. PICK S : S = notice.status
  OBVIOUS
<1>4. Outcome(op, S) => /\ op \in performed'
                        /\ \E m \in Moves[page'] :
                             m.op = op /\ S \subseteq Later(m.to)'
  BY <1>1, OutcomeStays
<1> QED
  BY <1>1, <1>2, <1>3, <1>4 DEF ConfirmedTookEffect

\* A notice stays true when nothing happens at the server.
LEMMA NoticeUndisturbed ==
    ASSUME PagesInv, UNCHANGED server, notice' \in {None, notice}
    PROVE  ConfirmedTookEffect'
<1>1. CASE notice' = None
  BY <1>1 DEF ConfirmedTookEffect
<1>2. CASE notice' = notice
  BY <1>2, NoticeStays DEF server
<1> QED
  BY <1>1, <1>2

\* The user sends one more request: it is in order, and so are the others.
LEMMA RequestsSent ==
    ASSUME PagesInv,
           UNCHANGED <<server, drafts, lost>>,
           sent < MaxRequests, sent' = sent + 1,
           NEW q \in Request,
           q.kind \in {"list", "act", "create", "batches"},
           q.step = "sent", q.awaited, q.answer = {},
           q.kind \in {"list", "act", "create"} => q.filter \in Filters,
           q.kind = "act" => q.op \in Op,
           q.kind \in {"create", "batches"} => q.form \in Form,
           q.kind = "create" => q.form.draft \in 1 .. drafts,
           request' = [request EXCEPT ![sent + 1] = q]
    PROVE  /\ sent' \in RequestId /\ sent + 1 \in RequestId
           /\ request' \in [RequestId -> Request]
           /\ request'[sent + 1] = q
           /\ \A s \in RequestId : s # sent + 1 => request'[s] = request[s]
           /\ ~request[sent + 1].awaited
           /\ \A s \in RequestId : RequestOK(s)'
<1>1. /\ PagesTypeOK /\ sent \in Nat /\ sent + 1 \in RequestId
      /\ request \in [RequestId -> Request] /\ drafts \in Nat
  <2>1. PagesTypeOK
    BY DEF PagesInv
  <2>2. sent \in 1 .. MaxRequests /\ drafts \in 0 .. MaxDrafts
    BY <2>1 DEF PagesTypeOK, RequestId
  <2>3. request \in [RequestId -> Request]
    BY <2>1 DEF PagesTypeOK
  <2>4. MaxRequests \in Nat /\ MaxDrafts \in Nat
    BY PagesAssumption
  <2>5. sent \in Nat /\ sent + 1 \in 1 .. MaxRequests /\ drafts \in Nat
    BY <2>2, <2>4
  <2> QED
    BY <2>1, <2>3, <2>5 DEF RequestId
<1>2. PICK r \in RequestId : r = sent + 1
  BY <1>1
<1>3. /\ request' \in [RequestId -> Request] /\ request'[r] = q
      /\ \A s \in RequestId : s # r => request'[s] = request[s]
  BY <1>1, <1>2
<1>4. RequestOK(r)'
  <2>1. OnlySent(r)' /\ FilterKnown(r)' /\ AnswerFits(r)'
    BY <1>1, <1>2, <1>3 DEF OnlySent, FilterKnown, AnswerFits
  <2>2. OperationIsTrue(r)' /\ FormIsKnown(r)' /\ FollowedOrLost(r)'
    BY <1>3 DEF OperationIsTrue, FormIsKnown, FollowedOrLost
  <2> QED
    BY <2>1, <2>2 DEF RequestOK
<1>5. ASSUME NEW s \in RequestId, s # r PROVE RequestOK(s)'
  <2>1. RequestOK(s) /\ request'[s] = request[s]
    BY <1>3, <1>5 DEF PagesInv
  <2>2. /\ page' = page /\ performed \subseteq performed' /\ status' = status
        /\ sent' \in Nat /\ sent <= sent'
        /\ drafts' \in Nat /\ drafts <= drafts' /\ lost \subseteq lost'
    BY <1>1 DEF server
  <2> QED
    BY <1>1, <2>1, <2>2, RequestKept
<1>6. ~request[r].awaited
  BY <1>1, <1>2 DEF PagesInv, RequestOK, OnlySent
<1> QED
  BY <1>1, <1>2, <1>3, <1>4, <1>5, <1>6

-----------------------------------------------------------------------------
(* The user.                                                               *)

\* The filter is changed: what is under way for the table and carries the old
\* one is remembered.
LEMMA ChangeFilterKeeps ==
    ASSUME PagesInv, NEW f \in Filters, ChangeFilter(f)
    PROVE  PagesInv'
<1>1. PagesTypeOK
  BY DEF PagesInv
<1> DEFINE q == [ListRequest(f) EXCEPT !.step = "sent", !.awaited = TRUE]
<1>2. /\ filter' = f /\ raced' = UnderWay({"list", "act", "create"})
      /\ sent < MaxRequests /\ sent' = sent + 1
      /\ request' = [request EXCEPT ![sent + 1] = q]
      /\ loading' = TRUE /\ error' = (error /\ ~LoadClearsError)
      /\ UNCHANGED <<server, rows, shownFor, notice, dialog>>
  BY DEF ChangeFilter, Send, BeginLoad
<1>3. /\ q \in Request /\ q.kind = "list" /\ q.step = "sent"
      /\ q.filter = f /\ q.answer = {} /\ q.awaited
  BY ListRequestIs, SentRequest
<1> HIDE DEF q
<1>4. /\ sent' \in RequestId /\ sent + 1 \in RequestId
      /\ request' \in [RequestId -> Request]
      /\ request'[sent + 1] = q
      /\ \A s \in RequestId : s # sent + 1 => request'[s] = request[s]
      /\ ~request[sent + 1].awaited
      /\ \A s \in RequestId : RequestOK(s)'
  <2>1. UNCHANGED <<server, drafts, lost>>
    BY <1>2 DEF dialog
  <2> QED
    BY <1>2, <1>3, <2>1, RequestsSent
<1>5. PagesTypeOK'
  BY <1>1, <1>2, <1>4 DEF PagesTypeOK, server, dialog, UnderWay, LoadClearsError
<1>6. DraftsInv'
  <2>1. \A s \in RequestId :
            \/ request'[s] = request[s]
            \/ ~AwaitsForm(s) /\ request'[s].kind # "create"
    BY <1>3, <1>4 DEF AwaitsForm
  <2>2. UNCHANGED <<made, drafts, busy, form, lost>>
    BY <1>2 DEF server, dialog
  <2> QED
    BY <2>1, <2>2, DraftsUndisturbed
<1>7. ConfirmedTookEffect'
  BY <1>2, NoticeUndisturbed
<1>8. TableOK'
  <2> SUFFICES ASSUME ~UnderWay({"list", "act", "create"}) PROVE TableOK'
    BY <1>2 DEF TableOK
  <2>1. \A s \in RequestId :
            request[s].awaited => request[s].kind \notin {"list", "act", "create"}
    BY DEF UnderWay
  <2>2. \A s \in RequestId :
            request'[s].awaited /\ request'[s].kind \in LoadsTable =>
                request'[s].filter = filter'
    BY <1>2, <1>3, <1>4, <2>1 DEF LoadsTable
  <2>3. UnderWay({"list", "act"})'
    BY <1>3, <1>4 DEF UnderWay
  <2> QED
    BY <2>2, <2>3 DEF TableOK
<1> QED
  BY <1>4, <1>5, <1>6, <1>7, <1>8 DEF PagesInv, DraftsInv

\* The inventory page loads its rows again, for the selected filter.
LEMMA RefreshKeeps ==
    ASSUME PagesInv, Refresh
    PROVE  PagesInv'
<1>1. PagesTypeOK /\ filter \in Filters
  BY DEF PagesInv, PagesTypeOK
<1> DEFINE q == [ListRequest(filter) EXCEPT !.step = "sent", !.awaited = TRUE]
<1>2. /\ sent < MaxRequests /\ sent' = sent + 1
      /\ request' = [request EXCEPT ![sent + 1] = q]
      /\ loading' = TRUE /\ error' = (error /\ ~LoadClearsError)
      /\ UNCHANGED <<server, filter, rows, shownFor, notice, raced, dialog>>
  BY DEF Refresh, Send, BeginLoad
<1>3. /\ q \in Request /\ q.kind = "list" /\ q.step = "sent"
      /\ q.filter = filter /\ q.answer = {} /\ q.awaited
  BY <1>1, ListRequestIs, SentRequest
<1> HIDE DEF q
<1>4. /\ sent' \in RequestId /\ sent + 1 \in RequestId
      /\ request' \in [RequestId -> Request]
      /\ request'[sent + 1] = q
      /\ \A s \in RequestId : s # sent + 1 => request'[s] = request[s]
      /\ ~request[sent + 1].awaited
      /\ \A s \in RequestId : RequestOK(s)'
  <2>1. UNCHANGED <<server, drafts, lost>>
    BY <1>2 DEF dialog
  <2> QED
    BY <1>1, <1>2, <1>3, <2>1, RequestsSent
<1>5. PagesTypeOK'
  BY <1>1, <1>2, <1>4 DEF PagesTypeOK, server, dialog, LoadClearsError
<1>6. DraftsInv'
  <2>1. \A s \in RequestId :
            \/ request'[s] = request[s]
            \/ ~AwaitsForm(s) /\ request'[s].kind # "create"
    BY <1>3, <1>4 DEF AwaitsForm
  <2>2. UNCHANGED <<made, drafts, busy, form, lost>>
    BY <1>2 DEF server, dialog
  <2> QED
    BY <2>1, <2>2, DraftsUndisturbed
<1>7. ConfirmedTookEffect'
  BY <1>2, NoticeUndisturbed
<1>8. TableOK'
  <2>1. UnderWay({"list", "act"})'
    BY <1>3, <1>4 DEF UnderWay
  <2> QED
    BY <1>2, <1>3, <1>4, <2>1 DEF PagesInv, TableOK
<1> QED
  BY <1>4, <1>5, <1>6, <1>7, <1>8 DEF PagesInv, DraftsInv

\* A button of a row is pressed: the error goes, and an operation is under way
\* that brings the rows or an error.
LEMMA ActKeeps ==
    ASSUME PagesInv, NEW op \in Op, Act(op)
    PROVE  PagesInv'
<1>1. PagesTypeOK /\ filter \in Filters
  BY DEF PagesInv, PagesTypeOK
<1> DEFINE base == [Unsent EXCEPT !.kind = "act", !.op = op, !.filter = filter]
           q == [base EXCEPT !.step = "sent", !.awaited = TRUE]
<1>2. /\ error' = FALSE /\ notice' = None
      /\ sent < MaxRequests /\ sent' = sent + 1
      /\ request' = [request EXCEPT ![sent + 1] = q]
      /\ UNCHANGED <<server, filter, rows, shownFor, loading, raced, dialog>>
  BY DEF Act, Send
<1>3. /\ q \in Request /\ q.kind = "act" /\ q.step = "sent" /\ q.op = op
      /\ q.filter = filter /\ q.answer = {} /\ q.awaited
  <2>1. /\ base \in Request /\ base.kind = "act" /\ base.op = op
        /\ base.filter = filter /\ base.answer = {}
    BY <1>1 DEF Unsent, Request
  <2> HIDE DEF base
  <2> QED
    BY <2>1, SentRequest
<1> HIDE DEF q
<1>4. /\ sent' \in RequestId /\ sent + 1 \in RequestId
      /\ request' \in [RequestId -> Request]
      /\ request'[sent + 1] = q
      /\ \A s \in RequestId : s # sent + 1 => request'[s] = request[s]
      /\ ~request[sent + 1].awaited
      /\ \A s \in RequestId : RequestOK(s)'
  <2>1. UNCHANGED <<server, drafts, lost>>
    BY <1>2 DEF dialog
  <2> QED
    BY <1>1, <1>2, <1>3, <2>1, RequestsSent
<1>5. PagesTypeOK'
  BY <1>1, <1>2, <1>4 DEF PagesTypeOK, server, dialog
<1>6. DraftsInv'
  <2>1. \A s \in RequestId :
            \/ request'[s] = request[s]
            \/ ~AwaitsForm(s) /\ request'[s].kind # "create"
    BY <1>3, <1>4 DEF AwaitsForm
  <2>2. UNCHANGED <<made, drafts, busy, form, lost>>
    BY <1>2 DEF server, dialog
  <2> QED
    BY <2>1, <2>2, DraftsUndisturbed
<1>7. ConfirmedTookEffect'
  BY <1>2, NoticeUndisturbed
<1>8. TableOK'
  <2>1. UnderWay({"list", "act"})'
    BY <1>3, <1>4 DEF UnderWay
  <2> QED
    BY <1>2, <1>3, <1>4, <2>1 DEF PagesInv, TableOK
<1> QED
  BY <1>4, <1>5, <1>6, <1>7, <1>8 DEF PagesInv, DraftsInv

\* The requests are as they were, and the server has done nothing.
LEMMA RequestsUndisturbed ==
    ASSUME PagesInv, UNCHANGED <<server, request, sent, lost>>,
           drafts' \in Nat, drafts <= drafts'
    PROVE  \A s \in RequestId : RequestOK(s)'
<1> SUFFICES ASSUME NEW s \in RequestId PROVE RequestOK(s)'
  OBVIOUS
<1>1. /\ PagesTypeOK /\ RequestOK(s) /\ request'[s] = request[s]
      /\ page' = page /\ performed \subseteq performed' /\ status' = status
      /\ lost \subseteq lost'
  BY DEF PagesInv, server
<1>2. sent' \in Nat /\ sent <= sent'
  BY <1>1 DEF PagesTypeOK, RequestId
<1> QED
  BY <1>1, <1>2, RequestKept

\* A confirmation goes, and nothing else.
LEMMA NoticeExpiresKeeps ==
    ASSUME PagesInv, NoticeExpires
    PROVE  PagesInv'
<1>1. /\ notice' = None
      /\ UNCHANGED <<server, request, sent, filter, rows, shownFor, loading,
                     error, raced, dialog>>
  BY DEF NoticeExpires
<1>2. PagesTypeOK /\ drafts \in Nat
  BY DEF PagesInv, PagesTypeOK
<1>3. \A s \in RequestId : RequestOK(s)'
  BY <1>1, <1>2, RequestsUndisturbed DEF dialog
<1>4. PagesTypeOK'
  BY <1>1, <1>2 DEF PagesTypeOK, server, dialog
<1>5. DraftsInv'
  BY <1>1, DraftsUndisturbed DEF server, dialog
<1>6. ConfirmedTookEffect'
  BY <1>1, NoticeUndisturbed
<1>7. TableOK'
  BY <1>1 DEF PagesInv, TableOK, UnderWay
<1> QED
  BY <1>3, <1>4, <1>5, <1>6, <1>7 DEF PagesInv, DraftsInv

\* The form is filled in: its draft is one that nothing has been sent for.
LEMMA FillInKeeps ==
    ASSUME PagesInv, NEW keyed \in BOOLEAN, FillIn(keyed)
    PROVE  PagesInv'
<1>1. /\ drafts < MaxDrafts /\ drafts' = drafts + 1
      /\ form' = [form EXCEPT !.draft = drafts + 1, !.keyed = keyed]
      /\ UNCHANGED <<server, request, sent, table, busy, batches, lost>>
  BY DEF FillIn
<1>2. PagesTypeOK /\ form \in Form
  BY DEF PagesInv, PagesTypeOK
<1>3. /\ drafts \in Nat /\ drafts' \in Nat /\ drafts' \in Draft
      /\ drafts' \in 0 .. MaxDrafts /\ drafts <= drafts'
  <2>1. drafts \in 0 .. MaxDrafts /\ MaxDrafts \in Nat
    BY <1>2, PagesAssumption DEF PagesTypeOK
  <2> QED
    BY <1>1, <2>1 DEF Draft
<1>4. form' \in Form /\ form'.draft = drafts'
  BY <1>1, <1>2, <1>3 DEF Form
<1>5. \A s \in RequestId : RequestOK(s)'
  BY <1>1, <1>3, RequestsUndisturbed
<1>6. PagesTypeOK'
  BY <1>1, <1>2, <1>3, <1>4 DEF PagesTypeOK, server, table
<1>7. DraftsInv'
  <2>1. OneForm' /\ NotCreatedYet' /\ CreatedOncePerDraft'
    BY <1>1 DEF PagesInv, OneForm, AwaitsForm, NotCreatedYet,
       CreatedOncePerDraft, server
  <2>2. DraftsOK'
    BY <1>1, <1>3, <1>4 DEF PagesInv, DraftsOK, server
  <2> QED
    BY <2>1, <2>2 DEF DraftsInv
<1>8. ConfirmedTookEffect'
  BY <1>1, NoticeUndisturbed DEF table
<1>9. TableOK'
  BY <1>1 DEF PagesInv, TableOK, UnderWay, table
<1> QED
  BY <1>5, <1>6, <1>7, <1>8, <1>9 DEF PagesInv, DraftsInv

\* Another item is chosen: its batches are asked for.
LEMMA ChooseItemKeeps ==
    ASSUME PagesInv, NEW i \in Item, ChooseItem(i)
    PROVE  PagesInv'
<1>1. PagesTypeOK /\ form \in Form
  BY DEF PagesInv, PagesTypeOK
<1> DEFINE base == [Unsent EXCEPT !.kind = "batches", !.form = form']
           q == [base EXCEPT !.step = "sent", !.awaited = TRUE]
<1>2. /\ form' = [form EXCEPT !.item = i, !.batch = None]
      /\ sent < MaxRequests /\ sent' = sent + 1
      /\ request' = [request EXCEPT ![sent + 1] = q]
      /\ UNCHANGED <<server, table, drafts, busy, batches, lost>>
  BY DEF ChooseItem, Send
<1>3. form' \in Form /\ form'.draft = form.draft
  BY <1>1, <1>2 DEF Form
<1>4. /\ q \in Request /\ q.kind = "batches" /\ q.step = "sent"
      /\ q.form = form' /\ q.answer = {} /\ q.awaited
  <2>1. /\ base \in Request /\ base.kind = "batches" /\ base.form = form'
        /\ base.answer = {}
    BY <1>3 DEF Unsent, Request
  <2> HIDE DEF base
  <2> QED
    BY <2>1, SentRequest
<1>5. PICK p : p = q
  OBVIOUS
<1>6. /\ sent' \in RequestId /\ sent + 1 \in RequestId
      /\ request' \in [RequestId -> Request]
      /\ request'[sent + 1] = p
      /\ \A s \in RequestId : s # sent + 1 => request'[s] = request[s]
      /\ ~request[sent + 1].awaited
      /\ \A s \in RequestId : RequestOK(s)'
  <2>1. UNCHANGED <<server, drafts, lost>>
    BY <1>2
  <2>2. /\ p \in Request /\ p.kind = "batches" /\ p.step = "sent"
        /\ p.form \in Form /\ p.answer = {} /\ p.awaited
        /\ request' = [request EXCEPT ![sent + 1] = p]
    BY <1>2, <1>3, <1>4, <1>5
  <2> QED
    BY <1>2, <2>1, <2>2, RequestsSent
<1>7. p.kind = "batches"
  BY <1>4, <1>5
<1> HIDE DEF q
<1>8. PagesTypeOK'
  BY <1>1, <1>2, <1>3, <1>6 DEF PagesTypeOK, server, table
<1>9. DraftsInv'
  <2>1. \A s \in RequestId :
            \/ request'[s] = request[s]
            \/ ~AwaitsForm(s) /\ request'[s].kind # "create"
    BY <1>6, <1>7 DEF AwaitsForm
  <2>2. UNCHANGED <<made, drafts, busy, lost>>
    BY <1>2 DEF server
  <2> QED
    BY <1>3, <2>1, <2>2, DraftsUndisturbed
<1>10. ConfirmedTookEffect'
  BY <1>2, NoticeUndisturbed DEF table
<1>11. TableOK'
  BY <1>2, <1>6, <1>7 DEF PagesInv, TableOK, LoadsTable, UnderWay, table
<1> QED
  BY <1>6, <1>8, <1>9, <1>10, <1>11 DEF PagesInv, DraftsInv

\* A batch is chosen, of the options that are there.
LEMMA ChooseBatchKeeps ==
    ASSUME PagesInv, NEW b \in Batch, ChooseBatch(b)
    PROVE  PagesInv'
<1>1. /\ form' = [form EXCEPT !.batch = b]
      /\ UNCHANGED <<server, request, sent, table, drafts, busy, batches, lost>>
  BY DEF ChooseBatch
<1>2. PagesTypeOK /\ form \in Form /\ drafts \in Nat
  BY DEF PagesInv, PagesTypeOK
<1>3. form' \in Form /\ form'.draft = form.draft
  BY <1>1, <1>2 DEF Form
<1>4. \A s \in RequestId : RequestOK(s)'
  BY <1>1, <1>2, RequestsUndisturbed
<1>5. PagesTypeOK'
  BY <1>1, <1>2, <1>3 DEF PagesTypeOK, server, table
<1>6. DraftsInv'
  BY <1>1, <1>3, DraftsUndisturbed DEF server
<1>7. ConfirmedTookEffect'
  BY <1>1, NoticeUndisturbed DEF table
<1>8. TableOK'
  BY <1>1 DEF PagesInv, TableOK, UnderWay, table
<1> QED
  BY <1>4, <1>5, <1>6, <1>7, <1>8 DEF PagesInv, DraftsInv

\* The form is switched between a batch of the options and a new code.
LEMMA ToggleNewBatchKeeps ==
    ASSUME PagesInv, ToggleNewBatch
    PROVE  PagesInv'
<1>1. /\ form' = [form EXCEPT !.fresh = ~@]
      /\ UNCHANGED <<server, request, sent, table, drafts, busy, batches, lost>>
  BY DEF ToggleNewBatch
<1>2. PagesTypeOK /\ form \in Form /\ drafts \in Nat
  BY DEF PagesInv, PagesTypeOK
<1>3. form' \in Form /\ form'.draft = form.draft
  BY <1>1, <1>2 DEF Form
<1>4. \A s \in RequestId : RequestOK(s)'
  BY <1>1, <1>2, RequestsUndisturbed
<1>5. PagesTypeOK'
  BY <1>1, <1>2, <1>3 DEF PagesTypeOK, server, table
<1>6. DraftsInv'
  BY <1>1, <1>3, DraftsUndisturbed DEF server
<1>7. ConfirmedTookEffect'
  BY <1>1, NoticeUndisturbed DEF table
<1>8. TableOK'
  BY <1>1 DEF PagesInv, TableOK, UnderWay, table
<1> QED
  BY <1>4, <1>5, <1>6, <1>7, <1>8 DEF PagesInv, DraftsInv

\* The form is submitted: its button was enabled, so no other form is waited
\* for and the draft on the screen, if it was created, is lost.
LEMMA SubmitKeeps ==
    ASSUME PagesInv, Submit
    PROVE  PagesInv'
<1>1. /\ PagesTypeOK /\ filter \in Filters /\ form \in Form
      /\ form.draft # None /\ ~busy /\ form.draft \in 1 .. drafts
  BY DEF PagesInv, PagesTypeOK, DraftsOK, Submit, Ready
<1> DEFINE body == Body
           base == [Unsent EXCEPT !.kind = "create", !.form = body,
                                  !.filter = filter]
           q == [base EXCEPT !.step = "sent", !.awaited = TRUE]
<1>2. /\ busy' = TRUE
      /\ sent < MaxRequests /\ sent' = sent + 1
      /\ request' = [request EXCEPT ![sent + 1] = q]
      /\ UNCHANGED <<server, table, form, drafts, batches, lost>>
  BY DEF Submit, Send
<1>3. body \in Form /\ body.draft = form.draft
  BY <1>1 DEF Body, Form
<1> HIDE DEF body
<1>4. /\ q \in Request /\ q.kind = "create" /\ q.step = "sent"
      /\ q.form = body /\ q.filter = filter /\ q.answer = {} /\ q.awaited
  <2>1. /\ base \in Request /\ base.kind = "create" /\ base.form = body
        /\ base.filter = filter /\ base.answer = {}
    BY <1>1, <1>3 DEF Unsent, Request
  <2> HIDE DEF base
  <2> QED
    BY <2>1, SentRequest
<1> HIDE DEF q
<1>5. /\ sent' \in RequestId /\ sent + 1 \in RequestId
      /\ request' \in [RequestId -> Request]
      /\ request'[sent + 1] = q
      /\ \A s \in RequestId : s # sent + 1 => request'[s] = request[s]
      /\ ~request[sent + 1].awaited
      /\ \A s \in RequestId : RequestOK(s)'
  <2>1. UNCHANGED <<server, drafts, lost>>
    BY <1>2
  <2> QED
    BY <1>1, <1>2, <1>3, <1>4, <2>1, RequestsSent
<1>6. PagesTypeOK'
  BY <1>1, <1>2, <1>5 DEF PagesTypeOK, server, table
<1>7. DraftsInv'
  <2>1. \A s \in RequestId : ~AwaitsForm(s)
    BY <1>1 DEF PagesInv, OneForm
  <2>2. OneForm'
    BY <1>2, <1>5, <2>1 DEF OneForm, AwaitsForm
  <2>3. \A c \in made : c.form.draft = form.draft => c.form.draft \in lost
    BY <2>1 DEF PagesInv, DraftsOK, Told
  <2>4. made' = made /\ form' = form /\ lost' = lost /\ drafts' = drafts
    BY <1>2 DEF server
  <2>5. NotCreatedYet'
    BY <1>3, <1>4, <1>5, <2>3, <2>4 DEF PagesInv, NotCreatedYet
  <2>6. DraftsOK'
    BY <2>3, <2>4 DEF PagesInv, DraftsOK
  <2>7. CreatedOncePerDraft'
    BY <2>4 DEF PagesInv, CreatedOncePerDraft
  <2> QED
    BY <2>2, <2>5, <2>6, <2>7 DEF DraftsInv
<1>8. ConfirmedTookEffect'
  BY <1>2, NoticeUndisturbed DEF table
<1>9. TableOK'
  BY <1>2, <1>4, <1>5 DEF PagesInv, TableOK, LoadsTable, UnderWay, table
<1> QED
  BY <1>5, <1>6, <1>7, <1>8, <1>9 DEF PagesInv, DraftsInv

-----------------------------------------------------------------------------
(* The server.                                                             *)

\* The server has dealt with one request and answers, or will answer, the truth:
\* the request is in order, and so are the others.
LEMMA RequestsServed ==
    ASSUME PagesInv, NEW r \in RequestId,
           NEW step \in {"committed", "answered", "refused"},
           NEW answer \in SUBSET (Status \cup Batch),
           Replied(r, step, answer),
           request[r].kind \in {"list", "act"} => answer \subseteq Status,
           request[r].kind = "batches" => answer \subseteq Batch,
           NEW op, op = request[r].op,
           step = "committed" =>
               request[r].kind = "act" /\ Outcome(op, {status})',
           request[r].kind = "act" /\ step = "answered" => Outcome(op, answer)',
           page' = page, performed \subseteq performed',
           \/ status' = status
           \/ \E n \in Moves[page] : status \in n.from /\ status' \in n.to,
           UNCHANGED <<sent, drafts, lost>>
    PROVE  /\ request' \in [RequestId -> Request]
           /\ \A s \in RequestId : RequestOK(s)'
           /\ \A s \in RequestId : s # r => request'[s] = request[s]
           /\ \A s \in RequestId :
                request'[s].awaited =>
                    /\ request[s].awaited
                    /\ request'[s].kind = request[s].kind
                    /\ request'[s].filter = request[s].filter
                    /\ request'[s].form = request[s].form
           /\ \A s \in RequestId :
                request[s].awaited =>
                    request'[s].awaited /\ request'[s].kind = request[s].kind
           /\ request'[r].step # "sent"
           /\ request'[r].kind = "create" => request[r].awaited
<1>1. /\ PagesTypeOK /\ RequestOK(r) /\ request \in [RequestId -> Request]
      /\ sent' \in Nat /\ sent <= sent' /\ drafts' \in Nat /\ drafts <= drafts'
  BY DEF PagesInv, PagesTypeOK, RequestId
<1>2. /\ request' \in [RequestId -> Request]
      /\ \A s \in RequestId : s # r => request'[s] = request[s]
      /\ ~request[r].awaited => request'[r] = Unsent
      /\ request[r].awaited =>
           /\ request'[r].kind = request[r].kind
           /\ request'[r].step = step
           /\ request'[r].filter = request[r].filter
           /\ request'[r].op = request[r].op
           /\ request'[r].form = request[r].form
           /\ request'[r].answer = answer
           /\ request'[r].awaited
  BY <1>1, RepliedRequest
<1>3. RequestOK(r)'
  <2>1. CASE ~request[r].awaited
    BY <1>1, <1>2, <2>1, RequestKept
  <2>2. CASE request[r].awaited
    <3>1. OnlySent(r)' /\ FilterKnown(r)' /\ AnswerFits(r)'
      BY <1>1, <1>2, <2>2 DEF RequestOK, OnlySent, FilterKnown, AnswerFits
    <3>2. FormIsKnown(r)' /\ FollowedOrLost(r)'
      BY <1>1, <1>2, <2>2 DEF RequestOK, FormIsKnown, FollowedOrLost
    <3>3. OperationIsTrue(r)'
      BY <1>1, <1>2, <2>2 DEF RequestOK, OperationIsTrue, Outcome
    <3> QED
      BY <3>1, <3>2, <3>3 DEF RequestOK
  <2> QED
    BY <2>1, <2>2
<1>4. ASSUME NEW s \in RequestId, s # r PROVE RequestOK(s)'
  <2>1. RequestOK(s) /\ request'[s] = request[s] /\ lost \subseteq lost'
    BY <1>2, <1>4 DEF PagesInv
  <2> QED
    BY <1>1, <2>1, RequestKept
<1>5. ~request[r].awaited =>
        ~request'[r].awaited /\ request'[r].step # "sent"
        /\ request'[r].kind # "create"
  BY <1>2, UnsentRequest
<1> QED
  BY <1>2, <1>3, <1>4, <1>5

\* The server deals with a request that creates nothing: drafts, notice and
\* table are as true as before.
LEMMA ServedKeeps ==
    ASSUME PagesInv, PagesTypeOK', NEW r \in RequestId,
           request[r].step # "answered",
           UNCHANGED <<page, made, sent, table, dialog>>,
           performed \subseteq performed',
           \/ status' = status
           \/ \E n \in Moves[page] : status \in n.from /\ status' \in n.to,
           \A s \in RequestId : RequestOK(s)',
           \A s \in RequestId : s # r => request'[s] = request[s],
           \A s \in RequestId :
               request'[s].awaited =>
                   /\ request[s].awaited
                   /\ request'[s].kind = request[s].kind
                   /\ request'[s].filter = request[s].filter
                   /\ request'[s].form = request[s].form,
           \A s \in RequestId :
               request[s].awaited =>
                   request'[s].awaited /\ request'[s].kind = request[s].kind,
           request'[r].step # "sent"
    PROVE  PagesInv'
<1>1. UNCHANGED <<made, drafts, busy, lost, form, filter, shownFor, error,
                  notice, raced>>
  BY DEF table, dialog
<1>2. OneForm'
  BY <1>1 DEF PagesInv, OneForm, AwaitsForm
<1>3. NotCreatedYet'
  BY <1>1 DEF PagesInv, NotCreatedYet
<1>4. ASSUME NEW d, Told(d) PROVE Told(d)'
  <2>1. PICK s \in RequestId : AwaitsForm(s) /\ request[s].step = "answered"
                               /\ request[s].form.draft = d
    BY <1>4 DEF Told
  <2>2. s # r
    BY <2>1
  <2> QED
    BY <2>1, <2>2 DEF Told, AwaitsForm
<1>5. DraftsOK'
  BY <1>1, <1>4 DEF PagesInv, DraftsOK
<1>6. CreatedOncePerDraft'
  BY <1>1 DEF PagesInv, CreatedOncePerDraft
<1>7. ConfirmedTookEffect'
  BY <1>1, NoticeStays
<1>8. TableOK'
  <2>1. UnderWay({"list", "act"}) => UnderWay({"list", "act"})'
    BY DEF UnderWay
  <2> QED
    BY <1>1, <2>1 DEF PagesInv, TableOK
<1> QED
  BY <1>2, <1>3, <1>5, <1>6, <1>7, <1>8 DEF PagesInv

\* A listing is answered with the rows that match its filter.
LEMMA ReplyListKeeps ==
    ASSUME PagesInv, NEW r \in RequestId, ReplyList(r)
    PROVE  PagesInv'
<1>1. PICK answer \in SUBSET Status :
        answer = {s \in {status} : Matches(request[r].filter, s)}
  <2>1. status \in Status
    BY DEF PagesInv, PagesTypeOK
  <2> QED
    BY <2>1
<1>2. /\ request[r].kind = "list" /\ request[r].step = "sent"
      /\ Replied(r, "answered", answer)
      /\ UNCHANGED <<server, sent, table, dialog>>
  BY <1>1 DEF ReplyList
<1>3. PICK op : op = request[r].op
  OBVIOUS
<1>4. UNCHANGED <<page, performed, status, made, others, sent, drafts, lost>>
  BY <1>2 DEF server, dialog
<1>5. /\ request' \in [RequestId -> Request]
      /\ \A s \in RequestId : RequestOK(s)'
      /\ \A s \in RequestId : s # r => request'[s] = request[s]
      /\ \A s \in RequestId :
           request'[s].awaited =>
               /\ request[s].awaited
               /\ request'[s].kind = request[s].kind
               /\ request'[s].filter = request[s].filter
               /\ request'[s].form = request[s].form
      /\ \A s \in RequestId :
           request[s].awaited =>
               request'[s].awaited /\ request'[s].kind = request[s].kind
      /\ request'[r].step # "sent"
  BY <1>2, <1>3, <1>4, RequestsServed
<1>6. PagesTypeOK'
  BY <1>2, <1>5 DEF PagesInv, PagesTypeOK, server, table, dialog
<1> QED
  BY <1>2, <1>4, <1>5, <1>6, ServedKeeps

\* The batches of an item are answered.
LEMMA ReplyBatchesKeeps ==
    ASSUME PagesInv, NEW r \in RequestId, ReplyBatches(r)
    PROVE  PagesInv'
<1>1. PICK answer \in SUBSET Batch :
        answer = {b \in Batch : ItemOf[b] = request[r].form.item}
  OBVIOUS
<1>2. /\ request[r].kind = "batches" /\ request[r].step = "sent"
      /\ Replied(r, "answered", answer)
      /\ UNCHANGED <<server, sent, table, dialog>>
  BY <1>1 DEF ReplyBatches
<1>3. PICK op : op = request[r].op
  OBVIOUS
<1>4. UNCHANGED <<page, performed, status, made, others, sent, drafts, lost>>
  BY <1>2 DEF server, dialog
<1>5. /\ request' \in [RequestId -> Request]
      /\ \A s \in RequestId : RequestOK(s)'
      /\ \A s \in RequestId : s # r => request'[s] = request[s]
      /\ \A s \in RequestId :
           request'[s].awaited =>
               /\ request[s].awaited
               /\ request'[s].kind = request[s].kind
               /\ request'[s].filter = request[s].filter
               /\ request'[s].form = request[s].form
      /\ \A s \in RequestId :
           request[s].awaited =>
               request'[s].awaited /\ request'[s].kind = request[s].kind
      /\ request'[r].step # "sent"
  BY <1>2, <1>3, <1>4, RequestsServed
<1>6. PagesTypeOK'
  BY <1>2, <1>5 DEF PagesInv, PagesTypeOK, server, table, dialog
<1> QED
  BY <1>2, <1>4, <1>5, <1>6, ServedKeeps

\* The transaction of an operation: the status is now its outcome.
LEMMA PerformKeeps ==
    ASSUME PagesInv, NEW r \in RequestId, Perform(r)
    PROVE  PagesInv'
<1>1. /\ request[r].kind = "act" /\ request[r].step = "sent"
      /\ Replied(r, "committed", {})
      /\ UNCHANGED <<page, made, others, sent, table, dialog>>
  BY DEF Perform
<1>2. PICK m \in Moves[page] : /\ m.op = request[r].op /\ status \in m.from
                               /\ status' \in m.to
                               /\ performed' = performed \cup {m.op}
  BY DEF Perform, Accepts
<1>3. PICK op : op = request[r].op
  OBVIOUS
<1>4. PagesTypeOK /\ page \in Page /\ m.op \in Op /\ m.to \subseteq Status
  BY <1>2, MovesAreOperations DEF PagesInv, PagesTypeOK
<1>5. Outcome(op, {status})'
  <2>1. status' \in Later(m.to)'
    BY <1>2 DEF Later, After
  <2>2. m \in Moves[page'] /\ m.op = op /\ op \in performed'
    BY <1>1, <1>2, <1>3
  <2> QED
    BY <2>1, <2>2 DEF Outcome
<1>6. /\ request' \in [RequestId -> Request]
      /\ \A s \in RequestId : RequestOK(s)'
      /\ \A s \in RequestId : s # r => request'[s] = request[s]
      /\ \A s \in RequestId :
           request'[s].awaited =>
               /\ request[s].awaited
               /\ request'[s].kind = request[s].kind
               /\ request'[s].filter = request[s].filter
               /\ request'[s].form = request[s].form
      /\ \A s \in RequestId :
           request[s].awaited =>
               request'[s].awaited /\ request'[s].kind = request[s].kind
      /\ request'[r].step # "sent"
  <2>1. {} \in SUBSET (Status \cup Batch)
    OBVIOUS
  <2>2. UNCHANGED <<page, sent, drafts, lost>> /\ performed \subseteq performed'
    BY <1>1, <1>2 DEF dialog
  <2> QED
    BY <1>1, <1>2, <1>3, <1>5, <2>1, <2>2, RequestsServed
<1>7. PagesTypeOK'
  BY <1>1, <1>2, <1>4, <1>6 DEF PagesTypeOK, table, dialog
<1> QED
  BY <1>1, <1>2, <1>6, <1>7, ServedKeeps

\* The answer of an operation is read after the commit, from a status that may
\* have changed again.
LEMMA ReadBackKeeps ==
    ASSUME PagesInv, NEW r \in RequestId, ReadBack(r)
    PROVE  PagesInv'
<1>1. PICK answer \in SUBSET Status : answer = {status}
  BY DEF PagesInv, PagesTypeOK
<1>2. /\ request[r].step = "committed"
      /\ Replied(r, "answered", answer)
      /\ UNCHANGED <<server, sent, table, dialog>>
  BY <1>1 DEF ReadBack
<1>3. PICK op : op = request[r].op
  OBVIOUS
<1>4. UNCHANGED <<page, performed, status, made, others, sent, drafts, lost>>
  BY <1>2 DEF server, dialog
<1>5. request[r].kind = "act" /\ Outcome(op, answer)
  BY <1>1, <1>2, <1>3 DEF PagesInv, RequestOK, OperationIsTrue
<1>6. Outcome(op, answer)'
  BY <1>4, <1>5 DEF Outcome, Later, After
<1>7. /\ request' \in [RequestId -> Request]
      /\ \A s \in RequestId : RequestOK(s)'
      /\ \A s \in RequestId : s # r => request'[s] = request[s]
      /\ \A s \in RequestId :
           request'[s].awaited =>
               /\ request[s].awaited
               /\ request'[s].kind = request[s].kind
               /\ request'[s].filter = request[s].filter
               /\ request'[s].form = request[s].form
      /\ \A s \in RequestId :
           request[s].awaited =>
               request'[s].awaited /\ request'[s].kind = request[s].kind
      /\ request'[r].step # "sent"
  BY <1>2, <1>3, <1>4, <1>5, <1>6, RequestsServed
<1>8. PagesTypeOK'
  BY <1>2, <1>7 DEF PagesInv, PagesTypeOK, server, table, dialog
<1> QED
  BY <1>2, <1>4, <1>7, <1>8, ServedKeeps

\* A request is refused, and nothing is done for it.
LEMMA RefuseKeeps ==
    ASSUME PagesInv, NEW r \in RequestId, Refuse(r)
    PROVE  PagesInv'
<1>1. /\ request[r].kind \in {"act", "create"} /\ request[r].step = "sent"
      /\ Replied(r, "refused", {})
      /\ UNCHANGED <<server, sent, table, dialog>>
  BY DEF Refuse
<1>2. PICK op : op = request[r].op
  OBVIOUS
<1>3. UNCHANGED <<page, performed, status, made, others, sent, drafts, lost>>
  BY <1>1 DEF server, dialog
<1>4. {} \in SUBSET (Status \cup Batch)
  OBVIOUS
<1>5. /\ request' \in [RequestId -> Request]
      /\ \A s \in RequestId : RequestOK(s)'
      /\ \A s \in RequestId : s # r => request'[s] = request[s]
      /\ \A s \in RequestId :
           request'[s].awaited =>
               /\ request[s].awaited
               /\ request'[s].kind = request[s].kind
               /\ request'[s].filter = request[s].filter
               /\ request'[s].form = request[s].form
      /\ \A s \in RequestId :
           request[s].awaited =>
               request'[s].awaited /\ request'[s].kind = request[s].kind
      /\ request'[r].step # "sent"
  BY <1>1, <1>2, <1>3, <1>4, RequestsServed
<1>6. PagesTypeOK'
  BY <1>1, <1>5 DEF PagesInv, PagesTypeOK, server, table, dialog
<1> QED
  BY <1>1, <1>3, <1>5, <1>6, ServedKeeps

\* A document is created: if its draft was created before, that was by a form
\* that was lost, since the page waits for one at a time.
LEMMA CreateKeeps ==
    ASSUME PagesInv, NEW r \in RequestId, Create(r)
    PROVE  PagesInv'
<1> DEFINE f == request[r].form
<1>1. /\ request[r].kind = "create" /\ request[r].step = "sent"
      /\ FitsItem(f) /\ ~ReceivedBefore(f)
      /\ made' = made \cup {[by |-> r, form |-> f]}
      /\ Replied(r, "answered", {})
      /\ UNCHANGED <<page, status, performed, others, sent, table, dialog>>
  BY DEF Create
<1>2. PICK op : op = request[r].op
  OBVIOUS
<1>3. /\ PagesTypeOK /\ RequestOK(r)
      /\ UNCHANGED <<drafts, lost, busy, form, filter, shownFor, error, notice,
                     raced>>
      /\ {} \in SUBSET (Status \cup Batch)
  BY <1>1 DEF PagesInv, table, dialog
<1>4. f \in Form /\ f.draft \in 1 .. drafts
  BY <1>1, <1>3 DEF RequestOK, FormIsKnown
<1>5. /\ request' \in [RequestId -> Request]
      /\ \A s \in RequestId : RequestOK(s)'
      /\ \A s \in RequestId : s # r => request'[s] = request[s]
      /\ \A s \in RequestId :
           request'[s].awaited =>
               /\ request[s].awaited
               /\ request'[s].kind = request[s].kind
               /\ request'[s].filter = request[s].filter
               /\ request'[s].form = request[s].form
      /\ \A s \in RequestId :
           request[s].awaited =>
               request'[s].awaited /\ request'[s].kind = request[s].kind
      /\ request'[r].step # "sent"
  BY <1>1, <1>2, <1>3, RequestsServed
<1>6. request[r].awaited =>
        AwaitsForm(r)' /\ request'[r].step = "answered" /\ request'[r].form = f
  BY <1>1, <1>3, RepliedRequest DEF PagesTypeOK, AwaitsForm
<1>7. PagesTypeOK'
  <2>1. [by |-> r, form |-> f] \in [by : RequestId, form : Form]
    BY <1>4
  <2> HIDE DEF f
  <2>2. made' \subseteq [by : RequestId, form : Form]
    BY <1>1, <1>3, <2>1 DEF PagesTypeOK
  <2> QED
    BY <1>1, <1>3, <1>5, <2>2 DEF PagesTypeOK, table, dialog
<1> DEFINE new == [by |-> r, form |-> f]
<1>8. new.form = f /\ made' = made \cup {new}
  BY <1>1
<1> HIDE DEF new
<1>9. request[r].awaited \/ f.draft \in lost
  BY <1>1, <1>3 DEF RequestOK, FollowedOrLost
<1>10. ASSUME NEW c \in made, c.form.draft = f.draft
       PROVE  c.form.draft \in lost /\ ~(c.form.keyed /\ f.keyed)
  <2>1. c.form.draft \in lost
    BY <1>1, <1>10 DEF PagesInv, NotCreatedYet
  <2>2. ~(c.form.keyed /\ f.keyed)
    BY <1>1, <1>10 DEF ReceivedBefore
  <2> QED
    BY <2>1, <2>2
<1>11. OneForm'
  BY <1>3, <1>5 DEF PagesInv, OneForm, AwaitsForm
<1>12. NotCreatedYet'
  <2> SUFFICES ASSUME NEW s \in RequestId,
                      request'[s].kind = "create", request'[s].step = "sent",
                      NEW c \in made', c.form.draft = request'[s].form.draft
               PROVE  c.form.draft \in lost'
    BY DEF NotCreatedYet
  <2>1. s # r /\ request'[s] = request[s]
    BY <1>5
  <2>2. CASE c \in made
    BY <1>3, <2>1, <2>2 DEF PagesInv, NotCreatedYet
  <2>3. CASE c = new
    <3>1. request[s].awaited \/ request[s].form.draft \in lost
      BY <2>1 DEF PagesInv, RequestOK, FollowedOrLost
    <3>2. ~(request[s].awaited /\ request[r].awaited)
      BY <1>1, <2>1 DEF PagesInv, OneForm, AwaitsForm
    <3> QED
      BY <1>3, <1>8, <1>9, <2>1, <2>3, <3>1, <3>2
  <2> QED
    BY <1>8, <2>2, <2>3
<1>13. DraftsOK'
  <2>1. ASSUME NEW d, Told(d) PROVE Told(d)'
    <3>1. PICK s \in RequestId : AwaitsForm(s) /\ request[s].step = "answered"
                                 /\ request[s].form.draft = d
      BY <2>1 DEF Told
    <3>2. s # r
      BY <1>1, <3>1
    <3> QED
      BY <1>5, <3>1, <3>2 DEF Told, AwaitsForm
  <2>2. \A d : request[r].awaited /\ d = f.draft => Told(d)'
    BY <1>6 DEF Told
  <2>3. \A c \in made' : c.form.draft \in 1 .. drafts'
    BY <1>3, <1>4, <1>8 DEF PagesInv, DraftsOK
  <2>4. ASSUME NEW c \in made', c.form.draft = form.draft
        PROVE  c.form.draft \in lost \/ Told(c.form.draft)'
    <3>1. CASE c \in made
      BY <2>1, <2>4, <3>1 DEF PagesInv, DraftsOK
    <3>2. CASE c = new
      BY <1>8, <1>9, <2>2, <3>2
    <3> QED
      BY <1>8, <3>1, <3>2
  <2> QED
    BY <1>3, <2>3, <2>4 DEF PagesInv, DraftsOK
<1>14. CreatedOncePerDraft'
  <2>1. \A c, d \in made :
          c # d /\ c.form.draft = d.form.draft =>
              c.form.draft \in lost /\ ~(c.form.keyed /\ d.form.keyed)
    BY DEF PagesInv, CreatedOncePerDraft
  <2> QED
    BY <1>3, <1>8, <1>10, <2>1 DEF CreatedOncePerDraft
<1>15. ConfirmedTookEffect'
  BY <1>1, <1>3, NoticeStays
<1>16. TableOK'
  <2>1. UnderWay({"list", "act"}) => UnderWay({"list", "act"})'
    BY <1>5 DEF UnderWay
  <2> QED
    BY <1>3, <1>5, <2>1 DEF PagesInv, TableOK
<1> QED
  BY <1>5, <1>7, <1>11, <1>12, <1>13, <1>14, <1>15, <1>16 DEF PagesInv

\* Another user's operation: what was true of an operation stays true.
LEMMA OtherUserKeeps ==
    ASSUME PagesInv, NEW m \in Moves[page], OtherUser(m)
    PROVE  PagesInv'
<1>1. /\ others < MaxOthers /\ others' = others + 1
      /\ status \in m.from /\ status' \in m.to
      /\ UNCHANGED <<page, performed, made, request, sent, table, dialog>>
  BY DEF OtherUser
<1>2. PagesTypeOK /\ page \in Page /\ m.to \subseteq Status
  BY MovesAreOperations DEF PagesInv, PagesTypeOK
<1>3. PagesTypeOK'
  <2>1. others' \in 0 .. MaxOthers
    <3>1. others \in 0 .. MaxOthers /\ MaxOthers \in Nat
      BY <1>2, PagesAssumption DEF PagesTypeOK
    <3> QED
      BY <1>1, <3>1
  <2> QED
    BY <1>1, <1>2, <2>1 DEF PagesTypeOK, table, dialog
<1>4. \A s \in RequestId : RequestOK(s)'
  <2> SUFFICES ASSUME NEW s \in RequestId PROVE RequestOK(s)'
    OBVIOUS
  <2>1. RequestOK(s) /\ request'[s] = request[s] /\ performed \subseteq performed'
        /\ lost \subseteq lost'
    BY <1>1 DEF PagesInv, dialog
  <2>2. sent' \in Nat /\ sent <= sent' /\ drafts' \in Nat /\ drafts <= drafts'
    BY <1>1, <1>2 DEF PagesTypeOK, RequestId, dialog
  <2> QED
    BY <1>1, <1>2, <2>1, <2>2, RequestKept
<1>5. DraftsInv'
  BY <1>1, DraftsUndisturbed DEF dialog
<1>6. ConfirmedTookEffect'
  BY <1>1, NoticeStays DEF table
<1>7. TableOK'
  BY <1>1 DEF PagesInv, TableOK, UnderWay, table
<1> QED
  BY <1>3, <1>4, <1>5, <1>6, <1>7 DEF PagesInv, DraftsInv

-----------------------------------------------------------------------------
(* The answers.                                                            *)

\* The page has dealt with an answer: its request is over, or goes on by loading
\* the table with the filter it was sent with.
LEMMA RequestsDealtWith ==
    ASSUME PagesInv, NEW r \in RequestId, NEW q,
           \/ q = Unsent
           \/ /\ request[r].kind \in {"act", "create"} /\ request[r].awaited
              /\ q = ListRequest(request[r].filter),
           request' = [request EXCEPT ![r] = q],
           UNCHANGED <<server, sent, drafts>>,
           lost \subseteq lost'
    PROVE  /\ request' \in [RequestId -> Request]
           /\ request'[r] = q
           /\ q \in Request /\ q.kind \in {"none", "list"}
           /\ q.awaited => /\ q.kind = "list" /\ request[r].awaited
                           /\ request[r].kind \in {"act", "create"}
                           /\ q.filter = request[r].filter
           /\ \A s \in RequestId : s # r => request'[s] = request[s]
           /\ \A s \in RequestId : RequestOK(s)'
<1>1. /\ PagesTypeOK /\ RequestOK(r) /\ request \in [RequestId -> Request]
      /\ sent' \in Nat /\ sent <= sent' /\ drafts' \in Nat /\ drafts <= drafts'
  BY DEF PagesInv, PagesTypeOK, RequestId
<1>2. /\ q \in Request /\ q.kind \in {"none", "list"}
      /\ q # Unsent => /\ q.kind = "list" /\ q.step = "sent" /\ q.awaited
                       /\ q.filter = request[r].filter /\ q.answer = {}
                       /\ q.filter \in Filters
                       /\ request[r].kind \in {"act", "create"}
                       /\ request[r].awaited
  <2>1. CASE q = Unsent
    BY <2>1, UnsentRequest
  <2>2. CASE /\ request[r].kind \in {"act", "create"} /\ request[r].awaited
             /\ q = ListRequest(request[r].filter)
    <3>1. request[r].filter \in Filters
      BY <1>1, <2>2 DEF RequestOK, FilterKnown
    <3> QED
      BY <2>2, <3>1, ListRequestIs
  <2> QED
    BY <2>1, <2>2
<1>3. /\ request' \in [RequestId -> Request] /\ request'[r] = q
      /\ \A s \in RequestId : s # r => request'[s] = request[s]
  BY <1>1, <1>2
<1>4. page' = page /\ performed \subseteq performed' /\ status' = status
  BY DEF server
<1>5. RequestOK(r)'
  <2>1. CASE q = Unsent
    BY <1>1, <1>3, <1>4, <2>1, RequestKept
  <2>2. CASE q # Unsent
    BY <1>1, <1>2, <1>3, <2>2
    DEF RequestOK, OnlySent, FilterKnown, AnswerFits, OperationIsTrue,
        FormIsKnown, FollowedOrLost
  <2> QED
    BY <2>1, <2>2
<1>6. ASSUME NEW s \in RequestId, s # r PROVE RequestOK(s)'
  <2>1. RequestOK(s) /\ request'[s] = request[s]
    BY <1>3, <1>6 DEF PagesInv
  <2> QED
    BY <1>1, <1>4, <2>1, RequestKept
<1> QED
  BY <1>2, <1>3, <1>5, <1>6, UnsentRequest

\* Rows arrive: if the filter was not changed under them, they are those of the
\* selected one.
LEMMA ShowRowsKeeps ==
    ASSUME PagesInv, NEW r \in RequestId, ShowRows(r)
    PROVE  PagesInv'
<1>1. /\ request[r].awaited /\ request[r].kind = "list"
      /\ rows' = request[r].answer /\ shownFor' = request[r].filter
      /\ loading' = FALSE
      /\ request' = [request EXCEPT ![r] = Unsent]
      /\ UNCHANGED <<server, sent, filter, error, notice, raced, dialog>>
  BY DEF ShowRows, Awaited, Settled
<1>2. PagesTypeOK /\ RequestOK(r)
  BY DEF PagesInv
<1>3. /\ request' \in [RequestId -> Request] /\ request'[r] = Unsent
      /\ \A s \in RequestId : s # r => request'[s] = request[s]
      /\ \A s \in RequestId : RequestOK(s)'
  <2>1. UNCHANGED <<server, sent, drafts>> /\ lost \subseteq lost'
    BY <1>1 DEF dialog
  <2> QED
    BY <1>1, <2>1, RequestsDealtWith
<1>4. PagesTypeOK'
  <2>1. rows' \subseteq Status /\ shownFor' \in Filters
    BY <1>1, <1>2 DEF RequestOK, AnswerFits, FilterKnown
  <2> QED
    BY <1>1, <1>2, <1>3, <2>1 DEF PagesTypeOK, server, dialog
<1>5. DraftsInv'
  <2>1. \A s \in RequestId :
            \/ request'[s] = request[s]
            \/ ~AwaitsForm(s) /\ request'[s].kind # "create"
    BY <1>1, <1>3, UnsentRequest DEF AwaitsForm
  <2>2. UNCHANGED <<made, drafts, busy, form, lost>>
    BY <1>1 DEF server, dialog
  <2> QED
    BY <2>1, <2>2, DraftsUndisturbed
<1>6. ConfirmedTookEffect'
  BY <1>1, NoticeUndisturbed
<1>7. TableOK'
  BY <1>1, <1>3, UnsentRequest DEF PagesInv, TableOK, LoadsTable
<1> QED
  BY <1>3, <1>4, <1>5, <1>6, <1>7 DEF PagesInv, DraftsInv

\* An operation is confirmed with what its answer says, and the table is loaded
\* for the filter of its render.
LEMMA ConfirmKeeps ==
    ASSUME PagesInv, NEW r \in RequestId, Confirm(r)
    PROVE  PagesInv'
<1> DEFINE q == ListRequest(request[r].filter)
<1>1. /\ request[r].awaited /\ request[r].kind = "act"
      /\ request[r].step = "answered"
      /\ notice' = [op |-> request[r].op, status |-> request[r].answer]
      /\ request' = [request EXCEPT ![r] = q]
      /\ loading' = TRUE /\ error' = (error /\ ~LoadClearsError)
      /\ UNCHANGED <<server, sent, filter, rows, shownFor, raced, dialog>>
  BY DEF Confirm, Awaited, GoesOn, BeginLoad
<1>2. /\ PagesTypeOK /\ RequestOK(r)
  BY DEF PagesInv
<1>3. /\ request[r].filter \in Filters /\ request[r].op \in Op
      /\ request[r].answer \subseteq Status
      /\ Outcome(request[r].op, request[r].answer)
  BY <1>1, <1>2 DEF RequestOK, FilterKnown, OperationIsTrue, AnswerFits
<1>4. q.kind = "list" /\ q.awaited /\ q.filter = request[r].filter
  BY <1>3, ListRequestIs
<1>5. PICK p : p = q
  OBVIOUS
<1>6. /\ request' \in [RequestId -> Request] /\ request'[r] = p
      /\ \A s \in RequestId : s # r => request'[s] = request[s]
      /\ \A s \in RequestId : RequestOK(s)'
  <2>1. UNCHANGED <<server, sent, drafts>> /\ lost \subseteq lost'
    BY <1>1 DEF dialog
  <2>2. /\ request[r].kind \in {"act", "create"} /\ request[r].awaited
        /\ p = ListRequest(request[r].filter)
        /\ request' = [request EXCEPT ![r] = p]
    BY <1>1, <1>5
  <2> QED
    BY <2>1, <2>2, RequestsDealtWith
<1>7. p.kind = "list" /\ p.awaited /\ p.filter = request[r].filter
  BY <1>4, <1>5
<1> HIDE DEF q
<1>8. notice' \in [op : Op, status : SUBSET Status]
  BY <1>1, <1>3
<1>9. PagesTypeOK'
  BY <1>1, <1>2, <1>6, <1>8 DEF PagesTypeOK, server, dialog, LoadClearsError
<1>10. DraftsInv'
  <2>1. \A s \in RequestId :
            \/ request'[s] = request[s]
            \/ ~AwaitsForm(s) /\ request'[s].kind # "create"
    BY <1>1, <1>6, <1>7 DEF AwaitsForm
  <2>2. UNCHANGED <<made, drafts, busy, form, lost>>
    BY <1>1 DEF server, dialog
  <2> QED
    BY <2>1, <2>2, DraftsUndisturbed
<1>11. ConfirmedTookEffect'
  <2>1. notice'.op = request[r].op /\ notice'.status = request[r].answer
    BY <1>1
  <2>2. page' = page /\ performed' = performed
    BY <1>1 DEF server
  <2> QED
    BY <1>3, <2>1, <2>2 DEF ConfirmedTookEffect, Outcome, Later, After
<1>12. TableOK'
  <2>1. UnderWay({"list", "act"})'
    BY <1>6, <1>7 DEF UnderWay
  <2>2. raced \/ request[r].filter = filter
    BY <1>1 DEF PagesInv, TableOK, LoadsTable
  <2> QED
    BY <1>1, <1>6, <1>7, <2>1, <2>2 DEF PagesInv, TableOK
<1> QED
  BY <1>6, <1>9, <1>10, <1>11, <1>12 DEF PagesInv, DraftsInv

\* An operation is refused: an error says so.
LEMMA RejectedKeeps ==
    ASSUME PagesInv, NEW r \in RequestId, Rejected(r)
    PROVE  PagesInv'
<1>1. /\ request[r].awaited /\ request[r].kind = "act" /\ error' = TRUE
      /\ request' = [request EXCEPT ![r] = Unsent]
      /\ UNCHANGED <<server, sent, filter, rows, shownFor, loading, notice,
                     raced, dialog>>
  BY DEF Rejected, Awaited, Settled
<1>2. PagesTypeOK
  BY DEF PagesInv
<1>3. /\ request' \in [RequestId -> Request] /\ request'[r] = Unsent
      /\ \A s \in RequestId : s # r => request'[s] = request[s]
      /\ \A s \in RequestId : RequestOK(s)'
  <2>1. UNCHANGED <<server, sent, drafts>> /\ lost \subseteq lost'
    BY <1>1 DEF dialog
  <2> QED
    BY <1>1, <2>1, RequestsDealtWith
<1>4. PagesTypeOK'
  BY <1>1, <1>2, <1>3 DEF PagesTypeOK, server, dialog
<1>5. DraftsInv'
  <2>1. \A s \in RequestId :
            \/ request'[s] = request[s]
            \/ ~AwaitsForm(s) /\ request'[s].kind # "create"
    BY <1>1, <1>3, UnsentRequest DEF AwaitsForm
  <2>2. UNCHANGED <<made, drafts, busy, form, lost>>
    BY <1>1 DEF server, dialog
  <2> QED
    BY <2>1, <2>2, DraftsUndisturbed
<1>6. ConfirmedTookEffect'
  BY <1>1, NoticeUndisturbed
<1>7. TableOK'
  BY <1>1, <1>3, UnsentRequest DEF PagesInv, TableOK
<1> QED
  BY <1>3, <1>4, <1>5, <1>6, <1>7 DEF PagesInv, DraftsInv

\* The page hears that its draft was created: the form is emptied of it before
\* its button is enabled, even if another draft was typed meanwhile.
LEMMA CreatedKeeps ==
    ASSUME PagesInv, NEW r \in RequestId, Created(r)
    PROVE  PagesInv'
<1> DEFINE q == ListRequest(request[r].filter)
<1>1. /\ request[r].awaited /\ request[r].kind = "create"
      /\ form' = IF page = "orders" THEN Blank
                 ELSE [form EXCEPT !.draft = None, !.keyed = FALSE]
      /\ busy' = FALSE
      /\ request' = [request EXCEPT ![r] = q]
      /\ loading' = TRUE /\ error' = (error /\ ~LoadClearsError)
      /\ UNCHANGED <<server, sent, filter, rows, shownFor, notice, raced,
                     drafts, batches, lost>>
  BY DEF Created, Awaited, GoesOn, BeginLoad
<1>2. /\ PagesTypeOK /\ RequestOK(r) /\ form \in Form
  BY DEF PagesInv, PagesTypeOK
<1>3. request[r].filter \in Filters
  BY <1>1, <1>2 DEF RequestOK, FilterKnown
<1>4. q.kind = "list" /\ q.awaited /\ q.filter = request[r].filter
  BY <1>3, ListRequestIs
<1>5. PICK p : p = q
  OBVIOUS
<1>6. /\ request' \in [RequestId -> Request] /\ request'[r] = p
      /\ \A s \in RequestId : s # r => request'[s] = request[s]
      /\ \A s \in RequestId : RequestOK(s)'
  <2>1. UNCHANGED <<server, sent, drafts>> /\ lost \subseteq lost'
    BY <1>1
  <2>2. /\ request[r].kind \in {"act", "create"} /\ request[r].awaited
        /\ p = ListRequest(request[r].filter)
        /\ request' = [request EXCEPT ![r] = p]
    BY <1>1, <1>5
  <2> QED
    BY <2>1, <2>2, RequestsDealtWith
<1>7. p.kind = "list" /\ p.awaited /\ p.filter = request[r].filter
  BY <1>4, <1>5
<1> HIDE DEF q
<1>8. form' \in Form /\ form'.draft = None
  BY <1>1, <1>2 DEF Form, Blank
<1>9. PagesTypeOK'
  BY <1>1, <1>2, <1>6, <1>8 DEF PagesTypeOK, server, LoadClearsError
<1>10. DraftsInv'
  <2>1. made' = made /\ drafts' = drafts /\ lost' = lost
    BY <1>1 DEF server
  <2>2. OneForm'
    BY <1>1, <1>6, <1>7 DEF PagesInv, OneForm, AwaitsForm
  <2>3. NotCreatedYet'
    BY <1>6, <1>7, <2>1 DEF PagesInv, NotCreatedYet
  <2>4. None \notin Nat
    BY PagesAssumption
  <2>5. DraftsOK'
    BY <1>8, <2>1, <2>4 DEF PagesInv, DraftsOK
  <2>6. CreatedOncePerDraft'
    BY <2>1 DEF PagesInv, CreatedOncePerDraft
  <2> QED
    BY <2>2, <2>3, <2>5, <2>6 DEF DraftsInv
<1>11. ConfirmedTookEffect'
  BY <1>1, NoticeUndisturbed
<1>12. TableOK'
  <2>1. UnderWay({"list", "act"})'
    BY <1>6, <1>7 DEF UnderWay
  <2>2. raced \/ request[r].filter = filter
    BY <1>1 DEF PagesInv, TableOK, LoadsTable
  <2> QED
    BY <1>1, <1>6, <1>7, <2>1, <2>2 DEF PagesInv, TableOK
<1> QED
  BY <1>6, <1>9, <1>10, <1>11, <1>12 DEF PagesInv, DraftsInv

\* A form is refused: its draft stays, not created.
LEMMA NotCreatedKeeps ==
    ASSUME PagesInv, NEW r \in RequestId, NotCreated(r)
    PROVE  PagesInv'
<1>1. /\ request[r].awaited /\ request[r].kind = "create"
      /\ request[r].step = "refused"
      /\ busy' = FALSE
      /\ request' = [request EXCEPT ![r] = Unsent]
      /\ UNCHANGED <<server, sent, table, form, drafts, batches, lost>>
  BY DEF NotCreated, Awaited, Settled
<1>2. PagesTypeOK
  BY DEF PagesInv
<1>3. /\ request' \in [RequestId -> Request] /\ request'[r] = Unsent
      /\ \A s \in RequestId : s # r => request'[s] = request[s]
      /\ \A s \in RequestId : RequestOK(s)'
  <2>1. UNCHANGED <<server, sent, drafts>> /\ lost \subseteq lost'
    BY <1>1
  <2> QED
    BY <1>1, <2>1, RequestsDealtWith
<1>4. PagesTypeOK'
  BY <1>1, <1>2, <1>3 DEF PagesTypeOK, server, table
<1>5. DraftsInv'
  <2>1. made' = made /\ drafts' = drafts /\ lost' = lost /\ form' = form
    BY <1>1 DEF server
  <2>2. OneForm'
    BY <1>1, <1>3, UnsentRequest DEF PagesInv, OneForm, AwaitsForm
  <2>3. NotCreatedYet'
    BY <1>3, <2>1, UnsentRequest DEF PagesInv, NotCreatedYet
  <2>4. ASSUME NEW d, Told(d) PROVE Told(d)'
    BY <1>1, <1>3, <2>4 DEF Told, AwaitsForm
  <2>5. DraftsOK'
    BY <2>1, <2>4 DEF PagesInv, DraftsOK
  <2>6. CreatedOncePerDraft'
    BY <2>1 DEF PagesInv, CreatedOncePerDraft
  <2> QED
    BY <2>2, <2>3, <2>5, <2>6 DEF DraftsInv
<1>6. ConfirmedTookEffect'
  BY <1>1, NoticeUndisturbed DEF table
<1>7. TableOK'
  <2>1. UnderWay({"list", "act"}) => UnderWay({"list", "act"})'
    BY <1>1, <1>3 DEF UnderWay
  <2> QED
    BY <1>1, <1>3, <2>1, UnsentRequest DEF PagesInv, TableOK, table
<1> QED
  BY <1>3, <1>4, <1>5, <1>6, <1>7 DEF PagesInv, DraftsInv

\* The batches of an item arrive, in whatever order they were asked for.
LEMMA OfferBatchesKeeps ==
    ASSUME PagesInv, NEW r \in RequestId, OfferBatches(r)
    PROVE  PagesInv'
<1>1. /\ request[r].awaited /\ request[r].kind = "batches"
      /\ batches' = request[r].answer
      /\ request' = [request EXCEPT ![r] = Unsent]
      /\ UNCHANGED <<server, sent, table, form, drafts, busy, lost>>
  BY DEF OfferBatches, Awaited, Settled
<1>2. PagesTypeOK /\ RequestOK(r)
  BY DEF PagesInv
<1>3. /\ request' \in [RequestId -> Request] /\ request'[r] = Unsent
      /\ \A s \in RequestId : s # r => request'[s] = request[s]
      /\ \A s \in RequestId : RequestOK(s)'
  <2>1. UNCHANGED <<server, sent, drafts>> /\ lost \subseteq lost'
    BY <1>1
  <2> QED
    BY <1>1, <2>1, RequestsDealtWith
<1>4. PagesTypeOK'
  <2>1. batches' \subseteq Batch
    BY <1>1, <1>2 DEF RequestOK, AnswerFits
  <2> QED
    BY <1>1, <1>2, <1>3, <2>1 DEF PagesTypeOK, server, table
<1>5. DraftsInv'
  <2>1. \A s \in RequestId :
            \/ request'[s] = request[s]
            \/ ~AwaitsForm(s) /\ request'[s].kind # "create"
    BY <1>1, <1>3, UnsentRequest DEF AwaitsForm
  <2>2. UNCHANGED <<made, drafts, busy, form, lost>>
    BY <1>1 DEF server
  <2> QED
    BY <2>1, <2>2, DraftsUndisturbed
<1>6. ConfirmedTookEffect'
  BY <1>1, NoticeUndisturbed DEF table
<1>7. TableOK'
  <2>1. UnderWay({"list", "act"}) => UnderWay({"list", "act"})'
    BY <1>1, <1>3 DEF UnderWay
  <2> QED
    BY <1>1, <1>3, <2>1, UnsentRequest DEF PagesInv, TableOK, table
<1> QED
  BY <1>3, <1>4, <1>5, <1>6, <1>7 DEF PagesInv, DraftsInv

\* A connection breaks: a load or an operation leaves an error, a form that the
\* server may still see or has seen leaves its draft as lost.
LEMMA BrokenKeeps ==
    ASSUME PagesInv, NEW r \in RequestId, Broken(r)
    PROVE  PagesInv'
<1> DEFINE kind == request[r].kind
<1>1. /\ request[r].awaited
      /\ error' = (error \/ kind \in {"list", "act"})
      /\ loading' = (loading /\ kind # "list")
      /\ busy' = (busy /\ kind # "create")
      /\ batches' = IF kind = "batches" THEN {} ELSE batches
      /\ lost' = IF kind = "create" THEN lost \cup {request[r].form.draft}
                 ELSE lost
      /\ UNCHANGED <<server, sent, filter, rows, shownFor, notice, raced,
                     form, drafts>>
  BY DEF Broken, Fail, Released
<1>2. PICK q \in Request : q = request[r]
  BY DEF PagesInv, PagesTypeOK
<1>3. PICK n \in Request :
        /\ request' = [request EXCEPT ![r] = n]
        /\ \/ n = Unsent
           \/ /\ kind \in {"act", "create"} /\ q.step = "sent"
              /\ n = [q EXCEPT !.awaited = FALSE]
  <2>1. [q EXCEPT !.awaited = FALSE] \in Request
    BY DEF Request
  <2>2. request' = [request EXCEPT ![r] =
                      IF kind \in {"act", "create"} /\ q.step = "sent"
                      THEN [q EXCEPT !.awaited = FALSE]
                      ELSE Unsent]
    BY <1>2 DEF Broken
  <2> QED
    BY <2>1, <2>2, UnsentRequest
<1>4. /\ PagesTypeOK /\ RequestOK(r) /\ drafts \in Nat /\ MaxDrafts \in Nat
      /\ sent' \in Nat /\ sent <= sent' /\ drafts' \in Nat /\ drafts <= drafts'
      /\ lost \subseteq lost'
  <2>1. PagesTypeOK /\ RequestOK(r)
    BY DEF PagesInv
  <2>2. drafts \in Nat /\ sent \in Nat
    BY <2>1 DEF PagesTypeOK, RequestId
  <2>3. sent' = sent /\ drafts' = drafts /\ lost \subseteq lost'
    BY <1>1
  <2>4. MaxDrafts \in Nat
    BY PagesAssumption
  <2> QED
    BY <2>1, <2>2, <2>3, <2>4
<1>5. /\ request' \in [RequestId -> Request] /\ request'[r] = n
      /\ \A s \in RequestId : s # r => request'[s] = request[s]
  BY <1>3, <1>4 DEF PagesTypeOK
<1>6. /\ ~n.awaited
      /\ n # Unsent => /\ n.kind = request[r].kind /\ n.step = "sent"
                       /\ n.kind \in {"act", "create"}
                       /\ n.filter = request[r].filter
                       /\ n.op = request[r].op /\ n.form = request[r].form
                       /\ n.answer = request[r].answer
                       /\ request[r].step = "sent"
  BY <1>2, <1>3, UnsentRequest DEF Request
<1>7. kind = "create" => request[r].form.draft \in Draft
  <2>1. kind = "create" => request[r].form.draft \in 1 .. drafts
    BY <1>4 DEF RequestOK, FormIsKnown
  <2>2. drafts <= MaxDrafts
    BY <1>4 DEF PagesTypeOK
  <2> QED
    BY <1>4, <2>1, <2>2 DEF Draft
<1>8. page' = page /\ performed \subseteq performed' /\ status' = status
      /\ made' = made
  BY <1>1 DEF server
<1>9. \A s \in RequestId : RequestOK(s)'
  <2>1. RequestOK(r)'
    <3>1. CASE n = Unsent
      BY <1>4, <1>5, <1>8, <3>1, RequestKept
    <3>2. CASE n # Unsent
      <4>1. OnlySent(r)' /\ FilterKnown(r)' /\ AnswerFits(r)'
        BY <1>4, <1>5, <1>6, <3>2
        DEF RequestOK, OnlySent, FilterKnown, AnswerFits
      <4>2. OperationIsTrue(r)' /\ FormIsKnown(r)' /\ FollowedOrLost(r)'
        BY <1>1, <1>4, <1>5, <1>6, <3>2
        DEF RequestOK, OperationIsTrue, FormIsKnown, FollowedOrLost
      <4> QED
        BY <4>1, <4>2 DEF RequestOK
    <3> QED
      BY <3>1, <3>2
  <2>2. ASSUME NEW s \in RequestId, s # r PROVE RequestOK(s)'
    <3>1. RequestOK(s) /\ request'[s] = request[s]
      BY <1>5, <2>2 DEF PagesInv
    <3> QED
      BY <1>4, <1>8, <3>1, RequestKept
  <2> QED
    BY <2>1, <2>2
<1>10. PagesTypeOK'
  BY <1>1, <1>4, <1>5, <1>7 DEF PagesTypeOK, server
<1>11. DraftsInv'
  <2>1. CASE kind # "create"
    <3>1. \A s \in RequestId :
              \/ request'[s] = request[s]
              \/ ~AwaitsForm(s) /\ request'[s].kind # "create"
      BY <1>5, <1>6, <2>1, UnsentRequest DEF AwaitsForm
    <3>2. busy' = busy
      BY <1>1, <1>4, <2>1 DEF PagesTypeOK
    <3> QED
      BY <1>1, <1>4, <1>8, <3>1, <3>2, DraftsUndisturbed
  <2>2. CASE kind = "create"
    <3>1. lost' = lost \cup {request[r].form.draft} /\ busy' = FALSE
          /\ form' = form /\ drafts' = drafts
      BY <1>1, <2>2
    <3>2. OneForm'
      BY <1>1, <1>5, <1>6, <2>2 DEF PagesInv, OneForm, AwaitsForm
    <3>3. NotCreatedYet'
      BY <1>5, <1>6, <1>8, <2>2, <3>1, UnsentRequest DEF PagesInv, NotCreatedYet
    <3>4. ASSUME NEW d, Told(d) PROVE Told(d)' \/ d \in lost'
      <4>1. PICK s \in RequestId :
              AwaitsForm(s) /\ request[s].step = "answered"
              /\ request[s].form.draft = d
        BY <3>4 DEF Told
      <4>2. CASE s = r
        BY <3>1, <4>1, <4>2
      <4>3. CASE s # r
        BY <1>5, <4>1, <4>3 DEF Told, AwaitsForm
      <4> QED
        BY <4>2, <4>3
    <3>5. DraftsOK'
      BY <1>4, <1>8, <3>1, <3>4 DEF PagesInv, DraftsOK
    <3>6. CreatedOncePerDraft'
      BY <1>4, <1>8 DEF PagesInv, CreatedOncePerDraft
    <3> QED
      BY <3>2, <3>3, <3>5, <3>6 DEF DraftsInv
  <2> QED
    BY <2>1, <2>2
<1>12. ConfirmedTookEffect'
  BY <1>1, NoticeUndisturbed
<1>13. TableOK'
  <2>1. kind \notin {"list", "act"} =>
          (UnderWay({"list", "act"}) => UnderWay({"list", "act"})')
    BY <1>5 DEF UnderWay
  <2> QED
    BY <1>1, <1>5, <1>6, <2>1 DEF PagesInv, TableOK
<1> QED
  BY <1>9, <1>10, <1>11, <1>12, <1>13 DEF PagesInv, DraftsInv

-----------------------------------------------------------------------------
(* The theorems.                                                           *)

\* The page has been opened and loads its table.
LEMMA PagesStart == Init => PagesInv
<1> SUFFICES ASSUME Init PROVE PagesInv
  OBVIOUS
<1>1. /\ page \in Page /\ status = First[page]
      /\ performed = {} /\ made = {} /\ others = 0
      /\ request = [r \in RequestId |-> IF r = 1 THEN ListRequest("") ELSE Unsent]
      /\ sent = 1
      /\ filter = "" /\ rows = {} /\ shownFor = "" /\ raced = FALSE
      /\ loading = TRUE /\ error = FALSE /\ notice = None
      /\ form = Blank /\ drafts = 0 /\ busy = FALSE /\ batches = {} /\ lost = {}
  BY DEF Init
<1>2. "" \in Filters /\ 1 \in RequestId /\ 0 \in 0 .. MaxOthers
      /\ 0 \in 0 .. MaxDrafts
  <2>1. /\ MaxRequests \in Nat \ {0}
        /\ MaxDrafts \in Nat /\ MaxOthers \in Nat
    BY PagesAssumption
  <2>2. 1 \in RequestId
    BY <2>1 DEF RequestId
  <2>3. 0 \in 0 .. MaxOthers /\ 0 \in 0 .. MaxDrafts
    BY <2>1
  <2> QED
    BY <2>2, <2>3, PagesAssumption
<1>3. PICK q \in Request : q = ListRequest("")
  BY <1>2, ListRequestIs
<1>4. /\ q.kind = "list" /\ q.step = "sent" /\ q.filter = "" /\ q.answer = {}
      /\ q.awaited
  BY <1>2, <1>3, ListRequestIs
<1>5. /\ request \in [RequestId -> Request]
      /\ request[1] = q
      /\ \A r \in RequestId : r # 1 => request[r] = Unsent
  BY <1>1, <1>2, <1>3, UnsentRequest
<1>6. PagesTypeOK
  <2>1. status \in Status
    BY <1>1 DEF Status
  <2>2. form \in Form
    BY <1>1 DEF Blank, Form
  <2> QED
    BY <1>1, <1>2, <1>5, <2>1, <2>2 DEF PagesTypeOK
<1>7. ASSUME NEW r \in RequestId PROVE RequestOK(r)
  <2>1. CASE r = 1
    <3>1. request[r] = q
      BY <1>5, <2>1
    <3>2. sent = 1
      BY <1>1
    <3>3. r <= sent
      BY <2>1, <3>2
    <3> QED
      BY <1>2, <1>4, <3>1, <3>3
      DEF RequestOK, OnlySent, FilterKnown, AnswerFits, OperationIsTrue,
          FormIsKnown, FollowedOrLost
  <2>2. CASE r # 1
    BY <1>5, <2>2, UnsentRequest
    DEF RequestOK, OnlySent, FilterKnown, AnswerFits, OperationIsTrue,
        FormIsKnown, FollowedOrLost
  <2> QED
    BY <2>1, <2>2
<1>8. \A r \in RequestId : request[r].kind \in {"none", "list"}
  BY <1>4, <1>5, UnsentRequest
<1>9. OneForm /\ NotCreatedYet
  BY <1>8 DEF OneForm, AwaitsForm, NotCreatedYet
<1>10. DraftsOK /\ CreatedOncePerDraft
  BY <1>1 DEF DraftsOK, Blank, CreatedOncePerDraft
<1>11. ConfirmedTookEffect
  BY <1>1 DEF ConfirmedTookEffect
<1>12. TableOK
  BY <1>1, <1>4, <1>5, UnsentRequest DEF TableOK
<1> QED
  BY <1>6, <1>7, <1>9, <1>10, <1>11, <1>12 DEF PagesInv

\* Every step of the server, of the user, of other users and of the network
\* keeps the invariant.
LEMMA PagesKept == PagesInv /\ [Next]_vars => PagesInv'
<1> SUFFICES ASSUME PagesInv, [Next]_vars PROVE PagesInv'
  OBVIOUS
<1>1. ASSUME NEW r \in RequestId, Server(r) PROVE PagesInv'
  BY <1>1, ReplyListKeeps, ReplyBatchesKeeps, PerformKeeps, ReadBackKeeps,
     CreateKeeps, RefuseKeeps
  DEF Server
<1>2. ASSUME NEW r \in RequestId, Delivery(r) PROVE PagesInv'
  BY <1>2, ShowRowsKeeps, ConfirmKeeps, RejectedKeeps, CreatedKeeps,
     NotCreatedKeeps, OfferBatchesKeeps, BrokenKeeps
  DEF Delivery
<1>3. ASSUME NEW f \in Filters, ChangeFilter(f) PROVE PagesInv'
  BY <1>3, ChangeFilterKeeps
<1>4. ASSUME NEW op \in Op, Act(op) PROVE PagesInv'
  BY <1>4, ActKeeps
<1>5. ASSUME NEW keyed \in BOOLEAN, FillIn(keyed) PROVE PagesInv'
  BY <1>5, FillInKeeps
<1>6. ASSUME NEW i \in Item, ChooseItem(i) PROVE PagesInv'
  BY <1>6, ChooseItemKeeps
<1>7. ASSUME NEW b \in Batch, ChooseBatch(b) PROVE PagesInv'
  BY <1>7, ChooseBatchKeeps
<1>8. CASE ToggleNewBatch
  BY <1>8, ToggleNewBatchKeeps
<1>9. ASSUME NEW m \in Moves[page], OtherUser(m) PROVE PagesInv'
  BY <1>9, OtherUserKeeps
<1>10. CASE Refresh
  BY <1>10, RefreshKeeps
<1>11. CASE NoticeExpires
  BY <1>11, NoticeExpiresKeeps
<1>12. CASE Submit
  BY <1>12, SubmitKeeps
<1>13. CASE UNCHANGED vars
  <2>1. /\ UNCHANGED <<server, request, sent, table, dialog>>
        /\ PagesTypeOK /\ drafts \in Nat
    BY <1>13 DEF vars, PagesInv, PagesTypeOK
  <2>2. \A s \in RequestId : RequestOK(s)'
    BY <2>1, RequestsUndisturbed DEF dialog
  <2>3. PagesTypeOK'
    BY <2>1 DEF PagesTypeOK, server, table, dialog
  <2>4. DraftsInv'
    BY <2>1, DraftsUndisturbed DEF server, dialog
  <2>5. ConfirmedTookEffect'
    BY <2>1, NoticeUndisturbed DEF table
  <2>6. TableOK'
    BY <2>1 DEF PagesInv, TableOK, UnderWay, table
  <2> QED
    BY <2>2, <2>3, <2>4, <2>5, <2>6 DEF PagesInv, DraftsInv
<1> QED
  BY <1>1, <1>2, <1>3, <1>4, <1>5, <1>6, <1>7, <1>8, <1>9, <1>10, <1>11, <1>12,
     <1>13
  DEF Next

\* Whatever runs side by side and in whatever order answers arrive, or do not:
\* the invariant holds.
THEOREM PagesAreOrderly == Spec => []PagesInv
BY PagesStart, PagesKept, PTL DEF Spec

\* The page and its requests stay well formed.
THEOREM PagesTypes == Spec => []PagesTypeOK
<1>1. PagesInv => PagesTypeOK
  BY DEF PagesInv
<1> QED
  BY <1>1, PagesAreOrderly, PTL

\* busy and the reset of the form, without any key in the request, are enough:
\* a draft is created twice only if its answer never came, and a receipt with a
\* reference not even then.
THEOREM DraftsAreCreatedOnce == Spec => []CreatedOncePerDraft
<1>1. PagesInv => CreatedOncePerDraft
  BY DEF PagesInv
<1> QED
  BY <1>1, PagesAreOrderly, PTL

\* What the page confirms has taken effect, and the status it names is its
\* outcome or what was made of it since.
THEOREM ConfirmedOperationsTookEffect == Spec => []ConfirmedTookEffect
<1>1. PagesInv => ConfirmedTookEffect
  BY DEF PagesInv
<1> QED
  BY <1>1, PagesAreOrderly, PTL

\* Rows of another filter than the selected one do not stay on the screen
\* without an error, unless the filter was changed under a request.
THEOREM WrongTablesAreFlagged == Spec => []WrongTableIsFlagged
<1>1. PagesInv => WrongTableIsFlagged
  BY DEF PagesInv, TableOK, WrongTableIsFlagged, UnderWay
<1> QED
  BY <1>1, PagesAreOrderly, PTL
=============================================================================
