--------------------------- MODULE MaterialReport ----------------------------
(***************************************************************************)
(* GET /work-orders/:id while work orders are started: the order, the      *)
(* available stock and the other locations are read by statements of their *)
(* own, outside a transaction (work-orders.service.ts, detail).            *)
(***************************************************************************)
EXTENDS WorkOrdersService

VARIABLE report     \* what one reader has read, and shows at the end

reportVars == <<vars, report>>

\* id, order: the work order, and its row as the first statement read it;
\* material: its material status; sources: where a transfer could come from;
\* holding: whether it held its material when the stock was read.
NoReport == [step |-> "none", id |-> None, order |-> Absent, material |-> None,
             sources |-> {}, holding |-> FALSE]

ReadOrder(w) ==
    /\ report.step = "none"
    /\ committed[w] # Absent
    /\ report' = [report EXCEPT !.step = "order", !.id = w,
                                !.order = committed[w]]
    /\ UNCHANGED vars

ReadStock ==
    LET order == report.order
        available == AvailableAtLocation(committed, order.item, order.location)
    IN  /\ report.step = "order"
        /\ report' = [report EXCEPT
             !.step = "stock",
             !.material = MaterialStatus(order, available).materialStatus,
             !.holding = (HeldFor(report.id) > 0)]
        /\ UNCHANGED vars

\* The other locations are looked up for a shortage only.
ReadSources ==
    LET order == report.order
    IN  /\ report.step = "stock"
        /\ report' = [report EXCEPT
             !.step = "shown",
             !.sources = {l \in Location \ {order.location} :
                            /\ report.material = "SHORTAGE"
                            /\ AvailableAtLocation(committed, order.item, l) > 0}]
        /\ UNCHANGED vars

ReportInit == Init /\ report = NoReport

ReportNext ==
    \/ WorkOrdersNext /\ UNCHANGED report
    \/ \E w \in WorkOrder : ReadOrder(w)
    \/ ReadStock
    \/ ReadSources

ReportSpec == ReportInit /\ [][ReportNext]_reportVars

-----------------------------------------------------------------------------
\* "Only an ASSIGNED work order can be short ... measuring a shortage then would
\* report the work order as short of the very stock it is itself holding"
\* (work-orders.service.ts:272): no answer reports that.
ShortageIsNotItsOwnHold ==
    report.material = "SHORTAGE" => ~report.holding
=============================================================================
