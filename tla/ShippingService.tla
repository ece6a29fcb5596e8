----------------------------- MODULE ShippingService -----------------------------
(***************************************************************************)
(* app/services/shipping_service.py: outbound WFH shipping, and the return *)
(* of a device, which completes its request and closes its open tickets.   *)
(***************************************************************************)
EXTENDS Store

\* schemas/shipping.py: what IT may choose at receipt.
ReturnNextStatuses == {"available", "under_repair", "retired"}

\* _get_assigned_item_or_404.
HasDevice(req) == Born(req) /\ req.item # None

\* A device status outside the enumeration.
ShippedItem(item) == [item EXCEPT !.status = "shipped"]

\* ship: the WFH flag and the device's status decide; the request's does not.
Shippable(req, item) == req.is_wfh /\ item.status = "assigned"

ShipRow(req) == [req EXCEPT !.ship_initiated = TRUE]

ShipItem(item) == [item EXCEPT !.status = "shipping_pending"]

Ship(r) ==
  LET i == requests[r].item IN
  /\ HasDevice(requests[r])
  /\ Shippable(requests[r], items[i])
  /\ WriteRequests([requests EXCEPT ![r] = ShipRow(@)])
  /\ items' = [items EXCEPT ![i] = ShipItem(@)]
  /\ trail' = [trail EXCEPT ![i] = Appended(@, "assigned", "shipping_pending")]
  /\ UNCHANGED <<tickets, extensions, users>>

\* confirm_delivery without its guard on the device's status.
DeliverableAnyway(item) == Born(item)

\* confirm_delivery: the device's status alone decides.
Deliverable(item) == item.status = "shipping_pending"

DeliveredRow(req) == [req EXCEPT !.ship_completed = TRUE]

DeliveredItem(item) == [item EXCEPT !.status = "assigned"]

ConfirmDelivery(r) ==
  LET i == requests[r].item IN
  /\ HasDevice(requests[r])
  /\ Deliverable(items[i])
  /\ WriteRequests([requests EXCEPT ![r] = DeliveredRow(@)])
  /\ items' = [items EXCEPT ![i] = DeliveredItem(@)]
  /\ trail' = [trail EXCEPT ![i] = Appended(@, "shipping_pending", "assigned")]
  /\ UNCHANGED <<tickets, extensions, users>>

\* complete_return clearing the request's device along with the owner.
DetachedRow(req) == [req EXCEPT !.status = "completed", !.item = None]

\* complete_return: the device's status alone decides, whatever the request's.
Returnable(item) == item.status \in {"assigned", "return_shipping_pending"}

CompletedRow(req) == [req EXCEPT !.status = "completed"]

ReturnedItem(item, next) == [item EXCEPT !.status = next, !.owner = None]

\* The cascade closing only the tickets nobody has started.
ClosesUnstarted(i) ==
  {t \in Tickets : tickets[t].item = i /\ tickets[t].status = "open"}

\* support_request_repository.list_open_for_item.
OpenForItem(i) ==
  {t \in Tickets : tickets[t].item = i /\ tickets[t].status \in OpenSupportStatuses}

AutoClosed(ticket) == [ticket EXCEPT !.status = "resolved", !.auto_closed = TRUE]

\* _auto_close_open_support; its log entries carry no status.
AutoCloseOpenSupport(i) ==
  tickets' = [t \in Tickets |->
                IF t \in OpenForItem(i) THEN AutoClosed(tickets[t]) ELSE tickets[t]]

CompleteReturn(r, next) ==
  LET i == requests[r].item IN
  /\ HasDevice(requests[r])
  /\ Returnable(items[i])
  /\ WriteRequests([requests EXCEPT ![r] = CompletedRow(@)])
  /\ items' = [items EXCEPT ![i] = ReturnedItem(@, next)]
  /\ trail' = [trail EXCEPT ![i] = Appended(@, items[i].status, next)]
  /\ AutoCloseOpenSupport(i)
  /\ UNCHANGED <<extensions, users>>

ShippingServiceStep ==
  \E r \in Requests :
    \/ Ship(r)
    \/ ConfirmDelivery(r)
    \/ \E next \in ReturnNextStatuses : CompleteReturn(r, next)
=============================================================================
