---------------------------- MODULE AssignmentService ----------------------------
(***************************************************************************)
(* app/services/assignment_service.py: a device is given to a request, or, *)
(* for client-owned devices, directly to an employee.                      *)
(***************************************************************************)
EXTENDS Store

\* update_booking_range: moves the confirmed range of an assigned request.
\* (The assert on assigned_item_id would roll the transaction back.)
RangeAdjustable(req) == req.status = "assigned"

RebookedRow(req, range) == [req EXCEPT !.from = range[1], !.to = range[2]]

UpdateBookingRange(r, range) ==
  /\ RangeAdjustable(requests[r])
  /\ requests[r].item # None
  /\ ~OverlapsAssigned(requests[r].item, range, r)
  /\ WriteRequests([requests EXCEPT ![r] = RebookedRow(@, range)])
  /\ UNCHANGED <<items, tickets, extensions, users, trail>>

\* assign refusing only what is already assigned.
AssignableUnlessAssigned(req) == Born(req) /\ req.status # "assigned"

\* assign matching the category only.
AssignableCategory(item, req) == Born(item) /\ item.category = req.category

\* assign: the request must be pending IT approval, the device available, of
\* the request's category and free of overlapping bookings.
Assignable(req) == req.status = "pending_it_approval"

AssignableItem(item, req) ==
  /\ item.status = "available"
  /\ item.category = req.category

AssignedRow(req, i, range, wfh) ==
  [req EXCEPT !.status = "assigned", !.item = i, !.is_wfh = wfh,
              !.from = range[1], !.to = range[2]]

OwnedRow(item, u) == [item EXCEPT !.status = "assigned", !.owner = u]

Assign(r, i, range, wfh) ==
  /\ Assignable(requests[r])
  /\ AssignableItem(items[i], requests[r])
  /\ ~OverlapsAssigned(i, range, r)
  /\ WriteRequests([requests EXCEPT ![r] = AssignedRow(@, i, range, wfh)])
  /\ items' = [items EXCEPT ![i] = OwnedRow(@, requests[r].requester)]
  /\ trail' = [trail EXCEPT ![i] = Appended(@, "available", "assigned")]
  /\ UNCHANGED <<tickets, extensions, users>>

\* direct_assign: creates a request born assigned.
DirectlyAssignable(i) == i \in ClientItems /\ items[i].status = "available"

DirectRow(u, i, range) ==
  [NoRequest EXCEPT !.status = "assigned", !.requester = u,
                    !.category = items[i].category, !.item = i,
                    !.from = range[1], !.to = range[2]]

DirectAssign(r, i, u, range) ==
  /\ ~Born(requests[r])
  /\ DirectlyAssignable(i)
  /\ ~OverlapsAssigned(i, range, None)
  /\ users[u] = "active"
  /\ WriteRequests([requests EXCEPT ![r] = DirectRow(u, i, range)])
  /\ items' = [items EXCEPT ![i] = OwnedRow(@, u)]
  /\ trail' = [trail EXCEPT ![i] = Appended(@, "available", "assigned")]
  /\ UNCHANGED <<tickets, extensions, users>>

AssignmentServiceStep ==
  \E r \in Requests, range \in BookingRange :
    \/ UpdateBookingRange(r, range)
    \/ \E i \in Items, wfh \in WfhChoices : Assign(r, i, range, wfh)
    \/ \E i \in Items, u \in Users : DirectAssign(r, i, u, range)
=============================================================================
