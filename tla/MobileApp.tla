-------------------------------- MODULE MobileApp --------------------------------
(***************************************************************************)
(* The employees' and managers' side.  Its endpoints are not in this       *)
(* repository (specs/00_CONTEXT.md F1): the actions are the writes the     *)
(* services here read back, in the states scripts/seed.py gives the rows.  *)
(***************************************************************************)
EXTENDS Store

FileRequest(r, u, c, route) ==
  /\ ~Born(requests[r])
  /\ users[u] = "active"
  /\ WriteRequests([requests EXCEPT ![r] =
       [NoRequest EXCEPT !.status = route[1], !.mgr = route[2],
                         !.requester = u, !.category = c]])
  /\ UNCHANGED <<items, tickets, extensions, users, trail>>

\* The manager's answer to a request waiting for it.
ManagerDecides(r, approved) ==
  /\ requests[r].status = "pending_mgr_approval"
  /\ WriteRequests([requests EXCEPT ![r] =
       IF approved THEN [@ EXCEPT !.status = "pending_it_approval", !.mgr = "approved"]
                   ELSE [@ EXCEPT !.status = "rejected", !.mgr = "rejected"]])
  /\ UNCHANGED <<items, tickets, extensions, users, trail>>

\* The employee ships a WFH device back; the entry carries no status values.
InitiateReturn(r) ==
  LET i == requests[r].item IN
  /\ requests[r].status = "assigned"
  /\ requests[r].is_wfh
  /\ items[i].status = "assigned"
  /\ items[i].owner = requests[r].requester
  /\ items' = [items EXCEPT ![i].status = "return_shipping_pending"]
  /\ trail' = [trail EXCEPT ![i] = AppendedEvent(@, "return_shipping_pending")]
  /\ UNCHANGED <<requests, tickets, extensions, users>>

\* The current assignee files a ticket against the device of request r; the
\* tied request is optional (support_request.request_id is nullable).
FileTicket(t, r, type, tied) ==
  /\ ~Born(tickets[t])
  /\ requests[r].status = "assigned"
  /\ items[requests[r].item].owner = requests[r].requester
  /\ tickets' = [tickets EXCEPT ![t] =
       [NoTicket EXCEPT !.status = "open", !.type = type,
                        !.item = requests[r].item,
                        !.request = IF tied THEN r ELSE None]]
  /\ UNCHANGED <<items, requests, extensions, users, trail>>

\* An extension asks for a later end of an assigned request.
FileExtension(x, r, d, mgr) ==
  /\ ~Born(extensions[x])
  /\ requests[r].status = "assigned"
  /\ d > requests[r].to
  /\ extensions' = [extensions EXCEPT ![x] =
       [status |-> "pending", request |-> r, extended_to |-> d, mgr |-> mgr]]
  /\ UNCHANGED <<items, requests, tickets, users, trail>>

ManagerDecidesExtension(x, approved) ==
  /\ extensions[x].status = "pending"
  /\ extensions[x].mgr = "pending"
  /\ extensions' = [extensions EXCEPT ![x] =
       IF approved THEN [@ EXCEPT !.mgr = "approved"]
                   ELSE [@ EXCEPT !.mgr = "rejected", !.status = "rejected"]]
  /\ UNCHANGED <<items, requests, tickets, users, trail>>

MobileAppStep ==
  \/ \E r \in Requests :
       \/ \E u \in Users, c \in Categories, route \in Routes : FileRequest(r, u, c, route)
       \/ \E approved \in BOOLEAN : ManagerDecides(r, approved)
       \/ InitiateReturn(r)
       \/ \E t \in Tickets, type \in TicketTypes, tied \in TiedChoices : FileTicket(t, r, type, tied)
       \/ \E x \in Extensions, d \in Days, mgr \in {"not_required", "pending"} :
            FileExtension(x, r, d, mgr)
  \/ \E x \in Extensions, approved \in BOOLEAN : ManagerDecidesExtension(x, approved)
=============================================================================
