------------------------------ MODULE SupportService ------------------------------
(***************************************************************************)
(* app/services/support_service.py: IT starts and resolves the tickets     *)
(* employees file against their devices.  resolve has one branch per       *)
(* resolution; the branch and the closing of the ticket are one transaction.*)
(***************************************************************************)
EXTENDS Store

\* A ticket status outside the enumeration.
BegunRow(ticket) == [ticket EXCEPT !.status = "started"]

Startable(ticket) == ticket.status = "open"

StartedRow(ticket) == [ticket EXCEPT !.status = "in_progress"]

InRepairItem(item) == [item EXCEPT !.status = "under_repair"]

\* start: a damage ticket sends the device to repair, whatever its status.
Start(t) ==
  LET i == tickets[t].item IN
  /\ Startable(tickets[t])
  /\ tickets' = [tickets EXCEPT ![t] = StartedRow(@)]
  /\ IF tickets[t].type = "damage"
       THEN /\ items' = [items EXCEPT ![i] = InRepairItem(@)]
            /\ trail' = [trail EXCEPT ![i] = Appended(@, items[i].status, "under_repair")]
       ELSE UNCHANGED <<items, trail>>
  /\ UNCHANGED <<requests, extensions, users>>

\* resolve without its guard: a closed ticket is resolved once more.
ResolvableAgain(ticket) == Born(ticket)

\* resolve: any ticket not yet resolved, started or not.
Resolvable(ticket) == Born(ticket) /\ ticket.status # "resolved"

\* The closing that every branch ends with, and its SUPPORT_RESOLVED entry.
ResolvedRow(ticket, resolution, new) ==
  [ticket EXCEPT !.status = "resolved", !.resolution = resolution,
                 !.swapped_to = IF resolution = "swapped" THEN new ELSE @]

Close(t, resolution, new) ==
  tickets' = [tickets EXCEPT ![t] = ResolvedRow(@, resolution, new)]

ResolveRemotely(t) ==
  /\ Resolvable(tickets[t])
  /\ Close(t, "remote_resolved", None)
  /\ UNCHANGED <<items, requests, extensions, users, trail>>

\* _repair_in_place without its guard.
RepairableAnyway(item) == Born(item)

\* _repair_in_place: back to assigned; the owner column is not looked at.
Repairable(item) == item.status = "under_repair"

RepairedItem(item) == [item EXCEPT !.status = "assigned"]

RepairInPlace(t) ==
  LET i == tickets[t].item IN
  /\ Resolvable(tickets[t])
  /\ Repairable(items[i])
  /\ items' = [items EXCEPT ![i] = RepairedItem(@)]
  /\ trail' = [trail EXCEPT ![i] = Appended(@, "under_repair", "assigned")]
  /\ Close(t, "repaired_in_place", None)
  /\ UNCHANGED <<requests, extensions, users>>

\* _swap.  The schema lets old_item_next_status be any device status; that
\* leaves is the ticket's, not the request's; the two log entries carry no
\* status.
SwapTarget(newItem, oldItem) ==
  /\ newItem.category = oldItem.category
  /\ newItem.status = "available"

\* A swap that also sets the request's status.
ReopenedRow(req, new) == [req EXCEPT !.item = new, !.status = "assigned"]

RepointedRow(req, new) == [req EXCEPT !.item = new]

SwappedOutItem(item, next) == [item EXCEPT !.status = next, !.owner = None]

SwappedInItem(item, req) == [item EXCEPT !.status = "assigned", !.owner = req.requester]

Swap(t, new, next) ==
  LET old == tickets[t].item
      r == tickets[t].request IN
  /\ Resolvable(tickets[t])
  /\ new # old
  /\ r # None
  /\ SwapTarget(items[new], items[old])
  /\ WriteRequests([requests EXCEPT ![r] = RepointedRow(@, new)])
  /\ items' = [items EXCEPT ![old] = SwappedOutItem(@, next),
                            ![new] = SwappedInItem(@, requests[r])]
  /\ trail' = [trail EXCEPT ![old] = AppendedEvent(@, Untold),
                            ![new] = AppendedEvent(@, "assigned")]
  /\ Close(t, "swapped", new)
  /\ UNCHANGED <<extensions, users>>

\* _mark_lost: the device keeps its owner; the tied request is completed
\* whatever its status; other tickets of the device stay as they are.
LostItem(item) == [item EXCEPT !.status = "lost"]

LostRow(req) == [req EXCEPT !.status = "completed"]

MarkLost(t) ==
  LET i == tickets[t].item
      r == tickets[t].request IN
  /\ Resolvable(tickets[t])
  /\ r # None
  /\ items' = [items EXCEPT ![i] = LostItem(@)]
  /\ WriteRequests([requests EXCEPT ![r] = LostRow(@)])
  /\ trail' = [trail EXCEPT ![i] = Appended(@, items[i].status, "lost")]
  /\ Close(t, "marked_lost", None)
  /\ UNCHANGED <<extensions, users>>

SupportServiceStep ==
  \E t \in Tickets :
    \/ Start(t)
    \/ ResolveRemotely(t)
    \/ RepairInPlace(t)
    \/ \E new \in Items, next \in SwapOutStatuses : Swap(t, new, next)
    \/ MarkLost(t)
=============================================================================
