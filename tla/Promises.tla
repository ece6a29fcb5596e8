--------------------------------- MODULE Promises ---------------------------------
(***************************************************************************)
(* What the repository's documents and comments say of the system and the  *)
(* code does not do.  Each is checked by a run that ends in a              *)
(* counterexample; no other property of the project relies on them.        *)
(***************************************************************************)
EXTENDS Queues

\* request_service.py, lines 4-5: "a `pending_it_approval` or otherwise
\* non-terminal request has no `assigned_item_id` yet", the reason given for
\* cancel leaving the item row alone.  An assigned request is non-terminal
\* and has one: cancelling it strands the device with its owner.
CancelLeavesNoDeviceBehind ==
  [][\A r \in Requests :
       requests[r].status # "cancelled" /\ requests'[r].status = "cancelled" =>
         requests[r].item = None]_tables

\* WORKFLOWS.md, lines 76-77: "Any open support ticket auto-closes when its
\* device's request completes - a completed transaction cannot leave a
\* dangling ticket."  mark_lost completes the request without the cascade,
\* and after a swap the cascade looks at the new device only.
NoDanglingTicket ==
  \A t \in Tickets :
    /\ tickets[t].request # None
    /\ requests[tickets[t].request].status = "completed"
    => tickets[t].status \notin OpenSupportStatuses

\* WORKFLOWS.md, lines 98-99: an extension "asks to push an existing
\* assignment's assigned_to date further out".  approve copies extended_to
\* whatever the range has become since the extension was filed.
ExtensionOnlyPushesOut ==
  [][\A x \in Extensions :
       LET r == extensions[x].request IN
       extensions[x].status = "pending" /\ extensions'[x].status = "approved" =>
         requests'[r].to > requests[r].to]_tables

\* PROJECT.md, lines 105-107: "Repair-in-place and device swaps keep the
\* original request/owner intact; ownership only clears at final completion."
\* complete_return on an old request of the device clears the owner while
\* the device's present request stays assigned.
OwnershipLastsUntilCompletion ==
  \A r \in Requests :
    requests[r].status = "assigned" =>
      items[requests[r].item].owner = requests[r].requester

\* IMPLEMENTATION_PLAN.md, line 289: "`suggested-devices` returns only
\* conflict-free items".  A device made available under an assigned request
\* is suggested for other days; the unique index then refuses the assignment.
SuggestionsAreConflictFree ==
  \A r \in Requests, range \in BookingRange :
    requests[r].status = "pending_it_approval" =>
      \A i \in SuggestedDevices(r, range) : AssignAccepts(r, i, range)
=============================================================================
