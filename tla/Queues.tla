---------------------------------- MODULE Queues ----------------------------------
(***************************************************************************)
(* What IT gets to see: the work queues and pickers of the API as queries  *)
(* over the tables, and how far what they show agrees with what the        *)
(* services then do.  The order of the rows, the joined names and the      *)
(* paging of the lists are left out.                                       *)
(***************************************************************************)
EXTENDS AssetPilot

\* list_return_shipping_queue restricted to requests still assigned.
ReturnsOfAssigned ==
  {r \in Requests :
     /\ requests[r].status = "assigned"
     /\ items[requests[r].item].status = "return_shipping_pending"}

\* list_return_shipping_queue: an inner join on the device, chosen by the
\* device's status alone.
ReturnQueue ==
  {r \in Requests :
     /\ requests[r].item # None
     /\ items[requests[r].item].status = "return_shipping_pending"}

\* list_suggested_devices for a request that asks for the given range.
SuggestedDevices(r, range) ==
  {i \in Items :
     /\ items[i].status = "available"
     /\ items[i].category = requests[r].category
     /\ ~OverlapsAssigned(i, range, None)}

\* What stands between a suggestion and the assignment: the guards of assign
\* and the unique index its flush meets.
AssignAccepts(r, i, range) ==
  /\ Assignable(requests[r])
  /\ AssignableItem(items[i], requests[r])
  /\ ~OverlapsAssigned(i, range, r)
  /\ UniqueActive([requests EXCEPT ![r] = AssignedRow(@, i, range, FALSE)])

-----------------------------------------------------------------------------
\* Every device on its way back is in the return queue with a request of the
\* employee who holds it, even when that request was cancelled, or an older
\* one completed, while the device was in the mail: otherwise nobody at IT
\* would be told to receive it.
ReturnsAreListed ==
  \A i \in Items :
    items[i].status = "return_shipping_pending" =>
      \E r \in ReturnQueue :
        requests[r].item = i /\ requests[r].requester = items[i].owner
=============================================================================
