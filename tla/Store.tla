---------------------------------- MODULE Store ----------------------------------
(***************************************************************************)
(* The rows of the Postgres schema that the IT-admin API reads and writes, *)
(* and the database rules every writer meets.  One variable per table; a   *)
(* row that has not been inserted yet has status "absent".  Columns that   *)
(* no guard and no property reads (names, notes, URLs, actors, timestamps  *)
(* of decisions) are left out.                                             *)
(***************************************************************************)
EXTENDS Naturals

CONSTANTS
  Items,        \* device ids
  Requests,     \* request ids
  Users,        \* employee ids
  Tickets,      \* support request ids
  Extensions,   \* extension request ids
  Categories,   \* item category ids
  ClientItems,  \* the devices whose owner_type is "client", fixed at creation
  MaxDay,       \* dates are days 0..MaxDay
  Routes,       \* bound: the ways employees file requests
  WfhChoices,   \* bound: the is_wfh flags IT sets when it assigns
  TicketTypes,  \* bound: the support types employees file
  TiedChoices,  \* bound: whether a ticket names its request
  ManualStatuses,   \* bound: what IT sets by change_status
  SwapOutStatuses,  \* bound: what IT sets for the device a swap takes out
  None          \* SQL NULL

\* How a request starts: <<status, mgr_approval_status>> as scripts/seed.py
\* gives them.
FilingRoutes ==
  {<<"requested", "not_required">>,
   <<"pending_mgr_approval", "pending">>,
   <<"pending_it_approval", "not_required">>}

SupportTypes == {"update", "damage", "lost"}

DeviceStatuses ==
  {"available", "assigned", "shipping_pending", "return_shipping_pending",
   "under_repair", "maintenance", "lost", "retired", "returned_to_client"}

\* schemas/item.py: the statuses that are not owned by a workflow.
ChangeableStatuses ==
  {"available", "under_repair", "maintenance", "lost", "retired", "returned_to_client"}

ASSUME StoreAssumption ==
  /\ ClientItems \subseteq Items
  /\ MaxDay \in Nat
  /\ Routes \subseteq FilingRoutes
  /\ WfhChoices \subseteq BOOLEAN
  /\ TicketTypes \subseteq SupportTypes
  /\ TiedChoices \subseteq BOOLEAN
  /\ ManualStatuses \subseteq ChangeableStatuses
  /\ SwapOutStatuses \subseteq DeviceStatuses
  /\ None \notin Items \cup Requests \cup Users \cup Categories \cup 0..MaxDay

VARIABLES
  items,        \* table item
  requests,     \* table request
  tickets,      \* table support_request
  extensions,   \* table extension_request
  users,        \* table user: the is_active column
  trail         \* table device_log, folded per device (see below)

tables == <<items, requests, tickets, extensions, users, trail>>

-----------------------------------------------------------------------------
(* Enumerations.                                                           *)

RequestStatuses ==
  {"requested", "pending_mgr_approval", "pending_it_approval", "assigned",
   "completed", "rejected", "cancelled"}

TerminalStatuses == {"completed", "rejected", "cancelled"}

MgrApprovalStatuses == {"not_required", "pending", "approved", "rejected"}

SupportStatuses == {"open", "in_progress", "resolved"}

OpenSupportStatuses == {"open", "in_progress"}

SupportResolutions ==
  {"remote_resolved", "repaired_in_place", "swapped", "marked_lost"}

ExtensionStatuses == {"pending", "approved", "rejected"}

Absent == "absent"

-----------------------------------------------------------------------------
(* Row types.  requires_mgr_approval is (mgr # "not_required"): every      *)
(* writer of one of the two columns writes the other to match.             *)

Days == 0..MaxDay

BookingRange == {range \in Days \X Days : range[1] < range[2]}

ItemRow ==
  [status : DeviceStatuses \cup {Absent},
   category : Categories \cup {None},
   owner : Users \cup {None}]

RequestRow ==
  [status : RequestStatuses \cup {Absent},
   requester : Users \cup {None},
   category : Categories \cup {None},
   item : Items \cup {None},
   from : Days \cup {None},
   to : Days \cup {None},
   mgr : MgrApprovalStatuses,
   is_wfh : BOOLEAN,
   ship_initiated : BOOLEAN,
   ship_completed : BOOLEAN]

TicketRow ==
  [status : SupportStatuses \cup {Absent},
   type : SupportTypes \cup {None},
   item : Items \cup {None},
   request : Requests \cup {None},
   resolution : SupportResolutions \cup {None},
   swapped_to : Items \cup {None},
   auto_closed : BOOLEAN]

ExtensionRow ==
  [status : ExtensionStatuses \cup {Absent},
   request : Requests \cup {None},
   extended_to : Days \cup {None},
   mgr : MgrApprovalStatuses]

UserStates == {Absent, "active", "inactive"}

NoItem == [status |-> Absent, category |-> None, owner |-> None]

NoRequest ==
  [status |-> Absent, requester |-> None, category |-> None, item |-> None,
   from |-> None, to |-> None, mgr |-> "not_required", is_wfh |-> FALSE,
   ship_initiated |-> FALSE, ship_completed |-> FALSE]

NoTicket ==
  [status |-> Absent, type |-> None, item |-> None, request |-> None,
   resolution |-> None, swapped_to |-> None, auto_closed |-> FALSE]

NoExtension ==
  [status |-> Absent, request |-> None, extended_to |-> None,
   mgr |-> "not_required"]

-----------------------------------------------------------------------------
(* What the device log says.  Of a device's append-only entries the trail  *)
(* keeps the fold a reader of the timeline computes: the status the log    *)
(* reports now ("untold" when the last change came without a value), and   *)
(* whether every from_value so far was the status told before it.          *)

Untold == "untold"

TrailRow == [told : DeviceStatuses \cup {Absent, Untold}, chained : BOOLEAN]

NoTrail == [told |-> Absent, chained |-> TRUE]

\* DeviceLogService.append of an entry with from_value and to_value.
Appended(log, from, to) ==
  [told |-> to, chained |-> log.chained /\ log.told \in {from, Untold}]

\* An entry whose event implies a status but carries neither value.
AppendedEvent(log, status) == [log EXCEPT !.told = status]

-----------------------------------------------------------------------------
(* Rules of the database and queries shared by the services.               *)

Born(row) == row.status # Absent

Terminal(req) == req.status \in TerminalStatuses

\* The index restricted to requests that still wait for approval.
UniqueWhilePending(reqs) ==
  \A r1, r2 \in Requests :
    /\ r1 # r2
    /\ reqs[r1].status \in {"pending_mgr_approval", "pending_it_approval"}
    /\ reqs[r1].item # None
    => <<reqs[r1].item, reqs[r1].status>> # <<reqs[r2].item, reqs[r2].status>>

\* uq_one_active_request_per_item: unique on (assigned_item_id, status) over
\* the rows in a non-terminal status; NULL item ids never collide.
UniqueActive(reqs) ==
  \A r1, r2 \in Requests :
    /\ r1 # r2
    /\ ~Terminal(reqs[r1])
    /\ reqs[r1].item # None
    => <<reqs[r1].item, reqs[r1].status>> # <<reqs[r2].item, reqs[r2].status>>

\* A flush of the request table: an IntegrityError rolls the transaction back.
WriteRequests(reqs) == UniqueActive(reqs) /\ requests' = reqs

\* RequestRepository.has_overlapping_assigned_booking.
OverlapsAssigned(i, range, excluded) ==
  \E r \in Requests \ {excluded} :
    /\ requests[r].item = i
    /\ requests[r].status = "assigned"
    /\ requests[r].from < range[2]
    /\ requests[r].to > range[1]

TablesInit ==
  /\ items = [i \in Items |-> NoItem]
  /\ requests = [r \in Requests |-> NoRequest]
  /\ tickets = [t \in Tickets |-> NoTicket]
  /\ extensions = [x \in Extensions |-> NoExtension]
  /\ users = [u \in Users |-> Absent]
  /\ trail = [i \in Items |-> NoTrail]

TypeOK ==
  /\ items \in [Items -> ItemRow]
  /\ requests \in [Requests -> RequestRow]
  /\ tickets \in [Tickets -> TicketRow]
  /\ extensions \in [Extensions -> ExtensionRow]
  /\ users \in [Users -> UserStates]
  /\ trail \in [Items -> TrailRow]
=============================================================================
