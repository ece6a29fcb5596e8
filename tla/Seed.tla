----------------------------------- MODULE Seed -----------------------------------
(***************************************************************************)
(* The database scripts/seed.py leaves behind, on which every environment  *)
(* of the API starts: a slice of it with the rows of Requests, Items,      *)
(* Tickets and Extensions, each of a shape the script writes, and closed   *)
(* under what the rows refer to.  Log entries are taken in the order they  *)
(* are written; the random timestamps are left out.                        *)
(***************************************************************************)
EXTENDS AssetPilot

CONSTANTS
  SeedKinds,     \* bound: which groups of request rows the slice has
  SeedSpares,    \* bound: the statuses of the devices nobody holds
  SeedDesk       \* bound: whether the slice has tickets and extensions

RequestKinds == {"queue", "denied", "past", "office", "mailed", "client"}

SpareStatuses == {"available", "maintenance", "lost", "retired", "under_repair"}

ASSUME SeedAssumption ==
  /\ SeedKinds \subseteq RequestKinds
  /\ SeedSpares \subseteq SpareStatuses
  /\ SeedDesk \in BOOLEAN

-----------------------------------------------------------------------------
(* Requests.                                                               *)

\* Requests without a device: the approval queues ...
QueueRoutes ==
  {<<"pending_it_approval", "approved">>, <<"pending_it_approval", "not_required">>,
   <<"pending_mgr_approval", "pending">>, <<"requested", "not_required">>}

\* ... and the ones turned down or withdrawn.
DeniedRoutes ==
  {<<"rejected", "rejected">>, <<"rejected", "approved">>, <<"cancelled", "not_required">>}

SeedRow(u, c, route) ==
  [NoRequest EXCEPT !.requester = u, !.category = c, !.status = route[1], !.mgr = route[2]]

\* How far a device has been shipped, if at all.
Legs == {"office", "sent", "received"}

\* A request that has had a device, with the shipping marks of its leg.
LoanRow(u, c, route, i, range, leg) ==
  [SeedRow(u, c, route) EXCEPT !.item = i, !.from = range[1], !.to = range[2],
                               !.is_wfh = (leg # "office"), !.ship_initiated = (leg # "office"),
                               !.ship_completed = (leg = "received")]

QueueRows == {SeedRow(u, c, route) : u \in Users, c \in Categories, route \in QueueRoutes}

DeniedRows == {SeedRow(u, c, route) : u \in Users, c \in Categories, route \in DeniedRoutes}

\* Completed, in the office or through a whole WFH cycle.
PastRows ==
  {LoanRow(u, c, <<"completed", "approved">>, i, range, leg) :
     u \in Users, c \in Categories, i \in Items \ ClientItems, range \in BookingRange,
     leg \in {"office", "received"}}

\* In use in the office; monitors need no manager.
OfficeRows ==
  {LoanRow(u, c, <<"assigned", mgr>>, i, range, "office") :
     u \in Users, c \in Categories, i \in Items \ ClientItems, range \in BookingRange,
     mgr \in {"approved", "not_required"}}

\* On its way to a WFH employee, or on its way back.
MailedRows ==
  {LoanRow(u, c, <<"assigned", "approved">>, i, range, leg) :
     u \in Users, c \in Categories, i \in Items \ ClientItems, range \in BookingRange,
     leg \in {"sent", "received"}}

\* The request direct_assign creates for a client's device.
ClientRows ==
  {LoanRow(u, c, <<"assigned", "not_required">>, i, range, "office") :
     u \in Users, c \in Categories, i \in ClientItems, range \in BookingRange}

SeedRequests ==
  {NoRequest}
    \cup (IF "queue" \in SeedKinds THEN QueueRows ELSE {})
    \cup (IF "denied" \in SeedKinds THEN DeniedRows ELSE {})
    \cup (IF "past" \in SeedKinds THEN PastRows ELSE {})
    \cup (IF "office" \in SeedKinds THEN OfficeRows ELSE {})
    \cup (IF "mailed" \in SeedKinds THEN MailedRows ELSE {})
    \cup (IF "client" \in SeedKinds THEN ClientRows ELSE {})

-----------------------------------------------------------------------------
(* Devices.                                                                *)

Lent(i) == \E r \in Requests : requests[r].status = "assigned" /\ requests[r].item = i

Borrower(i) == CHOOSE r \in Requests : requests[r].status = "assigned" /\ requests[r].item = i

\* One device is in repair while its request, a manager's, stays assigned.
LentStatuses(req) ==
  CASE req.is_wfh /\ req.ship_completed -> {"return_shipping_pending"}
    [] req.is_wfh /\ ~req.ship_completed -> {"shipping_pending"}
    [] ~req.is_wfh /\ req.mgr = "approved" -> {"assigned", "under_repair"}
    [] OTHER -> {"assigned"}

SeedItem(i) ==
  IF Lent(i)
    THEN [status : LentStatuses(requests[Borrower(i)]),
          category : {requests[Borrower(i)].category},
          owner : {requests[Borrower(i)].requester}]
    ELSE [status : SeedSpares, category : Categories, owner : {None}]

\* The entry that marks a device lost says it was assigned, which no entry
\* before it tells, and the log assigns a client's device twice over.
OddEntries(i) == items[i].status = "lost" \/ i \in ClientItems

\* The log tells every status.  Besides the odd entries, a device that came
\* back by mail completes from a status the log has left by then.
SeedTrail(i) ==
  [told |-> items[i].status,
   chained |->
     /\ ~OddEntries(i)
     /\ ~\E r \in Requests :
           /\ requests[r].item = i
           /\ requests[r].status = "completed"
           /\ requests[r].is_wfh]

-----------------------------------------------------------------------------
(* Tickets and extensions.                                                 *)

\* An assigned request whose company device is in the office, or in repair.
AtDesk(r) ==
  /\ requests[r].status = "assigned"
  /\ requests[r].item \notin ClientItems
  /\ items[requests[r].item].status \in {"assigned", "under_repair"}

InUse(r) == AtDesk(r) /\ items[requests[r].item].status = "assigned"

\* Filed against the device of an assigned request.
DeskTickets(r) ==
  LET ticket == [NoTicket EXCEPT !.item = requests[r].item, !.request = r] IN
  IF items[requests[r].item].status = "under_repair"
    THEN {[ticket EXCEPT !.type = "damage", !.status = "in_progress"]}
    ELSE {[ticket EXCEPT !.type = "damage", !.status = "open"],
          [ticket EXCEPT !.type = "update", !.status = "in_progress"],
          [ticket EXCEPT !.type = "update", !.status = "resolved",
                         !.resolution = "remote_resolved"],
          [ticket EXCEPT !.type = "damage", !.status = "resolved",
                         !.resolution = "repaired_in_place"]}

\* Resolved by a swap to the device its request has now.
SwappedTickets(r) ==
  {[NoTicket EXCEPT !.item = i, !.request = r, !.type = "damage", !.status = "resolved",
                    !.resolution = "swapped", !.swapped_to = requests[r].item] :
     i \in {j \in Items : /\ ~Lent(j)
                          /\ items[j].status = "under_repair"
                          /\ items[j].category = requests[r].category}}

\* Closed with its completed request; unlike the cascade of complete_return
\* the script gives it a resolution.
AutoClosedTickets(r) ==
  {[NoTicket EXCEPT !.item = requests[r].item, !.request = r, !.type = "update",
                    !.status = "resolved", !.resolution = "remote_resolved",
                    !.auto_closed = TRUE]}

\* A loss reported outside any request.
LossTickets ==
  {[NoTicket EXCEPT !.item = i, !.type = "lost", !.status = "resolved",
                    !.resolution = "marked_lost"] :
     i \in {j \in Items : items[j].status = "lost"}}

SeedTickets ==
  {NoTicket}
    \cup LossTickets
    \cup (UNION {DeskTickets(r) : r \in {q \in Requests : AtDesk(q)}})
    \cup (UNION {SwappedTickets(r) : r \in {q \in Requests : InUse(q)}})
    \cup (UNION {AutoClosedTickets(r) : r \in {q \in Requests : requests[q].status = "completed"}})

\* One granted and already part of the range, one waiting, one refused.
SeedExtensions ==
  {NoExtension}
    \cup {[status |-> "approved", request |-> r, extended_to |-> requests[r].to,
           mgr |-> "approved"] : r \in {q \in Requests : InUse(q)}}
    \cup {[status |-> decision[1], request |-> r, extended_to |-> d, mgr |-> decision[2]] :
            r \in {q \in Requests : InUse(q)}, d \in Days,
            decision \in {<<"pending", "not_required">>, <<"rejected", "approved">>}}

-----------------------------------------------------------------------------
\* Two of the employees are inactive, and nothing of theirs is in the slice.
SeedUsers ==
  /\ users \in [Users -> {"active", "inactive"}]
  /\ \A r \in Requests : Born(requests[r]) => users[requests[r].requester] = "active"

SeedInit ==
  /\ requests \in [Requests -> SeedRequests]
  /\ \A r1, r2 \in Requests :
       /\ r1 # r2
       /\ requests[r1].status = "assigned"
       /\ requests[r2].status = "assigned"
       => requests[r1].item # requests[r2].item
  /\ items \in [Items -> UNION {SeedItem(i) : i \in Items}]
  /\ \A i \in Items : items[i] \in SeedItem(i)
  /\ \A r \in Requests :
       requests[r].item # None => requests[r].category = items[requests[r].item].category
  /\ \A i \in ClientItems : Lent(i)
  /\ tickets \in [Tickets -> IF SeedDesk THEN SeedTickets ELSE {NoTicket}]
  /\ \A t1, t2 \in Tickets :
       t1 # t2 /\ Born(tickets[t1]) /\ Born(tickets[t2]) =>
         <<tickets[t1].item, tickets[t1].request>> # <<tickets[t2].item, tickets[t2].request>>
  /\ extensions \in [Extensions -> IF SeedDesk THEN SeedExtensions ELSE {NoExtension}]
  /\ \A x \in Extensions :
       extensions[x].status \in {"pending", "rejected"} =>
         extensions[x].extended_to > requests[extensions[x].request].to
  /\ SeedUsers
  /\ trail = [i \in Items |-> SeedTrail(i)]

\* The API on a seeded database, each HTTP request one transaction.
SeededSpec == SeedInit /\ [][Next]_tables
=============================================================================
