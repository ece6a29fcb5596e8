------------------------------ MODULE CustodyProofs ------------------------------
(***************************************************************************)
(* What becomes of the rows around a request: extensions, tickets and the  *)
(* log of a device, for every value of the constants; and who holds the    *)
(* devices, as long as nobody files support tickets.                       *)
(***************************************************************************)
EXTENDS AssetPilotProofs, Queues

-----------------------------------------------------------------------------
(* Extensions.                                                             *)

\* What a step does to an extension.
ExtensionMoves(old, new) ==
  \/ new = old
  \/ /\ ~Born(old)
     /\ new.status = "pending"
     /\ new.request \in Requests
     /\ requests'[new.request].status = "assigned"
  \/ /\ old.status = "pending"
     /\ new.request = old.request
     /\ new.status = "approved" => new.mgr \in {"not_required", "approved"}

LEMMA NextMovesExtensions ==
  TypeOK /\ [Next]_tables => \A x \in Extensions : ExtensionMoves(extensions[x], extensions'[x])
<1> SUFFICES ASSUME TypeOK, [Next]_tables, NEW x \in Extensions
             PROVE  ExtensionMoves(extensions[x], extensions'[x])
  OBVIOUS
<1>1. extensions \in [Extensions -> ExtensionRow]
  BY DEF TypeOK
<1>2. CASE extensions' = extensions
  BY <1>2 DEF ExtensionMoves
<1>3. CASE ExtensionServiceStep
  <2>1. ASSUME NEW y \in Extensions, ApproveExtension(y)
        PROVE  ExtensionMoves(extensions[x], extensions'[x])
    BY <1>1, <2>1 DEF ApproveExtension, Approvable, ExtensionMoves, ExtensionRow
  <2>2. ASSUME NEW y \in Extensions, RejectExtension(y)
        PROVE  ExtensionMoves(extensions[x], extensions'[x])
    BY <1>1, <2>2 DEF RejectExtension, ExtensionMoves, ExtensionRow
  <2> QED BY <1>3, <2>1, <2>2 DEF ExtensionServiceStep
<1>4. CASE MobileAppStep
  <2>1. ASSUME NEW y \in Extensions, NEW r \in Requests, NEW d \in Days,
               NEW mgr \in {"not_required", "pending"}, FileExtension(y, r, d, mgr)
        PROVE  ExtensionMoves(extensions[x], extensions'[x])
    BY <1>1, <2>1 DEF FileExtension, ExtensionMoves
  <2>2. ASSUME NEW y \in Extensions, NEW approved \in BOOLEAN,
               ManagerDecidesExtension(y, approved)
        PROVE  ExtensionMoves(extensions[x], extensions'[x])
    BY <1>1, <2>2 DEF ManagerDecidesExtension, ExtensionMoves, ExtensionRow
  <2> QED BY <1>2, <1>4, <2>1, <2>2 DEF MobileAppStep, FileRequest, ManagerDecides,
                                        InitiateReturn, FileTicket
<1>5. CASE RequestServiceStep \/ AssignmentServiceStep \/ ShippingServiceStep
  BY <1>2, <1>5 DEF RequestServiceStep, RejectRequest, CancelRequest, EscalateToManager,
     AssignmentServiceStep, UpdateBookingRange, Assign, DirectAssign, ShippingServiceStep,
     Ship, ConfirmDelivery, CompleteReturn
<1>6. CASE SupportServiceStep \/ InventoryServiceStep \/ UserServiceStep
  BY <1>2, <1>6 DEF SupportServiceStep, Start, ResolveRemotely, RepairInPlace, Swap, MarkLost,
     InventoryServiceStep, CreateItem, EditItem, ChangeStatus, UserServiceStep, CreateUser,
     Deactivate, Activate
<1> QED BY <1>2, <1>3, <1>4, <1>5, <1>6 DEF Next, tables

LEMMA NextKeepsConsent ==
  TypeOK /\ ApprovedWithConsent /\ [Next]_tables => ApprovedWithConsent'
BY NextMovesExtensions DEF ApprovedWithConsent, ExtensionMoves

\* IT never approves an extension the manager was asked about and did not
\* grant, whichever of the two decides first.
THEOREM ApprovalsHaveConsent == Spec => []ApprovedWithConsent
<1>1. Init => ApprovedWithConsent
  BY DEF Init, TablesInit, NoExtension, Absent, ApprovedWithConsent
<1> QED BY <1>1, NextKeepsConsent, TypeCorrect, PTL DEF Spec

LEMMA NextKeepsDecisions ==
  TypeOK /\ [Next]_tables =>
    [\A x \in Extensions :
       extensions[x].status \in {"approved", "rejected"} => extensions'[x] = extensions[x]]_tables
BY NextMovesExtensions DEF ExtensionMoves, Born, Absent

\* A decided extension is never decided again, by IT or by the manager.
THEOREM DecisionsStand == Spec => DecidedExtensionIsFinal
<1> QED BY NextKeepsDecisions, TypeCorrect, PTL DEF Spec, DecidedExtensionIsFinal

\* The parent of a pending extension keeps leading to a device, also when it
\* is over by the time of the decision.
PendingHasDevice ==
  \A x \in Extensions :
    extensions[x].status = "pending" =>
      /\ extensions[x].request \in Requests
      /\ requests[extensions[x].request].item # None

LEMMA NextKeepsPendingDevice ==
  ClaimInvariant /\ ClaimInvariant' /\ PendingHasDevice /\ [Next]_tables => PendingHasDevice'
<1> SUFFICES ASSUME ClaimInvariant, ClaimInvariant', PendingHasDevice, [Next]_tables,
                    NEW x \in Extensions, extensions'[x].status = "pending"
             PROVE  /\ extensions'[x].request \in Requests
                    /\ requests'[extensions'[x].request].item # None
  BY DEF PendingHasDevice
<1>1. \A q \in Requests : requests[q].item # None => requests'[q].item # None
  BY NextMovesRequests, StoreAssumption DEF RequestsMove, Moves
<1>2. \A q \in Requests : requests'[q].status = "assigned" => requests'[q].item # None
  BY DEF ClaimInvariant, Terminal, TerminalStatuses
<1>3. ExtensionMoves(extensions[x], extensions'[x])
  BY NextMovesExtensions DEF ClaimInvariant
<1> QED BY <1>1, <1>2, <1>3 DEF ExtensionMoves, PendingHasDevice

LEMMA PendingDeviceIsAsserted == ClaimInvariant /\ PendingHasDevice => AssertsHold
BY DEF ClaimInvariant, Terminal, TerminalStatuses, PendingHasDevice, AssertsHold

\* No assert on assigned_item_id in the booking-range and extension handlers
\* ever fails.
THEOREM AssertsNeverFail == Spec => []AssertsHold
<1>1. Init => PendingHasDevice
  BY DEF Init, TablesInit, NoExtension, Absent, PendingHasDevice
<1> QED BY <1>1, NextKeepsPendingDevice, PendingDeviceIsAsserted, ClaimsAreKept, PTL DEF Spec

-----------------------------------------------------------------------------
(* Tickets.                                                                *)

\* What a step does to a ticket: it is filed by the owner of its device, or,
\* while still open, started or resolved on the same device.
TicketMoves(t) ==
  \/ tickets'[t] = tickets[t]
  \/ /\ ~Born(tickets[t])
     /\ items' = items
     /\ \E r \in Requests :
          /\ requests[r].status = "assigned"
          /\ tickets'[t].item = requests[r].item
          /\ items[requests[r].item].owner = requests[r].requester
  \/ Resolvable(tickets[t]) /\ tickets'[t].item = tickets[t].item

LEMMA OneTicketMoves ==
  ASSUME TypeOK, NEW s \in Tickets, Resolvable(tickets[s]), NEW row,
         tickets' = [tickets EXCEPT ![s] = row], row.item = tickets[s].item
  PROVE  \A t \in Tickets : TicketMoves(t)
<1>1. tickets \in [Tickets -> TicketRow]
  BY DEF TypeOK
<1> QED BY <1>1 DEF TicketMoves

LEMMA NextMovesTicketRows == TypeOK /\ [Next]_tables => \A t \in Tickets : TicketMoves(t)
<1> SUFFICES ASSUME TypeOK, [Next]_tables PROVE \A t \in Tickets : TicketMoves(t)
  OBVIOUS
<1>1. tickets \in [Tickets -> TicketRow]
  BY DEF TypeOK
<1>2. CASE tickets' = tickets
  BY <1>2 DEF TicketMoves
<1>3. CASE ShippingServiceStep
  <2>1. ASSUME NEW r \in Requests, NEW next \in ReturnNextStatuses, CompleteReturn(r, next),
               NEW t \in Tickets
        PROVE  TicketMoves(t)
    <3> DEFINE i == requests[r].item
    <3>1. tickets'[t] = IF t \in OpenForItem(i) THEN AutoClosed(tickets[t]) ELSE tickets[t]
      BY <2>1 DEF CompleteReturn, AutoCloseOpenSupport
    <3>2. AutoClosed(tickets[t]).item = tickets[t].item
      BY <1>1 DEF AutoClosed, TicketRow
    <3>3. t \in OpenForItem(i) => Resolvable(tickets[t])
      BY DEF OpenForItem, OpenSupportStatuses, Resolvable, Born, Absent
    <3> QED BY <3>1, <3>2, <3>3 DEF TicketMoves
  <2> QED BY <1>2, <1>3, <2>1 DEF ShippingServiceStep, Ship, ConfirmDelivery
<1>4. CASE SupportServiceStep
  <2>1. PICK s \in Tickets :
          \/ Start(s) \/ ResolveRemotely(s) \/ RepairInPlace(s) \/ MarkLost(s)
          \/ \E new \in Items, next \in SwapOutStatuses : Swap(s, new, next)
    BY <1>4 DEF SupportServiceStep
  <2>2. CASE Start(s)
    <3>1. Resolvable(tickets[s]) /\ StartedRow(tickets[s]).item = tickets[s].item
      BY <1>1, <2>2 DEF Start, Startable, Resolvable, Born, Absent, StartedRow, TicketRow
    <3>2. tickets' = [tickets EXCEPT ![s] = StartedRow(tickets[s])]
      BY <2>2 DEF Start
    <3> QED BY <3>1, <3>2, OneTicketMoves
  <2>3. CASE \/ ResolveRemotely(s) \/ RepairInPlace(s) \/ MarkLost(s)
             \/ \E new \in Items, next \in SwapOutStatuses : Swap(s, new, next)
    <3>1. Resolvable(tickets[s])
      BY <2>3 DEF ResolveRemotely, RepairInPlace, MarkLost, Swap
    <3>2. \E resolution, new : Close(s, resolution, new)
      BY <2>3 DEF ResolveRemotely, RepairInPlace, MarkLost, Swap
    <3>3. PICK resolution, new : tickets' = [tickets EXCEPT ![s] =
                                               ResolvedRow(tickets[s], resolution, new)]
      BY <3>2 DEF Close
    <3>4. ResolvedRow(tickets[s], resolution, new).item = tickets[s].item
      BY <1>1 DEF ResolvedRow, TicketRow
    <3> QED BY <3>1, <3>3, <3>4, OneTicketMoves
  <2> QED BY <2>1, <2>2, <2>3
<1>5. CASE MobileAppStep
  <2>1. ASSUME NEW s \in Tickets, NEW r \in Requests, NEW type \in TicketTypes,
               NEW tied \in TiedChoices, FileTicket(s, r, type, tied)
        PROVE  \A t \in Tickets : TicketMoves(t)
    <3> DEFINE row == [NoTicket EXCEPT !.status = "open", !.type = type,
                                       !.item = requests[r].item,
                                       !.request = IF tied THEN r ELSE None]
    <3>1. tickets' = [tickets EXCEPT ![s] = row] /\ row.item = requests[r].item
      BY <2>1 DEF FileTicket, NoTicket
    <3> HIDE DEF row
    <3> QED BY <1>1, <2>1, <3>1 DEF FileTicket, TicketMoves
  <2> QED BY <1>2, <1>5, <2>1 DEF MobileAppStep, FileRequest, ManagerDecides, InitiateReturn,
                                  FileExtension, ManagerDecidesExtension
<1>6. CASE \/ RequestServiceStep \/ AssignmentServiceStep \/ ExtensionServiceStep
           \/ InventoryServiceStep \/ UserServiceStep
  BY <1>2, <1>6 DEF RequestServiceStep, RejectRequest, CancelRequest, EscalateToManager,
     AssignmentServiceStep, UpdateBookingRange, Assign, DirectAssign, ExtensionServiceStep,
     ApproveExtension, RejectExtension, InventoryServiceStep, CreateItem, EditItem,
     ChangeStatus, UserServiceStep, CreateUser, Deactivate, Activate
<1> QED BY <1>2, <1>3, <1>4, <1>5, <1>6 DEF Next, tables

LEMMA NextKeepsResolutions ==
  TypeOK /\ [Next]_tables =>
    [\A t \in Tickets : tickets[t].status = "resolved" => tickets'[t] = tickets[t]]_tables
BY NextMovesTicketRows DEF TicketMoves, Resolvable, Born, Absent

\* The cascade of a return closes what is open and leaves earlier outcomes
\* alone, and no ticket is resolved twice.
THEOREM ResolutionsStand == Spec => ResolvedTicketIsFinal
<1> QED BY NextKeepsResolutions, TypeCorrect, PTL DEF Spec, ResolvedTicketIsFinal

\* Only the writes of complete_return and mark_lost complete a request.
Completes(r) == requests[r].status # "completed" /\ requests'[r].status = "completed"

LEMMA OneRowCompletes ==
  ASSUME TypeOK, NEW q \in Requests, NEW row, WriteRequests([requests EXCEPT ![q] = row]),
         row.status # "completed" \/ row.status = requests[q].status,
         NEW r \in Requests
  PROVE  ~Completes(r)
<1>1. requests \in [Requests -> RequestRow] /\ requests' = [requests EXCEPT ![q] = row]
  BY DEF TypeOK, WriteRequests
<1> QED BY <1>1 DEF Completes

LEMMA WhoCompletes ==
  ASSUME TypeOK, [Next]_tables, NEW r \in Requests, Completes(r)
  PROVE  \/ \E q \in Requests, next \in ReturnNextStatuses : CompleteReturn(q, next)
         \/ \E t \in Tickets : MarkLost(t)
<1>1. requests \in [Requests -> RequestRow]
  BY DEF TypeOK
<1>2. ~(requests' = requests)
  BY DEF Completes
<1>3. ASSUME NEW q \in Requests PROVE requests[q] \in RequestRow
  BY <1>1
<1>4. ~RequestServiceStep
  <2>1. ASSUME NEW q \in Requests PROVE ~RejectRequest(q)
    BY <1>3, OneRowCompletes DEF RejectRequest, RejectedRow, RequestRow
  <2>2. ASSUME NEW q \in Requests PROVE ~CancelRequest(q)
    BY <1>3, OneRowCompletes DEF CancelRequest, CancelledRow, RequestRow
  <2>3. ASSUME NEW q \in Requests PROVE ~EscalateToManager(q)
    BY <1>3, OneRowCompletes DEF EscalateToManager, EscalatedRow, RequestRow
  <2> QED BY <2>1, <2>2, <2>3 DEF RequestServiceStep
<1>5. ~AssignmentServiceStep
  <2>1. ASSUME NEW q \in Requests, NEW range \in BookingRange PROVE ~UpdateBookingRange(q, range)
    BY <1>3, OneRowCompletes DEF UpdateBookingRange, RebookedRow, RequestRow
  <2>2. ASSUME NEW q \in Requests, NEW range \in BookingRange, NEW i \in Items,
               NEW wfh \in WfhChoices
        PROVE  ~Assign(q, i, range, wfh)
    BY <1>3, OneRowCompletes DEF Assign, AssignedRow, RequestRow
  <2>3. ASSUME NEW q \in Requests, NEW range \in BookingRange, NEW i \in Items, NEW u \in Users
        PROVE  ~DirectAssign(q, i, u, range)
    BY OneRowCompletes DEF DirectAssign, DirectRow, NoRequest
  <2> QED BY <2>1, <2>2, <2>3 DEF AssignmentServiceStep
<1>6. ASSUME NEW q \in Requests PROVE ~Ship(q) /\ ~ConfirmDelivery(q)
  <2>1. ~Ship(q)
    BY <1>3, OneRowCompletes DEF Ship, ShipRow, RequestRow
  <2>2. ~ConfirmDelivery(q)
    BY <1>3, OneRowCompletes DEF ConfirmDelivery, DeliveredRow, RequestRow
  <2> QED BY <2>1, <2>2
<1>7. ASSUME NEW t \in Tickets, NEW new \in Items, NEW next \in SwapOutStatuses
      PROVE  ~Swap(t, new, next)
  <2>1. tickets[t].request # None => tickets[t].request \in Requests
    BY DEF TypeOK, TicketRow
  <2> QED BY <1>3, <2>1, OneRowCompletes DEF Swap, RepointedRow, RequestRow
<1>8. ~ExtensionServiceStep
  <2>1. ASSUME NEW x \in Extensions, ApproveExtension(x) PROVE FALSE
    <3> DEFINE q == extensions[x].request
    <3>1. q \in Requests
      BY <1>1, <1>2, <2>1 DEF ApproveExtension, WriteRequests
    <3> QED BY <1>3, <2>1, <3>1, OneRowCompletes DEF ApproveExtension, ExtendedRow, RequestRow
  <2> QED BY <1>2, <2>1 DEF ExtensionServiceStep, RejectExtension
<1>9. ~MobileAppStep
  <2>1. ASSUME NEW q \in Requests, NEW u \in Users, NEW c \in Categories, NEW route \in Routes,
               FileRequest(q, u, c, route)
        PROVE  FALSE
    <3>1. route[1] # "completed"
      BY StoreAssumption DEF FilingRoutes
    <3> QED BY <2>1, <3>1, OneRowCompletes DEF FileRequest, NoRequest
  <2>2. ASSUME NEW q \in Requests, NEW approved \in BOOLEAN, ManagerDecides(q, approved)
        PROVE  FALSE
    BY <1>3, <2>2, OneRowCompletes DEF ManagerDecides, RequestRow
  <2> QED BY <1>2, <2>1, <2>2 DEF MobileAppStep, InitiateReturn, FileTicket, FileExtension,
                                  ManagerDecidesExtension
<1> QED BY <1>2, <1>4, <1>5, <1>6, <1>7, <1>8, <1>9 DEF Next, tables, ShippingServiceStep,
           SupportServiceStep, Start, ResolveRemotely, RepairInPlace, InventoryServiceStep,
           CreateItem, EditItem, ChangeStatus, UserServiceStep, CreateUser, Deactivate, Activate

LEMMA NextClosesTickets ==
  TypeOK /\ [Next]_tables =>
    [\A r \in Requests :
       LET i == requests[r].item IN
       /\ i # None
       /\ requests[r].status # "completed"
       /\ requests'[r].status = "completed"
       /\ items'[i].status # items[i].status
       /\ items'[i].status \in ReturnNextStatuses
       => \A t \in Tickets :
            tickets'[t].item = i => tickets'[t].status \notin OpenSupportStatuses]_tables
<1> SUFFICES ASSUME TypeOK, [Next]_tables, NEW r \in Requests, Completes(r),
                    requests[r].item # None,
                    items'[requests[r].item].status # items[requests[r].item].status,
                    items'[requests[r].item].status \in ReturnNextStatuses,
                    NEW t \in Tickets, tickets'[t].item = requests[r].item
             PROVE  tickets'[t].status \notin OpenSupportStatuses
  BY DEF Completes
<1> DEFINE i == requests[r].item
<1>1. /\ tickets \in [Tickets -> TicketRow]
      /\ requests \in [Requests -> RequestRow]
      /\ items \in [Items -> ItemRow]
      /\ i \in Items
  BY DEF TypeOK, RequestRow
<1>2. ASSUME NEW q \in Requests, NEW next \in ReturnNextStatuses, CompleteReturn(q, next)
      PROVE  tickets'[t].status \notin OpenSupportStatuses
  <2>1. q = r
    BY <1>1, <1>2 DEF CompleteReturn, WriteRequests, Completes
  <2>2. tickets' = [s \in Tickets |->
                      IF s \in OpenForItem(i) THEN AutoClosed(tickets[s]) ELSE tickets[s]]
    BY <1>2, <2>1 DEF CompleteReturn, AutoCloseOpenSupport
  <2>3. CASE t \in OpenForItem(i)
    BY <1>1, <2>2, <2>3 DEF AutoClosed, TicketRow, OpenSupportStatuses
  <2>4. CASE t \notin OpenForItem(i)
    BY <1>1, <2>2, <2>4 DEF OpenForItem
  <2> QED BY <2>3, <2>4
<1>3. ASSUME NEW s \in Tickets, MarkLost(s)
      PROVE  FALSE
  <2>1. items' = [items EXCEPT ![tickets[s].item] = LostItem(items[tickets[s].item])]
    BY <1>3 DEF MarkLost
  <2>2. items'[i].status = "lost"
    BY <1>1, <2>1 DEF LostItem, ItemRow
  <2> QED BY <2>2 DEF ReturnNextStatuses
<1> QED BY <1>2, <1>3, WhoCompletes

\* A request whose device comes back is completed by complete_return, and
\* the cascade of that transaction has closed the tickets of the device.
THEOREM ReturnsCloseTickets == Spec => ReturnLeavesNoOpenTicket
BY NextClosesTickets, TypeCorrect, PTL DEF Spec, ReturnLeavesNoOpenTicket

-----------------------------------------------------------------------------
(* The device log.                                                         *)

\* What a step does to a device's status is what it tells the log.
LogMoves(i) ==
  \/ items'[i].status = items[i].status /\ trail'[i] = trail[i]
  \/ trail'[i] = Appended(trail[i], items[i].status, items'[i].status)
  \/ trail'[i] = AppendedEvent(trail[i], items'[i].status)
  \/ trail'[i] = AppendedEvent(trail[i], Untold) /\ Tickets # {}

\* The shape of the steps that change one device and its log.
LEMMA OneDeviceLogs ==
  ASSUME TypeOK, NEW i, NEW row, NEW log,
         items' = [items EXCEPT ![i] = row], trail' = [trail EXCEPT ![i] = log],
         i \in Items =>
           \/ log = Appended(trail[i], items[i].status, row.status)
           \/ log = AppendedEvent(trail[i], row.status)
  PROVE  \A j \in Items : LogMoves(j)
<1> SUFFICES ASSUME NEW j \in Items PROVE LogMoves(j)
  OBVIOUS
<1>1. items \in [Items -> ItemRow] /\ trail \in [Items -> TrailRow]
  BY DEF TypeOK
<1>2. CASE j = i
  BY <1>1, <1>2 DEF LogMoves
<1>3. CASE j # i
  BY <1>1, <1>3 DEF LogMoves
<1> QED BY <1>2, <1>3

LEMMA AssignmentLogs ==
  TypeOK /\ AssignmentServiceStep => \A j \in Items : LogMoves(j)
<1> SUFFICES ASSUME TypeOK, NEW r \in Requests, NEW range \in BookingRange,
                    \/ UpdateBookingRange(r, range)
                    \/ \E i \in Items, wfh \in WfhChoices : Assign(r, i, range, wfh)
                    \/ \E i \in Items, u \in Users : DirectAssign(r, i, u, range)
             PROVE  \A j \in Items : LogMoves(j)
  BY DEF AssignmentServiceStep
<1>1. CASE UpdateBookingRange(r, range)
  BY <1>1 DEF UpdateBookingRange, LogMoves
<1>2. ASSUME NEW i \in Items, NEW u, items[i] \in ItemRow, items[i].status = "available",
             items' = [items EXCEPT ![i] = OwnedRow(@, u)],
             trail' = [trail EXCEPT ![i] = Appended(@, "available", "assigned")]
      PROVE  \A j \in Items : LogMoves(j)
  <2>1. OwnedRow(items[i], u).status = "assigned"
    BY <1>2 DEF OwnedRow, ItemRow
  <2>2. /\ items' = [items EXCEPT ![i] = OwnedRow(items[i], u)]
        /\ trail' = [trail EXCEPT ![i] = Appended(trail[i], "available", "assigned")]
        /\ items[i].status = "available"
    BY <1>2
  <2> QED BY <2>1, <2>2, OneDeviceLogs
<1>3. items \in [Items -> ItemRow]
  BY DEF TypeOK
<1>4. ASSUME NEW i \in Items, NEW wfh \in WfhChoices, Assign(r, i, range, wfh)
      PROVE  \A j \in Items : LogMoves(j)
  BY <1>2, <1>3, <1>4 DEF Assign, AssignableItem
<1>5. ASSUME NEW i \in Items, NEW u \in Users, DirectAssign(r, i, u, range)
      PROVE  \A j \in Items : LogMoves(j)
  BY <1>2, <1>3, <1>5 DEF DirectAssign, DirectlyAssignable
<1> QED BY <1>1, <1>4, <1>5

LEMMA ShippingLogs ==
  TypeOK /\ ShippingServiceStep => \A j \in Items : LogMoves(j)
<1> SUFFICES ASSUME TypeOK, NEW r \in Requests,
                    \/ Ship(r)
                    \/ ConfirmDelivery(r)
                    \/ \E next \in ReturnNextStatuses : CompleteReturn(r, next)
             PROVE  \A j \in Items : LogMoves(j)
  BY DEF ShippingServiceStep
<1> DEFINE i == requests[r].item
<1>0. i \in Items => items[i] \in ItemRow
  BY DEF TypeOK
<1>1. CASE Ship(r)
  <2>1. i \in Items => ShipItem(items[i]).status = "shipping_pending"
    BY <1>0 DEF ShipItem, ItemRow
  <2>2. /\ items' = [items EXCEPT ![i] = ShipItem(items[i])]
        /\ trail' = [trail EXCEPT ![i] = Appended(trail[i], "assigned", "shipping_pending")]
        /\ items[i].status = "assigned"
    BY <1>1 DEF Ship, Shippable
  <2> QED BY <2>1, <2>2, OneDeviceLogs
<1>2. CASE ConfirmDelivery(r)
  <2>1. i \in Items => DeliveredItem(items[i]).status = "assigned"
    BY <1>0 DEF DeliveredItem, ItemRow
  <2>2. /\ items' = [items EXCEPT ![i] = DeliveredItem(items[i])]
        /\ trail' = [trail EXCEPT ![i] = Appended(trail[i], "shipping_pending", "assigned")]
        /\ items[i].status = "shipping_pending"
    BY <1>2 DEF ConfirmDelivery, Deliverable
  <2> QED BY <2>1, <2>2, OneDeviceLogs
<1>3. ASSUME NEW next \in ReturnNextStatuses, CompleteReturn(r, next)
      PROVE  \A j \in Items : LogMoves(j)
  <2>1. i \in Items => ReturnedItem(items[i], next).status = next
    BY <1>0 DEF ReturnedItem, ItemRow
  <2>2. /\ items' = [items EXCEPT ![i] = ReturnedItem(items[i], next)]
        /\ trail' = [trail EXCEPT ![i] = Appended(trail[i], items[i].status, next)]
    BY <1>3 DEF CompleteReturn
  <2> QED BY <2>1, <2>2, OneDeviceLogs
<1> QED BY <1>1, <1>2, <1>3

\* A swap tells the log of two devices, and only of the one it brings in.
LEMMA SupportLogs ==
  TypeOK /\ SupportServiceStep => \A j \in Items : LogMoves(j)
<1> SUFFICES ASSUME TypeOK, NEW t \in Tickets,
                    \/ Start(t)
                    \/ ResolveRemotely(t)
                    \/ RepairInPlace(t)
                    \/ \E new \in Items, next \in SwapOutStatuses : Swap(t, new, next)
                    \/ MarkLost(t)
             PROVE  \A j \in Items : LogMoves(j)
  BY DEF SupportServiceStep
<1> DEFINE i == tickets[t].item
<1>0. i \in Items => items[i] \in ItemRow
  BY DEF TypeOK
<1>1. CASE items' = items /\ trail' = trail
  BY <1>1 DEF LogMoves
<1>2. CASE Start(t) /\ tickets[t].type = "damage"
  <2>1. i \in Items => InRepairItem(items[i]).status = "under_repair"
    BY <1>0 DEF InRepairItem, ItemRow
  <2>2. /\ items' = [items EXCEPT ![i] = InRepairItem(items[i])]
        /\ trail' = [trail EXCEPT ![i] = Appended(trail[i], items[i].status, "under_repair")]
    BY <1>2 DEF Start
  <2> QED BY <2>1, <2>2, OneDeviceLogs
<1>3. CASE RepairInPlace(t)
  <2>1. i \in Items => RepairedItem(items[i]).status = "assigned"
    BY <1>0 DEF RepairedItem, ItemRow
  <2>2. /\ items' = [items EXCEPT ![i] = RepairedItem(items[i])]
        /\ trail' = [trail EXCEPT ![i] = Appended(trail[i], "under_repair", "assigned")]
        /\ items[i].status = "under_repair"
    BY <1>3 DEF RepairInPlace, Repairable
  <2> QED BY <2>1, <2>2, OneDeviceLogs
<1>4. CASE MarkLost(t)
  <2>1. i \in Items => LostItem(items[i]).status = "lost"
    BY <1>0 DEF LostItem, ItemRow
  <2>2. /\ items' = [items EXCEPT ![i] = LostItem(items[i])]
        /\ trail' = [trail EXCEPT ![i] = Appended(trail[i], items[i].status, "lost")]
    BY <1>4 DEF MarkLost
  <2> QED BY <2>1, <2>2, OneDeviceLogs
<1>5. ASSUME NEW new \in Items, NEW next \in SwapOutStatuses, Swap(t, new, next),
             NEW j \in Items
      PROVE  LogMoves(j)
  <2> DEFINE in == SwappedInItem(items[new], requests[tickets[t].request])
             out == SwappedOutItem(items[i], next)
  <2>1. items \in [Items -> ItemRow] /\ trail \in [Items -> TrailRow]
    BY DEF TypeOK
  <2>2. /\ items' = [items EXCEPT ![i] = out, ![new] = in]
        /\ trail' = [trail EXCEPT ![i] = AppendedEvent(trail[i], Untold),
                                  ![new] = AppendedEvent(trail[new], "assigned")]
        /\ new # i
    BY <1>5 DEF Swap
  <2>3. in.status = "assigned"
    BY <2>1 DEF SwappedInItem, ItemRow
  <2>4. CASE j = new
    BY <2>1, <2>2, <2>3, <2>4 DEF LogMoves
  <2>5. CASE j = i
    BY <2>1, <2>2, <2>5 DEF LogMoves
  <2>6. CASE j # new /\ j # i
    BY <2>1, <2>2, <2>6 DEF LogMoves
  <2> QED BY <2>4, <2>5, <2>6
<1> QED BY <1>1, <1>2, <1>3, <1>4, <1>5 DEF Start, ResolveRemotely

LEMMA InventoryLogs ==
  TypeOK /\ InventoryServiceStep => \A j \in Items : LogMoves(j)
<1> SUFFICES ASSUME TypeOK, NEW i \in Items,
                    \/ \E c \in Categories : CreateItem(i, c) \/ EditItem(i, c)
                    \/ \E status \in ManualStatuses : ChangeStatus(i, status)
             PROVE  \A j \in Items : LogMoves(j)
  BY DEF InventoryServiceStep
<1>0. items \in [Items -> ItemRow]
  BY DEF TypeOK
<1>1. ASSUME NEW c \in Categories, CreateItem(i, c)
      PROVE  \A j \in Items : LogMoves(j)
  <2>1. NewItem(c).status = "available"
    BY DEF NewItem
  <2>2. /\ items' = [items EXCEPT ![i] = NewItem(c)]
        /\ trail' = [trail EXCEPT ![i] = AppendedEvent(trail[i], "available")]
    BY <1>1 DEF CreateItem
  <2> QED BY <2>1, <2>2, OneDeviceLogs
<1>2. ASSUME NEW c \in Categories, EditItem(i, c), NEW j \in Items
      PROVE  LogMoves(j)
  <2>1. items'[j].status = items[j].status /\ trail' = trail
    BY <1>0, <1>2 DEF EditItem, ItemRow
  <2> QED BY <2>1 DEF LogMoves
<1>3. ASSUME NEW status \in ManualStatuses, ChangeStatus(i, status)
      PROVE  \A j \in Items : LogMoves(j)
  <2>1. ChangedItem(items[i], status).status = status
    BY <1>0 DEF ChangedItem, ItemRow
  <2>2. /\ items' = [items EXCEPT ![i] = ChangedItem(items[i], status)]
        /\ trail' = [trail EXCEPT ![i] = Appended(trail[i], items[i].status, status)]
    BY <1>3 DEF ChangeStatus
  <2> QED BY <2>1, <2>2, OneDeviceLogs
<1> QED BY <1>1, <1>2, <1>3

LEMMA InitiateReturnLogs ==
  ASSUME TypeOK, NEW r \in Requests, InitiateReturn(r)
  PROVE  \A j \in Items : LogMoves(j)
<1> DEFINE i == requests[r].item
           row == [items[i] EXCEPT !.status = "return_shipping_pending"]
<1>1. i \in Items => row.status = "return_shipping_pending"
  BY DEF TypeOK, ItemRow
<1>2. /\ items' = [items EXCEPT ![i] = row]
      /\ trail' = [trail EXCEPT ![i] = AppendedEvent(trail[i], "return_shipping_pending")]
  BY DEF InitiateReturn
<1> QED BY <1>1, <1>2, OneDeviceLogs

LEMMA NextLogs == TypeOK /\ [Next]_tables => \A j \in Items : LogMoves(j)
<1> SUFFICES ASSUME TypeOK, [Next]_tables PROVE \A j \in Items : LogMoves(j)
  OBVIOUS
<1>1. CASE items' = items /\ trail' = trail
  BY <1>1 DEF LogMoves
<1>2. RequestServiceStep \/ ExtensionServiceStep \/ UserServiceStep =>
        items' = items /\ trail' = trail
  BY DEF RequestServiceStep, RejectRequest, CancelRequest, EscalateToManager,
     ExtensionServiceStep, ApproveExtension, RejectExtension, UserServiceStep, CreateUser,
     Deactivate, Activate
<1>3. MobileAppStep =>
        \/ items' = items /\ trail' = trail
        \/ \E r \in Requests : InitiateReturn(r)
  BY DEF MobileAppStep, FileRequest, ManagerDecides, FileTicket, FileExtension,
     ManagerDecidesExtension
<1> QED BY <1>1, <1>2, <1>3, AssignmentLogs, ShippingLogs, SupportLogs, InventoryLogs,
           InitiateReturnLogs DEF Next, tables

\* A truthful log stays truthful when it is told the change of status.
LEMMA EntryIsTruthful ==
  ASSUME NEW log \in TrailRow, log.chained, NEW from, NEW to, log.told \in {from, Untold}
  PROVE  Appended(log, from, to).told = to /\ Appended(log, from, to).chained
BY Zenon DEF Appended

LEMMA EventKeepsChain ==
  ASSUME NEW log \in TrailRow, log.chained, NEW status
  PROVE  AppendedEvent(log, status).told = status /\ AppendedEvent(log, status).chained
<1>1. AppendedEvent(log, status).told = status
  BY DEF AppendedEvent, TrailRow
<1>2. AppendedEvent(log, status).chained = log.chained
  BY DEF AppendedEvent, TrailRow
<1> QED BY <1>1, <1>2, Zenon

LEMMA EmptyLog == NoTrail.told = Absent /\ NoTrail.chained
BY Zenon DEF NoTrail

\* The timeline never reports a status the device does not have, and every
\* from_value, constant or not, is the status reported before it.
THEOREM LogIsTruthful == Spec => []LogNeverLies
<1>1. Init => LogNeverLies
  <2> SUFFICES ASSUME Init, NEW j \in Items
               PROVE  trail[j].told \in {items[j].status, Untold} /\ trail[j].chained
    BY DEF LogNeverLies
  <2>1. items[j].status = Absent /\ trail[j] = NoTrail
    BY DEF Init, TablesInit, NoItem
  <2> QED BY <2>1, EmptyLog
<1>2. TypeOK /\ LogNeverLies /\ [Next]_tables => LogNeverLies'
  <2> SUFFICES ASSUME TypeOK, LogNeverLies, [Next]_tables, NEW j \in Items
               PROVE  trail'[j].told \in {items'[j].status, Untold} /\ trail'[j].chained
    BY DEF LogNeverLies
  <2>1. trail[j].told \in {items[j].status, Untold} /\ trail[j].chained /\ trail[j] \in TrailRow
    BY DEF LogNeverLies, TypeOK
  <2>2. LogMoves(j)
    BY NextLogs
  <2>3. CASE items'[j].status = items[j].status /\ trail'[j] = trail[j]
    BY <2>1, <2>3
  <2>4. CASE trail'[j] = Appended(trail[j], items[j].status, items'[j].status)
    BY <2>1, <2>4, EntryIsTruthful
  <2>5. CASE trail'[j] = AppendedEvent(trail[j], items'[j].status)
    BY <2>1, <2>5, EventKeepsChain
  <2>6. CASE trail'[j] = AppendedEvent(trail[j], Untold) /\ Tickets # {}
    BY <2>1, <2>6, EventKeepsChain
  <2> QED BY <2>2, <2>3, <2>4, <2>5, <2>6 DEF LogMoves
<1> QED BY <1>1, <1>2, TypeCorrect, PTL DEF Spec

\* As long as no device is swapped it reports every status.
THEOREM LogIsComplete ==
  ASSUME Tickets = {}
  PROVE  Spec => []LogTellsEveryStatus
<1>1. Init => LogTellsEveryStatus
  <2> SUFFICES ASSUME Init, NEW j \in Items
               PROVE  trail[j].told = items[j].status /\ trail[j].chained
    BY DEF LogTellsEveryStatus
  <2>1. items[j].status = Absent /\ trail[j] = NoTrail
    BY DEF Init, TablesInit, NoItem
  <2> QED BY <2>1, EmptyLog
<1>2. TypeOK /\ LogTellsEveryStatus /\ [Next]_tables => LogTellsEveryStatus'
  <2> SUFFICES ASSUME TypeOK, LogTellsEveryStatus, [Next]_tables, NEW j \in Items
               PROVE  trail'[j].told = items'[j].status /\ trail'[j].chained
    BY DEF LogTellsEveryStatus
  <2>1. trail[j].told = items[j].status /\ trail[j].chained /\ trail[j] \in TrailRow
    BY DEF LogTellsEveryStatus, TypeOK
  <2>2. LogMoves(j)
    BY NextLogs
  <2>3. CASE items'[j].status = items[j].status /\ trail'[j] = trail[j]
    BY <2>1, <2>3
  <2>4. CASE trail'[j] = Appended(trail[j], items[j].status, items'[j].status)
    BY <2>1, <2>4, EntryIsTruthful
  <2>5. CASE trail'[j] = AppendedEvent(trail[j], items'[j].status)
    BY <2>1, <2>5, EventKeepsChain
  <2>6. CASE trail'[j] = AppendedEvent(trail[j], Untold) /\ Tickets # {}
    BY <2>1, <2>6, EventKeepsChain
  <2> QED BY <2>2, <2>3, <2>4, <2>5, <2>6 DEF LogMoves
<1> QED BY <1>1, <1>2, TypeCorrect, PTL DEF Spec

-----------------------------------------------------------------------------
(* Who holds the devices, as long as nobody files tickets.                 *)

\* A device changes hands only to the requester of a request assigned to it.
OwnerMoves(i) ==
  \/ items'[i].owner \in {items[i].owner, None}
  \/ \E r \in Requests :
       /\ requests'[r].status = "assigned"
       /\ requests'[r].item = i
       /\ items'[i].owner = requests'[r].requester

\* It enters a workflow status together with an owner and keeps him there.
HeldMoves(i) ==
  items'[i].status \in HeldStatuses =>
    \/ items[i].status \in HeldStatuses /\ items'[i].owner = items[i].owner
    \/ items'[i].owner \in Users

\* A request that becomes assigned hands its device over.
GrantMoves(r) ==
  requests'[r].status = "assigned" =>
    \/ /\ requests[r].status = "assigned"
       /\ requests'[r].item = requests[r].item
       /\ requests'[r].requester = requests[r].requester
    \/ items'[requests'[r].item].owner = requests'[r].requester

\* A device is sent back by the requester of a request that leads to it.
ReturnMoves(i) ==
  items'[i].status = "return_shipping_pending" =>
    \/ items[i].status = "return_shipping_pending" /\ items'[i].owner = items[i].owner
    \/ \E r \in Requests : requests'[r].item = i /\ requests'[r].requester = items'[i].owner

\* A request goes on leading to the device it was given.
KeepsDevice(r) ==
  requests[r].item # None =>
    /\ requests'[r].item = requests[r].item
    /\ requests'[r].requester = requests[r].requester

DeviceMoves(i) == OwnerMoves(i) /\ HeldMoves(i) /\ ReturnMoves(i)

ClaimMoves(r) == GrantMoves(r) /\ KeepsDevice(r)

CustodyMoves ==
  /\ \A i \in Items : DeviceMoves(i)
  /\ \A r \in Requests : ClaimMoves(r)

RequesterKnown ==
  \A r \in Requests : Born(requests[r]) => requests[r].requester \in Users

LEMMA OneGrant ==
  ASSUME NEW r \in Requests, NEW row, requests' = [requests EXCEPT ![r] = row], TypeOK,
         row.status = "assigned" =>
           \/ /\ requests[r].status = "assigned"
              /\ row.item = requests[r].item
              /\ row.requester = requests[r].requester
           \/ items'[row.item].owner = row.requester,
         requests[r].item # None =>
           row.item = requests[r].item /\ row.requester = requests[r].requester
  PROVE  \A q \in Requests : ClaimMoves(q)
<1> SUFFICES ASSUME NEW q \in Requests PROVE ClaimMoves(q)
  OBVIOUS
<1>1. requests \in [Requests -> RequestRow]
  BY DEF TypeOK
<1>2. CASE q = r
  BY <1>1, <1>2 DEF ClaimMoves, GrantMoves, KeepsDevice
<1>3. CASE q # r
  BY <1>1, <1>3 DEF ClaimMoves, GrantMoves, KeepsDevice
<1> QED BY <1>2, <1>3

LEMMA NoDeviceMoves ==
  items' = items => \A i \in Items : DeviceMoves(i)
BY DEF DeviceMoves, OwnerMoves, HeldMoves, ReturnMoves

\* A device that stays with its owner, or is given back.
LEMMA OneDeviceMoves ==
  ASSUME TypeOK, NEW i, NEW row, items' = [items EXCEPT ![i] = row],
         i \in Items => /\ row.owner \in {items[i].owner, None}
                        /\ row.status \in HeldStatuses =>
                             items[i].status \in HeldStatuses /\ row.owner = items[i].owner
                        /\ row.status = "return_shipping_pending" =>
                             /\ items[i].status = "return_shipping_pending"
                             /\ row.owner = items[i].owner
  PROVE  \A j \in Items : DeviceMoves(j)
<1> SUFFICES ASSUME NEW j \in Items PROVE DeviceMoves(j)
  OBVIOUS
<1>1. items \in [Items -> ItemRow]
  BY DEF TypeOK
<1>2. CASE j = i
  BY <1>1, <1>2 DEF DeviceMoves, OwnerMoves, HeldMoves, ReturnMoves
<1>3. CASE j # i
  BY <1>1, <1>3 DEF DeviceMoves, OwnerMoves, HeldMoves, ReturnMoves
<1> QED BY <1>2, <1>3

\* A device handed over with the row of the request it is assigned to.
LEMMA HandOver ==
  ASSUME TypeOK, NEW r \in Requests, NEW i \in Items, NEW row, NEW u \in Users,
         requests' = [requests EXCEPT ![r] = row],
         items' = [items EXCEPT ![i] = OwnedRow(items[i], u)],
         row.status = "assigned", row.item = i, row.requester = u, requests[r].item = None
  PROVE  CustodyMoves
<1>1. items \in [Items -> ItemRow] /\ requests \in [Requests -> RequestRow]
  BY DEF TypeOK
<1>2. OwnedRow(items[i], u).owner = u /\ OwnedRow(items[i], u).status = "assigned"
  BY <1>1 DEF OwnedRow, ItemRow
<1>3. items'[i].owner = u /\ items'[i].status = "assigned" /\ requests'[r] = row
  BY <1>1, <1>2
<1>4. ASSUME NEW j \in Items PROVE DeviceMoves(j)
  <2>1. CASE j = i
    BY <1>3, <2>1 DEF DeviceMoves, OwnerMoves, HeldMoves, ReturnMoves
  <2>2. CASE j # i
    BY <1>1, <2>2 DEF DeviceMoves, OwnerMoves, HeldMoves, ReturnMoves
  <2> QED BY <2>1, <2>2
<1>5. \A q \in Requests : ClaimMoves(q)
  BY <1>3, OneGrant
<1> QED BY <1>4, <1>5 DEF CustodyMoves

LEMMA RequestServiceCustody == TypeOK /\ RequestServiceStep => CustodyMoves
<1> SUFFICES ASSUME TypeOK, NEW r \in Requests,
                    RejectRequest(r) \/ CancelRequest(r) \/ EscalateToManager(r)
             PROVE  CustodyMoves
  BY DEF RequestServiceStep
<1>1. requests[r] \in RequestRow
  BY DEF TypeOK
<1>2. PICK row \in RequestRow :
        /\ requests' = [requests EXCEPT ![r] = row]
        /\ row.status # "assigned"
        /\ row.item = requests[r].item
        /\ row.requester = requests[r].requester
  <2>1. CASE RejectRequest(r)
    BY <1>1, <2>1, RequestRowUpdates DEF RejectRequest, WriteRequests, RejectedRow, RequestRow
  <2>2. CASE CancelRequest(r)
    BY <1>1, <2>2, RequestRowUpdates DEF CancelRequest, WriteRequests, CancelledRow, RequestRow
  <2>3. CASE EscalateToManager(r)
    BY <1>1, <2>3, RequestRowUpdates DEF EscalateToManager, WriteRequests, EscalatedRow, RequestRow
  <2> QED BY <2>1, <2>2, <2>3
<1>3. items' = items
  BY DEF RejectRequest, CancelRequest, EscalateToManager
<1> QED BY <1>2, <1>3, NoDeviceMoves, OneGrant DEF CustodyMoves

LEMMA AssignmentServiceCustody ==
  ClaimInvariant /\ RequesterKnown /\ AssignmentServiceStep => CustodyMoves
<1> SUFFICES ASSUME ClaimInvariant, RequesterKnown, NEW r \in Requests, NEW range \in BookingRange,
                    \/ UpdateBookingRange(r, range)
                    \/ \E i \in Items, wfh \in WfhChoices : Assign(r, i, range, wfh)
                    \/ \E i \in Items, u \in Users : DirectAssign(r, i, u, range)
             PROVE  CustodyMoves
  BY DEF AssignmentServiceStep
<1> TypeOK
  BY DEF ClaimInvariant
<1>0. requests[r] \in RequestRow
  BY DEF TypeOK
<1>1. CASE UpdateBookingRange(r, range)
  <2> DEFINE row == RebookedRow(requests[r], range)
  <2>1. /\ requests' = [requests EXCEPT ![r] = row]
        /\ items' = items
        /\ requests[r].status = "assigned"
    BY <1>1 DEF UpdateBookingRange, RangeAdjustable, WriteRequests
  <2>2. row.item = requests[r].item /\ row.requester = requests[r].requester
    BY <1>0 DEF RebookedRow, RequestRow
  <2> QED BY <2>1, <2>2, NoDeviceMoves, OneGrant DEF CustodyMoves
<1>2. ASSUME NEW i \in Items, NEW wfh \in WfhChoices, Assign(r, i, range, wfh)
      PROVE  CustodyMoves
  <2> DEFINE row == AssignedRow(requests[r], i, range, wfh)
             u == requests[r].requester
  <2>1. /\ requests' = [requests EXCEPT ![r] = row]
        /\ items' = [items EXCEPT ![i] = OwnedRow(items[i], u)]
    BY <1>2 DEF Assign, WriteRequests
  <2>2. row.status = "assigned" /\ row.item = i /\ row.requester = u
    BY <1>0 DEF AssignedRow, RequestRow
  <2>3. u \in Users
    BY <1>2 DEF Assign, Assignable, RequesterKnown, Born, Absent
  <2>4. requests[r].item = None
    BY <1>2 DEF Assign, Assignable, ClaimInvariant, Terminal, TerminalStatuses
  <2> QED BY <2>1, <2>2, <2>3, <2>4, HandOver
<1>3. ASSUME NEW i \in Items, NEW u \in Users, DirectAssign(r, i, u, range)
      PROVE  CustodyMoves
  <2> DEFINE row == DirectRow(u, i, range)
  <2>1. /\ requests' = [requests EXCEPT ![r] = row]
        /\ items' = [items EXCEPT ![i] = OwnedRow(items[i], u)]
    BY <1>3 DEF DirectAssign, WriteRequests
  <2>2. row.status = "assigned" /\ row.item = i /\ row.requester = u
    BY DEF DirectRow, NoRequest
  <2>3. requests[r].item = None
    BY <1>3 DEF DirectAssign, Born, Absent, ClaimInvariant, Terminal, TerminalStatuses
  <2> QED BY <2>1, <2>2, <2>3, HandOver
<1> QED BY <1>1, <1>2, <1>3

LEMMA ShippingServiceCustody == TypeOK /\ ShippingServiceStep => CustodyMoves
<1> SUFFICES ASSUME TypeOK, NEW r \in Requests,
                    \/ Ship(r)
                    \/ ConfirmDelivery(r)
                    \/ \E next \in ReturnNextStatuses : CompleteReturn(r, next)
             PROVE  CustodyMoves
  BY DEF ShippingServiceStep
<1> DEFINE i == requests[r].item
<1>1. requests[r] \in RequestRow /\ (i \in Items => items[i] \in ItemRow)
  BY DEF TypeOK
<1>2. CASE Ship(r)
  <2>1. /\ requests' = [requests EXCEPT ![r] = ShipRow(requests[r])]
        /\ items' = [items EXCEPT ![i] = ShipItem(items[i])]
        /\ items[i].status = "assigned"
    BY <1>2 DEF Ship, Shippable, WriteRequests
  <2>2. /\ ShipRow(requests[r]).status = requests[r].status
        /\ ShipRow(requests[r]).item = requests[r].item
        /\ ShipRow(requests[r]).requester = requests[r].requester
    BY <1>1 DEF ShipRow, RequestRow
  <2>3. i \in Items => /\ ShipItem(items[i]).owner = items[i].owner
                       /\ ShipItem(items[i]).status = "shipping_pending"
    BY <1>1 DEF ShipItem, ItemRow
  <2>4. \A q \in Requests : ClaimMoves(q)
    BY <2>1, <2>2, OneGrant
  <2>5. \A j \in Items : DeviceMoves(j)
    BY <2>1, <2>3, OneDeviceMoves DEF HeldStatuses
  <2> QED BY <2>4, <2>5 DEF CustodyMoves
<1>3. CASE ConfirmDelivery(r)
  <2>1. /\ requests' = [requests EXCEPT ![r] = DeliveredRow(requests[r])]
        /\ items' = [items EXCEPT ![i] = DeliveredItem(items[i])]
        /\ items[i].status = "shipping_pending"
    BY <1>3 DEF ConfirmDelivery, Deliverable, WriteRequests
  <2>2. /\ DeliveredRow(requests[r]).status = requests[r].status
        /\ DeliveredRow(requests[r]).item = requests[r].item
        /\ DeliveredRow(requests[r]).requester = requests[r].requester
    BY <1>1 DEF DeliveredRow, RequestRow
  <2>3. i \in Items => /\ DeliveredItem(items[i]).owner = items[i].owner
                       /\ DeliveredItem(items[i]).status = "assigned"
    BY <1>1 DEF DeliveredItem, ItemRow
  <2>4. \A q \in Requests : ClaimMoves(q)
    BY <2>1, <2>2, OneGrant
  <2>5. \A j \in Items : DeviceMoves(j)
    BY <2>1, <2>3, OneDeviceMoves DEF HeldStatuses
  <2> QED BY <2>4, <2>5 DEF CustodyMoves
<1>4. ASSUME NEW next \in ReturnNextStatuses, CompleteReturn(r, next)
      PROVE  CustodyMoves
  <2>1. /\ requests' = [requests EXCEPT ![r] = CompletedRow(requests[r])]
        /\ items' = [items EXCEPT ![i] = ReturnedItem(items[i], next)]
    BY <1>4 DEF CompleteReturn, WriteRequests
  <2>2. /\ CompletedRow(requests[r]).status = "completed"
        /\ CompletedRow(requests[r]).item = requests[r].item
        /\ CompletedRow(requests[r]).requester = requests[r].requester
    BY <1>1 DEF CompletedRow, RequestRow
  <2>3. i \in Items => /\ ReturnedItem(items[i], next).owner = None
                       /\ ReturnedItem(items[i], next).status = next
    BY <1>1 DEF ReturnedItem, ItemRow
  <2>4. \A q \in Requests : ClaimMoves(q)
    BY <2>1, <2>2, OneGrant
  <2>5. next \notin HeldStatuses /\ next # "return_shipping_pending"
    BY DEF ReturnNextStatuses, HeldStatuses
  <2>6. \A j \in Items : DeviceMoves(j)
    BY <2>1, <2>3, <2>5, OneDeviceMoves
  <2> QED BY <2>4, <2>6 DEF CustodyMoves
<1> QED BY <1>2, <1>3, <1>4

LEMMA ExtensionServiceCustody == TypeOK /\ ExtensionServiceStep => CustodyMoves
<1> SUFFICES ASSUME TypeOK, NEW x \in Extensions, ApproveExtension(x) \/ RejectExtension(x)
             PROVE  CustodyMoves
  BY DEF ExtensionServiceStep
<1>1. requests \in [Requests -> RequestRow] /\ items' = items
  BY DEF TypeOK, ApproveExtension, RejectExtension
<1>2. \A q \in Requests : /\ requests'[q].status = requests[q].status
                          /\ requests'[q].item = requests[q].item
                          /\ requests'[q].requester = requests[q].requester
  BY <1>1 DEF ApproveExtension, RejectExtension, WriteRequests, ExtendedRow, RequestRow
<1> QED BY <1>1, <1>2, NoDeviceMoves DEF CustodyMoves, ClaimMoves, GrantMoves, KeepsDevice

LEMMA InventoryServiceCustody == TypeOK /\ InventoryServiceStep => CustodyMoves
<1> SUFFICES ASSUME TypeOK, NEW i \in Items,
                    \/ \E c \in Categories : CreateItem(i, c) \/ EditItem(i, c)
                    \/ \E status \in ManualStatuses : ChangeStatus(i, status)
             PROVE  CustodyMoves
  BY DEF InventoryServiceStep
<1>0. items[i] \in ItemRow
  BY DEF TypeOK
<1>1. \A q \in Requests : ClaimMoves(q)
  BY DEF CreateItem, EditItem, ChangeStatus, ClaimMoves, GrantMoves,
         KeepsDevice
<1>2. ASSUME NEW c \in Categories, CreateItem(i, c)
      PROVE  CustodyMoves
  <2>1. /\ NewItem(c).status \notin HeldStatuses \cup {"return_shipping_pending"}
        /\ NewItem(c).owner = None
    BY DEF NewItem, HeldStatuses
  <2>2. items' = [items EXCEPT ![i] = NewItem(c)]
    BY <1>2 DEF CreateItem
  <2>3. \A j \in Items : DeviceMoves(j)
    BY <2>1, <2>2, OneDeviceMoves
  <2> QED BY <1>1, <2>3 DEF CustodyMoves
<1>3. ASSUME NEW c \in Categories, EditItem(i, c)
      PROVE  CustodyMoves
  <2> DEFINE row == [items[i] EXCEPT !.category = c]
  <2>1. row.status = items[i].status /\ row.owner = items[i].owner
    BY <1>0 DEF ItemRow
  <2>2. items' = [items EXCEPT ![i] = row]
    BY <1>3 DEF EditItem
  <2>3. \A j \in Items : DeviceMoves(j)
    BY <2>1, <2>2, OneDeviceMoves
  <2> QED BY <1>1, <2>3 DEF CustodyMoves
<1>4. ASSUME NEW status \in ManualStatuses, ChangeStatus(i, status)
      PROVE  CustodyMoves
  <2> DEFINE row == ChangedItem(items[i], status)
  <2>1. row.status = status /\ row.owner = items[i].owner
    BY <1>0 DEF ChangedItem, ItemRow
  <2>2. items' = [items EXCEPT ![i] = row]
    BY <1>4 DEF ChangeStatus
  <2>3. status \notin HeldStatuses \cup {"return_shipping_pending"}
    BY StoreAssumption DEF ChangeableStatuses, HeldStatuses
  <2>4. \A j \in Items : DeviceMoves(j)
    BY <2>1, <2>2, <2>3, OneDeviceMoves
  <2> QED BY <1>1, <2>4 DEF CustodyMoves
<1> QED BY <1>2, <1>3, <1>4

LEMMA MobileAppCustody == ClaimInvariant /\ MobileAppStep => CustodyMoves
<1> SUFFICES ASSUME ClaimInvariant, MobileAppStep PROVE CustodyMoves
  OBVIOUS
<1> TypeOK
  BY DEF ClaimInvariant
<1>1. ASSUME NEW r \in Requests, NEW u \in Users, NEW c \in Categories,
             NEW route \in Routes, FileRequest(r, u, c, route)
      PROVE  CustodyMoves
  <2> DEFINE row == [NoRequest EXCEPT !.status = route[1], !.mgr = route[2],
                                      !.requester = u, !.category = c]
  <2>1. requests' = [requests EXCEPT ![r] = row] /\ items' = items
    BY <1>1 DEF FileRequest, WriteRequests
  <2>2. row.status # "assigned"
    <3>1. route[1] # "assigned"
      BY StoreAssumption DEF FilingRoutes
    <3> QED BY <3>1 DEF NoRequest
  <2>3. requests[r].item = None
    BY <1>1 DEF FileRequest, Born, Absent, ClaimInvariant, Terminal, TerminalStatuses
  <2> HIDE DEF row
  <2> QED BY <2>1, <2>2, <2>3, NoDeviceMoves, OneGrant DEF CustodyMoves
<1>2. ASSUME NEW r \in Requests, NEW approved \in BOOLEAN, ManagerDecides(r, approved)
      PROVE  CustodyMoves
  <2> DEFINE row == IF approved
                      THEN [requests[r] EXCEPT !.status = "pending_it_approval", !.mgr = "approved"]
                      ELSE [requests[r] EXCEPT !.status = "rejected", !.mgr = "rejected"]
  <2>1. requests' = [requests EXCEPT ![r] = row] /\ items' = items
    BY <1>2 DEF ManagerDecides, WriteRequests
  <2>2. /\ row.status # "assigned"
        /\ row.item = requests[r].item
        /\ row.requester = requests[r].requester
    BY DEF TypeOK, RequestRow
  <2> HIDE DEF row
  <2> QED BY <2>1, <2>2, NoDeviceMoves, OneGrant DEF CustodyMoves
<1>3. ASSUME NEW r \in Requests, InitiateReturn(r)
      PROVE  CustodyMoves
  <2> DEFINE i == requests[r].item
             row == [items[i] EXCEPT !.status = "return_shipping_pending"]
  <2>1. /\ items' = [items EXCEPT ![i] = row]
        /\ items[i].status = "assigned"
        /\ items[i].owner = requests[r].requester
        /\ requests' = requests
    BY <1>3 DEF InitiateReturn
  <2>2. /\ items \in [Items -> ItemRow]
        /\ i \in Items => row.owner = items[i].owner
    BY DEF TypeOK, ItemRow
  <2>3. ASSUME NEW j \in Items PROVE DeviceMoves(j)
    <3>1. CASE j = i
      BY <2>1, <2>2, <3>1 DEF DeviceMoves, OwnerMoves, HeldMoves, ReturnMoves, HeldStatuses
    <3>2. CASE j # i
      BY <2>1, <2>2, <3>2 DEF DeviceMoves, OwnerMoves, HeldMoves, ReturnMoves
    <3> QED BY <3>1, <3>2
  <2> QED BY <2>1, <2>3 DEF CustodyMoves, ClaimMoves, GrantMoves, KeepsDevice
<1>4. ASSUME items' = items, requests' = requests PROVE CustodyMoves
  BY <1>4, NoDeviceMoves DEF CustodyMoves, ClaimMoves, GrantMoves, KeepsDevice
<1> QED BY <1>1, <1>2, <1>3, <1>4 DEF MobileAppStep, FileTicket, FileExtension,
                                      ManagerDecidesExtension

LEMMA NextCustodyOrSupport ==
  ASSUME ClaimInvariant, RequesterKnown, [Next]_tables
  PROVE  CustodyMoves \/ SupportServiceStep
<1> TypeOK
  BY DEF ClaimInvariant
<1>1. CASE items' = items /\ requests' = requests
  BY <1>1, NoDeviceMoves DEF CustodyMoves, ClaimMoves, GrantMoves, KeepsDevice
<1>2. UserServiceStep => items' = items /\ requests' = requests
  BY DEF UserServiceStep, CreateUser, Deactivate, Activate
<1> QED BY <1>1, <1>2, RequestServiceCustody, AssignmentServiceCustody,
           ShippingServiceCustody, ExtensionServiceCustody, InventoryServiceCustody,
           MobileAppCustody DEF Next, tables

LEMMA NextCustody ==
  ASSUME Tickets = {}, ClaimInvariant, RequesterKnown, [Next]_tables
  PROVE  CustodyMoves
BY NextCustodyOrSupport DEF SupportServiceStep

LEMMA NextKeepsRequester == ClaimInvariant /\ RequesterKnown /\ [Next]_tables => RequesterKnown'
BY NextMovesRequests DEF RequestsMove, Moves, RequesterKnown, Born

LEMMA RequestersAreKnown == Spec => []RequesterKnown
<1>1. Init => RequesterKnown
  BY DEF Init, TablesInit, NoRequest, Born, RequesterKnown
<1> QED BY <1>1, NextKeepsRequester, ClaimsAreKept, PTL DEF Spec

LEMMA NextKeepsOwner ==
  ASSUME Tickets = {}, ClaimInvariant, ClaimInvariant', RequesterKnown, NobodyElseHoldsIt,
         [Next]_tables
  PROVE  NobodyElseHoldsIt'
<1> SUFFICES ASSUME NEW r \in Requests, requests'[r].status = "assigned"
             PROVE  items'[requests'[r].item].owner \in {requests'[r].requester, None}
  BY DEF NobodyElseHoldsIt
<1> DEFINE i == requests'[r].item
<1>1. i \in Items
  BY DEF ClaimInvariant, TypeOK, RequestRow, Terminal, TerminalStatuses
<1>2. CustodyMoves
  BY NextCustody
<1>3. CASE items'[i].owner = requests'[r].requester
  BY <1>3
<1>4. CASE /\ requests[r].status = "assigned"
           /\ requests'[r].item = requests[r].item
           /\ requests'[r].requester = requests[r].requester
  <2>1. items[i].owner \in {requests'[r].requester, None}
    BY <1>4 DEF NobodyElseHoldsIt
  <2>2. ASSUME NEW q \in Requests, requests'[q].status = "assigned", requests'[q].item = i
        PROVE  q = r
    BY <1>1, <2>2, StoreAssumption DEF ClaimInvariant, UniqueActive, Terminal, TerminalStatuses
  <2> QED BY <1>1, <1>2, <2>1, <2>2 DEF CustodyMoves, DeviceMoves, OwnerMoves
<1> QED BY <1>2, <1>3, <1>4 DEF CustodyMoves, ClaimMoves, GrantMoves, KeepsDevice

\* Without tickets, nobody but its requester owns an assigned request's
\* device, though change_status may have made it available under him.
THEOREM NobodyElseHolds ==
  ASSUME Tickets = {}
  PROVE  Spec => []NobodyElseHoldsIt
<1>1. Init => NobodyElseHoldsIt
  BY DEF Init, TablesInit, NoRequest, Absent, NobodyElseHoldsIt
<1>2. /\ ClaimInvariant /\ ClaimInvariant' /\ RequesterKnown /\ NobodyElseHoldsIt
      /\ [Next]_tables
      => NobodyElseHoldsIt'
  BY NextKeepsOwner
<1> QED BY <1>1, <1>2, ClaimsAreKept, RequestersAreKnown, PTL DEF Spec

LEMMA NextKeepsHeldOwned ==
  ASSUME Tickets = {}, ClaimInvariant, RequesterKnown, HeldDeviceHasOwner, [Next]_tables
  PROVE  HeldDeviceHasOwner'
BY NextCustody, StoreAssumption
   DEF CustodyMoves, DeviceMoves, HeldMoves, HeldStatuses, HeldDeviceHasOwner

\* Without tickets, a device in a workflow status always has an owner,
\* whatever was shipped, returned or set by hand before.
THEOREM HeldDevicesHaveOwners ==
  ASSUME Tickets = {}
  PROVE  Spec => []HeldDeviceHasOwner
<1>1. Init => HeldDeviceHasOwner
  BY DEF Init, TablesInit, NoItem, Absent, HeldStatuses, HeldDeviceHasOwner
<1>2. ClaimInvariant /\ RequesterKnown /\ HeldDeviceHasOwner /\ [Next]_tables
        => HeldDeviceHasOwner'
  BY NextKeepsHeldOwned
<1> QED BY <1>1, <1>2, ClaimsAreKept, RequestersAreKnown, PTL DEF Spec

LEMMA NextKeepsInactiveEmpty ==
  ASSUME Tickets = {}, ClaimInvariant, RequesterKnown, InactiveHasNoOpenRequest',
         InactiveHoldsNothing, [Next]_tables
  PROVE  InactiveHoldsNothing'
<1> SUFFICES ASSUME NEW u \in Users, NEW i \in Items, users'[u] = "inactive",
                    items'[i].owner = u
             PROVE  FALSE
  BY DEF InactiveHoldsNothing
<1>1. OwnerMoves(i)
  BY NextCustody DEF CustodyMoves, DeviceMoves
<1>2. ~\E r \in Requests :
         requests'[r].status = "assigned" /\ items'[i].owner = requests'[r].requester
  BY DEF InactiveHasNoOpenRequest, Terminal, TerminalStatuses
<1>3. items[i].owner = u
  BY <1>1, <1>2, StoreAssumption DEF OwnerMoves
<1>4. users \in [Users -> UserStates]
  BY DEF ClaimInvariant, TypeOK
<1> QED BY <1>3, <1>4, NextMovesUsers
        DEF UsersMove, HasActiveDevicesOrRequests, InactiveHoldsNothing

\* Without tickets, an employee who was deactivated owns no device at any
\* later time: devices go to requesters of open requests only.
THEOREM InactiveHoldNothing ==
  ASSUME Tickets = {}
  PROVE  Spec => []InactiveHoldsNothing
<1>1. Init => InactiveHoldsNothing
  BY DEF Init, TablesInit, Absent, InactiveHoldsNothing
<1>2. /\ ClaimInvariant /\ RequesterKnown /\ InactiveHasNoOpenRequest'
      /\ InactiveHoldsNothing /\ [Next]_tables
      => InactiveHoldsNothing'
  BY NextKeepsInactiveEmpty
<1> QED BY <1>1, <1>2, ClaimsAreKept, RequestersAreKnown, InactiveHaveNoOpenRequests, PTL DEF Spec

LEMMA NextKeepsReturnsListed ==
  ASSUME Tickets = {}, ClaimInvariant, RequesterKnown, ReturnsAreListed, [Next]_tables
  PROVE  ReturnsAreListed'
<1> SUFFICES ASSUME NEW i \in Items, items'[i].status = "return_shipping_pending"
             PROVE  \E r \in Requests :
                      requests'[r].item = i /\ requests'[r].requester = items'[i].owner
  BY StoreAssumption DEF ReturnsAreListed, ReturnQueue
<1>1. ReturnMoves(i) /\ \A r \in Requests : KeepsDevice(r)
  BY NextCustody DEF CustodyMoves, DeviceMoves, ClaimMoves
<1>2. CASE items[i].status = "return_shipping_pending" /\ items'[i].owner = items[i].owner
  <2>1. PICK r \in Requests : requests[r].item = i /\ requests[r].requester = items[i].owner
    BY <1>2 DEF ReturnsAreListed, ReturnQueue
  <2> QED BY <1>1, <1>2, <2>1, StoreAssumption DEF KeepsDevice
<1> QED BY <1>1, <1>2 DEF ReturnMoves

\* Without tickets, every device on its way back is in the returns queue with
\* a request of the employee who holds it, whatever became of that request.
THEOREM ReturnsStayListed ==
  ASSUME Tickets = {}
  PROVE  Spec => []ReturnsAreListed
<1>1. Init => ReturnsAreListed
  BY DEF Init, TablesInit, NoItem, Absent, ReturnsAreListed
<1>2. ClaimInvariant /\ RequesterKnown /\ ReturnsAreListed /\ [Next]_tables => ReturnsAreListed'
  BY NextKeepsReturnsListed
<1> QED BY <1>1, <1>2, ClaimsAreKept, RequestersAreKnown, PTL DEF Spec

-----------------------------------------------------------------------------
(* Who holds the devices once tickets are filed.                           *)

\* A resolution that is no swap leaves owners and requests alone, and puts a
\* device to work again only by repairing it.
SupportKeeps ==
  /\ \A i \in Items :
       /\ items'[i].owner = items[i].owner
       /\ Born(items[i]) => Born(items'[i])
       /\ items'[i].status \in HeldStatuses =>
            \/ items[i].status \in HeldStatuses
            \/ \E t \in Tickets :
                 /\ Resolvable(tickets[t])
                 /\ tickets[t].item = i
                 /\ ResolvesAs(t, "repaired_in_place")
                 /\ Repairable(items[i])
  /\ \A r \in Requests :
       /\ requests'[r].item = requests[r].item
       /\ requests'[r].requester = requests[r].requester
       /\ requests'[r].status \in {requests[r].status, "completed"}

\* A swap through ticket t leads its request from wherever it was to a new
\* device, and takes the ticket's device from whoever has it.
SwapsIn(t, new) ==
  LET r == tickets[t].request
      old == tickets[t].item IN
  /\ ResolvesAs(t, "swapped")
  /\ tickets'[t].swapped_to = new
  /\ tickets'[t].item = old
  /\ new # old
  /\ r \in Requests
  /\ requests'[r].item = new
  /\ requests'[r].requester = requests[r].requester
  /\ requests'[r].status = requests[r].status
  /\ \A q \in Requests \ {r} : requests'[q] = requests[q]
  /\ items'[new].owner = requests[r].requester
  /\ items'[new].status = "assigned"
  /\ old \in Items => items'[old].owner = None
  /\ \A i \in Items \ {old, new} : items'[i] = items[i]

LEMMA CloseResolves ==
  ASSUME TypeOK, NEW t \in Tickets, Resolvable(tickets[t]), NEW resolution, NEW new,
         Close(t, resolution, new)
  PROVE  /\ ResolvesAs(t, resolution)
         /\ tickets'[t].item = tickets[t].item
         /\ resolution = "swapped" => tickets'[t].swapped_to = new
<1>1. tickets \in [Tickets -> TicketRow]
  BY DEF TypeOK
<1> QED BY <1>1 DEF Close, ResolvedRow, ResolvesAs, Resolvable, TicketRow

LEMMA SwapIsSwapsIn ==
  ASSUME TypeOK, NEW t \in Tickets, NEW new \in Items, NEW next \in SwapOutStatuses,
         Swap(t, new, next)
  PROVE  SwapsIn(t, new)
<1> DEFINE r == tickets[t].request
           old == tickets[t].item
           in == SwappedInItem(items[new], requests[r])
           out == SwappedOutItem(items[old], next)
<1>1. /\ items \in [Items -> ItemRow]
      /\ requests \in [Requests -> RequestRow]
      /\ r \in Requests
  BY DEF TypeOK, TicketRow, Swap
<1>2. /\ Resolvable(tickets[t])
      /\ new # old
      /\ requests' = [requests EXCEPT ![r] = RepointedRow(requests[r], new)]
      /\ items' = [items EXCEPT ![old] = out, ![new] = in]
      /\ Close(t, "swapped", new)
  BY DEF Swap, WriteRequests
<1>3. ResolvesAs(t, "swapped") /\ tickets'[t].swapped_to = new /\ tickets'[t].item = old
  BY <1>2, CloseResolves
<1>4. /\ requests'[r] = RepointedRow(requests[r], new)
      /\ \A q \in Requests \ {r} : requests'[q] = requests[q]
  BY <1>1, <1>2
<1>5. /\ RepointedRow(requests[r], new).item = new
      /\ RepointedRow(requests[r], new).requester = requests[r].requester
      /\ RepointedRow(requests[r], new).status = requests[r].status
  BY <1>1 DEF RepointedRow, RequestRow
<1>6. /\ items'[new] = in
      /\ old \in Items => items'[old] = out
      /\ \A i \in Items \ {old, new} : items'[i] = items[i]
  BY <1>1, <1>2
<1>7. in.owner = requests[r].requester /\ in.status = "assigned"
  BY <1>1 DEF SwappedInItem, ItemRow
<1>8. old \in Items => out.owner = None
  BY <1>1 DEF SwappedOutItem, ItemRow
<1> QED BY <1>1, <1>2, <1>3, <1>4, <1>5, <1>6, <1>7, <1>8 DEF SwapsIn

LEMMA SupportMoves ==
  ASSUME TypeOK, SupportServiceStep
  PROVE  SupportKeeps \/ \E t \in Tickets, new \in Items : SwapsIn(t, new)
<1>1. PICK t \in Tickets :
        \/ Start(t) \/ ResolveRemotely(t) \/ RepairInPlace(t) \/ MarkLost(t)
        \/ \E new \in Items, next \in SwapOutStatuses : Swap(t, new, next)
  BY DEF SupportServiceStep
<1> DEFINE i == tickets[t].item
           r == tickets[t].request
<1>2. items \in [Items -> ItemRow] /\ requests \in [Requests -> RequestRow]
  BY DEF TypeOK
<1>3. CASE items' = items /\ requests' = requests
  BY <1>3 DEF SupportKeeps
<1>4. CASE Start(t) /\ items' # items
  <2>1. items' = [items EXCEPT ![i] = InRepairItem(items[i])] /\ requests' = requests
    BY <1>4 DEF Start
  <2>2. i \in Items => /\ InRepairItem(items[i]).status = "under_repair"
                       /\ InRepairItem(items[i]).owner = items[i].owner
    BY <1>2 DEF InRepairItem, ItemRow
  <2> QED BY <1>2, <2>1, <2>2 DEF SupportKeeps, HeldStatuses, Born, Absent
<1>5. CASE RepairInPlace(t)
  <2>1. /\ items' = [items EXCEPT ![i] = RepairedItem(items[i])]
        /\ requests' = requests
        /\ Resolvable(tickets[t])
        /\ Repairable(items[i])
        /\ Close(t, "repaired_in_place", None)
    BY <1>5 DEF RepairInPlace
  <2>2. ResolvesAs(t, "repaired_in_place")
    BY <2>1, CloseResolves
  <2>3. i \in Items => /\ RepairedItem(items[i]).owner = items[i].owner
                       /\ RepairedItem(items[i]).status = "assigned"
    BY <1>2 DEF RepairedItem, ItemRow
  <2>4. \A j \in Items : j # i => items'[j] = items[j]
    BY <1>2, <2>1
  <2>5. \A j \in Items : /\ items'[j].owner = items[j].owner
                         /\ Born(items[j]) => Born(items'[j])
    BY <1>2, <2>1, <2>3 DEF Born, Absent
  <2> QED BY <2>1, <2>2, <2>4, <2>5 DEF SupportKeeps
<1>6. CASE MarkLost(t)
  <2>1. /\ items' = [items EXCEPT ![i] = LostItem(items[i])]
        /\ requests' = [requests EXCEPT ![r] = LostRow(requests[r])]
    BY <1>6 DEF MarkLost, WriteRequests
  <2>2. i \in Items => LostItem(items[i]).status = "lost" /\ LostItem(items[i]).owner = items[i].owner
    BY <1>2 DEF LostItem, ItemRow
  <2>3. r \in Requests => /\ LostRow(requests[r]).item = requests[r].item
                          /\ LostRow(requests[r]).requester = requests[r].requester
                          /\ LostRow(requests[r]).status = "completed"
    BY <1>2 DEF LostRow, RequestRow
  <2>4. \A q \in Requests : /\ requests'[q].item = requests[q].item
                            /\ requests'[q].requester = requests[q].requester
                            /\ requests'[q].status \in {requests[q].status, "completed"}
    BY <1>2, <2>1, <2>3
  <2>5. \A j \in Items : /\ items'[j].owner = items[j].owner
                         /\ Born(items[j]) => Born(items'[j])
                         /\ items'[j].status \in HeldStatuses => items[j].status \in HeldStatuses
    BY <1>2, <2>1, <2>2 DEF HeldStatuses, Born, Absent
  <2> QED BY <2>4, <2>5 DEF SupportKeeps
<1>7. ASSUME NEW new \in Items, NEW next \in SwapOutStatuses, Swap(t, new, next)
      PROVE  \E s \in Tickets, n \in Items : SwapsIn(s, n)
  BY <1>7, SwapIsSwapsIn
<1> QED BY <1>1, <1>3, <1>4, <1>5, <1>6, <1>7 DEF Start, ResolveRemotely

LEMMA NextMovesDevices ==
  ASSUME ClaimInvariant, RequesterKnown, [Next]_tables
  PROVE  \/ CustodyMoves
         \/ SupportKeeps
         \/ \E t \in Tickets, new \in Items : SwapsIn(t, new)
BY NextCustodyOrSupport, SupportMoves DEF ClaimInvariant

LEMMA NextInactiveReceive ==
  ASSUME ClaimInvariant, RequesterKnown, InactiveHasNoOpenRequest, InactiveHasNoOpenRequest',
         [Next]_tables, NEW u \in Users, NEW i \in Items,
         users[u] = "inactive", items'[i].owner = u, items[i].owner # u
  PROVE  LateSwap(i)
<1>1. u # None
  BY StoreAssumption
<1>2. ~CustodyMoves
  <2> SUFFICES ASSUME CustodyMoves PROVE FALSE
    OBVIOUS
  <2>1. PICK r \in Requests : requests'[r].status = "assigned" /\ requests'[r].requester = u
    BY <1>1 DEF CustodyMoves, DeviceMoves, OwnerMoves
  <2>2. users'[u] = "inactive" \/ requests' = requests
    BY NextMovesUsers DEF UsersMove
  <2> QED BY <2>1, <2>2 DEF InactiveHasNoOpenRequest, Terminal, TerminalStatuses
<1>3. ~SupportKeeps
  BY DEF SupportKeeps
<1>4. PICK t \in Tickets, new \in Items : SwapsIn(t, new)
  BY <1>2, <1>3, NextMovesDevices
<1>5. i = new
  BY <1>1, <1>4 DEF SwapsIn
<1>6. Terminal(requests[tickets[t].request])
  BY <1>4, <1>5 DEF SwapsIn, InactiveHasNoOpenRequest
<1> QED BY <1>4, <1>5, <1>6 DEF SwapsIn, LateSwap

\* The only way a device gets to a deactivated employee is a swap through the
\* ticket of a request that has ended.
THEOREM OnlyLateSwapsServeInactive == Spec => InactiveReceiveByLateSwap
<1>1. /\ ClaimInvariant /\ RequesterKnown /\ InactiveHasNoOpenRequest
      /\ InactiveHasNoOpenRequest' /\ [Next]_tables
      => [\A u \in Users, i \in Items :
            users[u] = "inactive" /\ items'[i].owner = u /\ items[i].owner # u => LateSwap(i)]_tables
  BY NextInactiveReceive
<1> QED BY <1>1, ClaimsAreKept, RequestersAreKnown, InactiveHaveNoOpenRequests, PTL
        DEF Spec, InactiveReceiveByLateSwap

LEMMA NextDisplaces ==
  ASSUME ClaimInvariant, ClaimInvariant', RequesterKnown, [Next]_tables, NEW r \in Requests,
         requests'[r].status = "assigned",
         items'[requests'[r].item].owner \notin {requests'[r].requester, None}
  PROVE  \/ /\ requests[r].status = "assigned"
            /\ requests[r].item = requests'[r].item
            /\ items[requests'[r].item].owner = items'[requests'[r].item].owner
         \/ LateSwap(requests'[r].item)
<1>1. PICK i \in Items : i = requests'[r].item
  BY DEF ClaimInvariant, TypeOK, RequestRow, Terminal, TerminalStatuses
<1>2. ASSUME NEW q \in Requests, requests'[q].status = "assigned", requests'[q].item = i
      PROVE  q = r
  BY <1>1, <1>2, StoreAssumption DEF ClaimInvariant, UniqueActive, Terminal, TerminalStatuses
<1>3. CASE CustodyMoves
  <2>1. requests[r].status = "assigned" /\ requests[r].item = i
    BY <1>1, <1>3 DEF CustodyMoves, ClaimMoves, GrantMoves
  <2>2. OwnerMoves(i)
    BY <1>3 DEF CustodyMoves, DeviceMoves
  <2> QED BY <1>1, <1>2, <2>1, <2>2 DEF OwnerMoves
<1>4. CASE SupportKeeps
  BY <1>1, <1>4 DEF SupportKeeps
<1>5. ASSUME NEW t \in Tickets, NEW new \in Items, SwapsIn(t, new)
      PROVE  \/ /\ requests[r].status = "assigned"
                /\ requests[r].item = i
                /\ items[i].owner = items'[i].owner
             \/ LateSwap(i)
  <2> DEFINE q == tickets[t].request
  <2>1. r # q
    BY <1>1, <1>5 DEF SwapsIn
  <2>2. requests'[r] = requests[r]
    BY <1>5, <2>1 DEF SwapsIn
  <2>3. CASE i # new
    BY <1>1, <1>5, <2>2, <2>3 DEF SwapsIn
  <2>4. CASE i = new
    <3>1. requests'[q].status # "assigned"
      BY <1>2, <1>5, <2>1, <2>4 DEF SwapsIn
    <3>2. q # None /\ requests[q].status # "assigned"
      BY <1>5, <3>1, StoreAssumption DEF SwapsIn
    <3>3. Terminal(requests[q])
      BY <3>2 DEF ClaimInvariant, TiedRequestHadDevice, Terminal, TerminalStatuses
    <3> QED BY <1>5, <2>4, <3>3 DEF SwapsIn, LateSwap
  <2> QED BY <2>3, <2>4
<1> QED BY <1>1, <1>3, <1>4, <1>5, NextMovesDevices

\* The device of an assigned request goes to somebody else only in a swap
\* through the ticket of another request, one that has ended.
THEOREM OnlyLateSwapsDisplace == Spec => DisplacedByLateSwap
<1>1. /\ ClaimInvariant /\ ClaimInvariant' /\ RequesterKnown /\ [Next]_tables
      => [\A r \in Requests :
            LET i == requests'[r].item IN
            /\ requests'[r].status = "assigned"
            /\ items'[i].owner \notin {requests'[r].requester, None}
            => \/ /\ requests[r].status = "assigned"
                  /\ requests[r].item = i
                  /\ items[i].owner = items'[i].owner
               \/ LateSwap(i)]_tables
  BY NextDisplaces
<1> QED BY <1>1, ClaimsAreKept, RequestersAreKnown, PTL DEF Spec, DisplacedByLateSwap

LEMMA NextOrphans ==
  ASSUME ClaimInvariant, RequesterKnown, [Next]_tables, NEW i \in Items,
         ~Orphaned(i), Orphaned(i)'
  PROVE  \E t \in Tickets :
           /\ ResolvesAs(t, "swapped")
           /\ tickets[t].item # i
           /\ requests[tickets[t].request].item = i
<1>1. /\ items'[i].owner # None
      /\ ~\E r \in Requests : requests'[r].item = i /\ requests'[r].requester = items'[i].owner
  BY DEF Orphaned
<1>2. ASSUME items'[i].owner = items[i].owner
      PROVE  \E r \in Requests : requests[r].item = i /\ requests[r].requester = items'[i].owner
  BY <1>1, <1>2 DEF Orphaned
<1>3. ~CustodyMoves
  <2> SUFFICES ASSUME CustodyMoves PROVE FALSE
    OBVIOUS
  <2>1. OwnerMoves(i) /\ \A r \in Requests : KeepsDevice(r)
    BY DEF CustodyMoves, DeviceMoves, ClaimMoves
  <2>2. items'[i].owner = items[i].owner
    BY <1>1, <2>1 DEF OwnerMoves
  <2>3. PICK r \in Requests : requests[r].item = i /\ requests[r].requester = items'[i].owner
    BY <1>2, <2>2
  <2> QED BY <1>1, <2>1, <2>3, StoreAssumption DEF KeepsDevice
<1>4. ~SupportKeeps
  BY <1>1, <1>2 DEF SupportKeeps
<1>5. PICK t \in Tickets, new \in Items : SwapsIn(t, new)
  BY <1>3, <1>4, NextMovesDevices
<1>6. i # new
  BY <1>1, <1>5 DEF SwapsIn
<1>7. tickets[t].item # i
  BY <1>1, <1>5 DEF SwapsIn
<1>8. items'[i] = items[i]
  BY <1>5, <1>6, <1>7 DEF SwapsIn
<1>9. PICK r \in Requests : requests[r].item = i /\ requests[r].requester = items'[i].owner
  BY <1>2, <1>8
<1>10. r = tickets[t].request
  BY <1>1, <1>5, <1>9 DEF SwapsIn
<1> QED BY <1>5, <1>7, <1>9, <1>10 DEF SwapsIn

\* A device is lost sight of, in use and led to by no request of its owner,
\* only by a swap through a ticket on another device.
THEOREM OnlyStraySwapsOrphan == Spec => OrphanedByStraySwap
<1>1. /\ ClaimInvariant /\ RequesterKnown /\ [Next]_tables
      => [\A i \in Items :
            ~Orphaned(i) /\ Orphaned(i)' =>
              \E t \in Tickets :
                /\ ResolvesAs(t, "swapped")
                /\ tickets[t].item # i
                /\ requests[tickets[t].request].item = i]_tables
  BY NextOrphans
<1> QED BY <1>1, ClaimsAreKept, RequestersAreKnown, PTL DEF Spec, OrphanedByStraySwap

-----------------------------------------------------------------------------
(* Open tickets and the owners of their devices.                           *)

\* What a step does to the owner of a device: only a return and a swap take
\* him away, since a device is created once.
OwnerStays(i) == items'[i].owner = items[i].owner /\ (Born(items[i]) => Born(items'[i]))

ReturnOf(i) ==
  \E r \in Requests, next \in ReturnNextStatuses : CompleteReturn(r, next) /\ requests[r].item = i

SwapOutOf(i) == \E t \in Tickets, new \in Items : SwapsIn(t, new) /\ tickets[t].item = i

OwnerOutcome(i) ==
  \/ OwnerStays(i)
  \/ Born(items'[i]) /\ (items'[i].owner # None \/ ~Born(items[i]))
  \/ items'[i].owner = None /\ (ReturnOf(i) \/ SwapOutOf(i))

LEMMA OneOwnerStays ==
  ASSUME TypeOK, NEW j, NEW row, items' = [items EXCEPT ![j] = row],
         j \in Items => row.owner = items[j].owner /\ Born(row)
  PROVE  \A i \in Items : OwnerOutcome(i)
<1>1. items \in [Items -> ItemRow]
  BY DEF TypeOK
<1> QED BY <1>1 DEF OwnerOutcome, OwnerStays

LEMMA OneNewOwner ==
  ASSUME TypeOK, NEW j \in Items, NEW row, items' = [items EXCEPT ![j] = row],
         Born(row), row.owner # None \/ ~Born(items[j])
  PROVE  \A i \in Items : OwnerOutcome(i)
<1>1. items \in [Items -> ItemRow]
  BY DEF TypeOK
<1> QED BY <1>1 DEF OwnerOutcome, OwnerStays

LEMMA AssignmentOwners ==
  ASSUME TypeOK, RequesterKnown, AssignmentServiceStep
  PROVE  \A i \in Items : OwnerOutcome(i)
<1> SUFFICES ASSUME NEW r \in Requests, NEW range \in BookingRange,
                    \/ UpdateBookingRange(r, range)
                    \/ \E i \in Items, wfh \in WfhChoices : Assign(r, i, range, wfh)
                    \/ \E i \in Items, u \in Users : DirectAssign(r, i, u, range)
             PROVE  \A i \in Items : OwnerOutcome(i)
  BY DEF AssignmentServiceStep
<1>1. ASSUME NEW i \in Items, NEW u \in Users
      PROVE  Born(OwnedRow(items[i], u)) /\ OwnedRow(items[i], u).owner # None
  <2>1. OwnedRow(items[i], u).status = "assigned" /\ OwnedRow(items[i], u).owner = u
    BY DEF TypeOK, OwnedRow, ItemRow
  <2> QED BY <2>1, StoreAssumption DEF Born, Absent
<1>2. CASE UpdateBookingRange(r, range)
  BY <1>2 DEF UpdateBookingRange, OwnerOutcome, OwnerStays
<1>3. ASSUME NEW i \in Items, NEW wfh \in WfhChoices, Assign(r, i, range, wfh)
      PROVE  \A j \in Items : OwnerOutcome(j)
  <2>1. requests[r].requester \in Users
    BY <1>3 DEF Assign, Assignable, RequesterKnown, Born, Absent
  <2>2. items' = [items EXCEPT ![i] = OwnedRow(items[i], requests[r].requester)]
    BY <1>3 DEF Assign
  <2> QED BY <1>1, <2>1, <2>2, OneNewOwner
<1>4. ASSUME NEW i \in Items, NEW u \in Users, DirectAssign(r, i, u, range)
      PROVE  \A j \in Items : OwnerOutcome(j)
  <2>1. items' = [items EXCEPT ![i] = OwnedRow(items[i], u)]
    BY <1>4 DEF DirectAssign
  <2> QED BY <1>1, <2>1, OneNewOwner
<1> QED BY <1>2, <1>3, <1>4

LEMMA ShippingOwners ==
  ASSUME TypeOK, ShippingServiceStep
  PROVE  \A i \in Items : OwnerOutcome(i)
<1> SUFFICES ASSUME NEW r \in Requests,
                    \/ Ship(r)
                    \/ ConfirmDelivery(r)
                    \/ \E next \in ReturnNextStatuses : CompleteReturn(r, next)
             PROVE  \A i \in Items : OwnerOutcome(i)
  BY DEF ShippingServiceStep
<1> DEFINE i == requests[r].item
<1>0. items \in [Items -> ItemRow]
  BY DEF TypeOK
<1>1. CASE Ship(r)
  <2>1. i \in Items => ShipItem(items[i]).owner = items[i].owner /\ Born(ShipItem(items[i]))
    BY <1>0 DEF ShipItem, ItemRow, Born, Absent
  <2>2. items' = [items EXCEPT ![i] = ShipItem(items[i])]
    BY <1>1 DEF Ship
  <2> QED BY <2>1, <2>2, OneOwnerStays
<1>2. CASE ConfirmDelivery(r)
  <2>1. i \in Items =>
          DeliveredItem(items[i]).owner = items[i].owner /\ Born(DeliveredItem(items[i]))
    BY <1>0 DEF DeliveredItem, ItemRow, Born, Absent
  <2>2. items' = [items EXCEPT ![i] = DeliveredItem(items[i])]
    BY <1>2 DEF ConfirmDelivery
  <2> QED BY <2>1, <2>2, OneOwnerStays
<1>3. ASSUME NEW next \in ReturnNextStatuses, CompleteReturn(r, next), NEW j \in Items
      PROVE  OwnerOutcome(j)
  <2>1. items' = [items EXCEPT ![i] = ReturnedItem(items[i], next)]
    BY <1>3 DEF CompleteReturn
  <2>2. CASE j = i
    <3>1. ReturnedItem(items[j], next).owner = None
      BY <1>0 DEF ReturnedItem, ItemRow
    <3>2. items'[j].owner = None
      BY <1>0, <2>1, <2>2, <3>1
    <3> QED BY <1>3, <2>2, <3>2 DEF OwnerOutcome, ReturnOf
  <2>3. CASE j # i
    BY <1>0, <2>1, <2>3 DEF OwnerOutcome, OwnerStays
  <2> QED BY <2>2, <2>3
<1> QED BY <1>1, <1>2, <1>3

LEMMA InventoryOwners ==
  ASSUME TypeOK, InventoryServiceStep
  PROVE  \A i \in Items : OwnerOutcome(i)
<1> SUFFICES ASSUME NEW j \in Items,
                    \/ \E c \in Categories : CreateItem(j, c) \/ EditItem(j, c)
                    \/ \E status \in ManualStatuses : ChangeStatus(j, status)
             PROVE  \A i \in Items : OwnerOutcome(i)
  BY DEF InventoryServiceStep
<1>0. items \in [Items -> ItemRow]
  BY DEF TypeOK
<1>1. ASSUME NEW c \in Categories, CreateItem(j, c)
      PROVE  \A i \in Items : OwnerOutcome(i)
  <2>1. Born(NewItem(c))
    BY DEF NewItem, Born, Absent
  <2>2. ~Born(items[j]) /\ items' = [items EXCEPT ![j] = NewItem(c)]
    BY <1>1 DEF CreateItem
  <2> QED BY <2>1, <2>2, OneNewOwner
<1>2. ASSUME NEW c \in Categories, EditItem(j, c), NEW i \in Items
      PROVE  OwnerOutcome(i)
  <2>1. items'[i].owner = items[i].owner /\ items'[i].status = items[i].status
    BY <1>0, <1>2 DEF EditItem, ItemRow
  <2> QED BY <2>1 DEF OwnerOutcome, OwnerStays, Born
<1>3. ASSUME NEW status \in ManualStatuses, ChangeStatus(j, status)
      PROVE  \A i \in Items : OwnerOutcome(i)
  <2>1. /\ ChangedItem(items[j], status).owner = items[j].owner
        /\ ChangedItem(items[j], status).status = status
    BY <1>0 DEF ChangedItem, ItemRow
  <2>2. status # Absent
    BY StoreAssumption DEF ChangeableStatuses, Absent
  <2>3. items' = [items EXCEPT ![j] = ChangedItem(items[j], status)]
    BY <1>3 DEF ChangeStatus
  <2> QED BY <2>1, <2>2, <2>3, OneOwnerStays DEF Born
<1> QED BY <1>1, <1>2, <1>3

LEMMA NextMovesOwners ==
  ASSUME ClaimInvariant, RequesterKnown, [Next]_tables
  PROVE  \A i \in Items : OwnerOutcome(i)
<1> TypeOK
  BY DEF ClaimInvariant
<1>1. CASE items' = items
  BY <1>1 DEF OwnerOutcome, OwnerStays
<1>2. CASE SupportServiceStep
  <2>1. CASE SupportKeeps
    BY <2>1 DEF SupportKeeps, OwnerOutcome, OwnerStays
  <2>2. ASSUME NEW t \in Tickets, NEW new \in Items, SwapsIn(t, new), NEW i \in Items
        PROVE  OwnerOutcome(i)
    <3> DEFINE q == tickets[t].request
    <3>1. CASE i = new
      <4>1. q \in Requests /\ q # None
        BY <2>2, StoreAssumption DEF SwapsIn
      <4>2. requests[q].requester \in Users
        BY <4>1 DEF ClaimInvariant, TiedRequestHadDevice, RequesterKnown, Born, Absent
      <4> QED BY <2>2, <3>1, <4>2, StoreAssumption DEF SwapsIn, OwnerOutcome, Born, Absent
    <3>2. CASE i = tickets[t].item
      BY <2>2, <3>2 DEF SwapsIn, OwnerOutcome, SwapOutOf
    <3>3. CASE i # new /\ i # tickets[t].item
      BY <2>2, <3>3 DEF SwapsIn, OwnerOutcome, OwnerStays
    <3> QED BY <3>1, <3>2, <3>3
  <2> QED BY <1>2, <2>1, <2>2, SupportMoves
<1>3. ASSUME NEW r \in Requests, InitiateReturn(r)
      PROVE  \A i \in Items : OwnerOutcome(i)
  <2> DEFINE j == requests[r].item
             row == [items[j] EXCEPT !.status = "return_shipping_pending"]
  <2>1. items' = [items EXCEPT ![j] = row]
    BY <1>3 DEF InitiateReturn
  <2>2. j \in Items => row.owner = items[j].owner /\ Born(row)
    BY DEF TypeOK, ItemRow, Born, Absent
  <2> HIDE DEF row
  <2> QED BY <2>1, <2>2, OneOwnerStays
<1>4. RequestServiceStep \/ ExtensionServiceStep \/ UserServiceStep => items' = items
  BY DEF RequestServiceStep, RejectRequest, CancelRequest, EscalateToManager,
     ExtensionServiceStep, ApproveExtension, RejectExtension, UserServiceStep, CreateUser,
     Deactivate, Activate
<1>5. MobileAppStep => items' = items \/ \E r \in Requests : InitiateReturn(r)
  BY DEF MobileAppStep, FileRequest, ManagerDecides, FileTicket, FileExtension,
     ManagerDecidesExtension
<1> QED BY <1>1, <1>2, <1>3, <1>4, <1>5, AssignmentOwners, ShippingOwners, InventoryOwners
        DEF Next, tables

UnbornUnowned == \A i \in Items : ~Born(items[i]) => items[i].owner = None

LEMMA NextKeepsUnborn ==
  ASSUME ClaimInvariant, RequesterKnown, UnbornUnowned, [Next]_tables
  PROVE  UnbornUnowned'
BY NextMovesOwners DEF OwnerOutcome, OwnerStays, UnbornUnowned

LEMMA SwapsStay ==
  ASSUME TypeOK, [Next]_tables, NEW i, SwappedOut(i)
  PROVE  SwappedOut(i)'
BY NextKeepsResolutions DEF SwappedOut, tables

\* A ticket is on a device of the table.
TicketHasDevice == \A t \in Tickets : Born(tickets[t]) => tickets[t].item \in Items

LEMMA NextKeepsTicketDevice ==
  ASSUME ClaimInvariant, TicketHasDevice, [Next]_tables
  PROVE  TicketHasDevice'
<1> SUFFICES ASSUME NEW t \in Tickets, Born(tickets'[t])
             PROVE  tickets'[t].item \in Items
  BY DEF TicketHasDevice
<1>1. TicketMoves(t)
  BY NextMovesTicketRows DEF ClaimInvariant
<1>2. ASSUME NEW r \in Requests, requests[r].status = "assigned"
      PROVE  requests[r].item \in Items
  BY <1>2 DEF ClaimInvariant, TypeOK, RequestRow, Terminal, TerminalStatuses
<1> QED BY <1>1, <1>2 DEF TicketMoves, TicketHasDevice, Resolvable

TicketInvariant == UnbornUnowned /\ TicketHasDevice /\ OpenTicketHasOwner

LEMMA NextKeepsOpenOwned ==
  ASSUME ClaimInvariant, RequesterKnown, TicketInvariant, [Next]_tables
  PROVE  OpenTicketHasOwner'
<1> SUFFICES ASSUME NEW t \in Tickets, Resolvable(tickets'[t]),
                    items'[tickets'[t].item].owner = None
             PROVE  \E s \in Tickets :
                      /\ tickets'[s].item = tickets'[t].item
                      /\ tickets'[s].status = "resolved"
                      /\ tickets'[s].resolution = "swapped"
  BY DEF OpenTicketHasOwner, SwappedOut
<1> TypeOK
  BY DEF ClaimInvariant
<1>1. TicketMoves(t)
  BY NextMovesTicketRows
<1>2. Resolvable(tickets[t]) /\ tickets'[t].item = tickets[t].item
  <2>1. ASSUME ~Born(tickets[t]), items' = items, NEW r \in Requests,
               requests[r].status = "assigned", tickets'[t].item = requests[r].item,
               items[requests[r].item].owner = requests[r].requester
        PROVE  FALSE
    BY <2>1, StoreAssumption DEF RequesterKnown, Born, Absent
  <2> QED BY <1>1, <2>1 DEF TicketMoves
<1>3. PICK i \in Items : i = tickets[t].item
  BY <1>2 DEF TicketInvariant, TicketHasDevice, Resolvable
<1>4. CASE items[i].owner = None
  <2>1. SwappedOut(i)
    BY <1>2, <1>3, <1>4 DEF TicketInvariant, OpenTicketHasOwner
  <2>2. SwappedOut(i)'
    BY <2>1, SwapsStay
  <2> QED BY <1>2, <1>3, <2>2 DEF SwappedOut
<1>5. CASE items[i].owner # None
  <2>1. ReturnOf(i) \/ SwapOutOf(i)
    <3>1. OwnerOutcome(i)
      BY NextMovesOwners
    <3>2. items'[i].owner = None
      BY <1>2, <1>3
    <3> QED BY <1>5, <3>1, <3>2 DEF OwnerOutcome, OwnerStays, TicketInvariant, UnbornUnowned
  <2>2. ~ReturnOf(i)
    <3> SUFFICES ASSUME NEW r \in Requests, NEW next \in ReturnNextStatuses,
                        CompleteReturn(r, next), requests[r].item = i
                 PROVE  FALSE
      BY DEF ReturnOf
    <3>1. tickets \in [Tickets -> TicketRow]
      BY DEF TypeOK
    <3>2. t \in OpenForItem(i)
      BY <1>2, <1>3, <3>1 DEF OpenForItem, OpenSupportStatuses, Resolvable, Born, TicketRow,
         SupportStatuses
    <3>3. tickets'[t] = AutoClosed(tickets[t])
      BY <3>2 DEF CompleteReturn, AutoCloseOpenSupport
    <3>4. AutoClosed(tickets[t]).status = "resolved"
      BY <3>1 DEF AutoClosed, TicketRow
    <3> QED BY <3>3, <3>4 DEF Resolvable
  <2>3. PICK s \in Tickets, new \in Items : SwapsIn(s, new) /\ tickets[s].item = i
    BY <2>1, <2>2 DEF SwapOutOf
  <2> QED BY <1>2, <1>3, <2>3 DEF SwapsIn, ResolvesAs
<1> QED BY <1>4, <1>5

LEMMA NextKeepsTicketInvariant ==
  ClaimInvariant /\ RequesterKnown /\ TicketInvariant /\ [Next]_tables => TicketInvariant'
BY NextKeepsUnborn, NextKeepsTicketDevice, NextKeepsOpenOwned DEF TicketInvariant

LEMMA TicketsAreKept == Spec => []TicketInvariant
<1>1. Init => TicketInvariant
  BY DEF Init, TablesInit, NoRequest, NoItem, NoTicket, TicketInvariant, UnbornUnowned, TicketHasDevice,
     OpenTicketHasOwner, Resolvable, Born
<1> QED BY <1>1, NextKeepsTicketInvariant, ClaimsAreKept, RequestersAreKnown, PTL DEF Spec

\* A ticket still open is on a device somebody owns, or one that a swap
\* through another ticket took from its owner: complete_return closes the
\* tickets of the device it takes back.
THEOREM OpenTicketsHaveOwners == Spec => []OpenTicketHasOwner
BY TicketsAreKept, PTL DEF TicketInvariant

LEMMA NextUnowns ==
  ASSUME ClaimInvariant, RequesterKnown, TicketInvariant, [Next]_tables, NEW i \in Items,
         ~Ownerless(i), Ownerless(i)'
  PROVE  \E t \in Tickets :
           /\ tickets[t].item = i
           /\ \/ ResolvesAs(t, "repaired_in_place") /\ Repairable(items[i]) /\ SwappedOut(i)
              \/ ResolvesAs(t, "swapped")
<1>1. items'[i].status \in HeldStatuses /\ items'[i].owner = None
  BY DEF Ownerless
<1>2. ~CustodyMoves
  BY <1>1, StoreAssumption DEF CustodyMoves, DeviceMoves, HeldMoves, Ownerless
<1>3. CASE SupportKeeps
  <2>1. items[i].owner = None /\ items[i].status \notin HeldStatuses
    BY <1>1, <1>3 DEF SupportKeeps, Ownerless
  <2>2. PICK t \in Tickets : /\ Resolvable(tickets[t])
                             /\ tickets[t].item = i
                             /\ ResolvesAs(t, "repaired_in_place")
                             /\ Repairable(items[i])
    BY <1>1, <1>3, <2>1 DEF SupportKeeps
  <2>3. SwappedOut(i)
    BY <2>1, <2>2 DEF TicketInvariant, OpenTicketHasOwner
  <2> QED BY <2>2, <2>3
<1>4. ASSUME NEW t \in Tickets, NEW new \in Items, SwapsIn(t, new)
      PROVE  ResolvesAs(t, "swapped") /\ tickets[t].item = i
  <2> DEFINE q == tickets[t].request
  <2>1. i # new
    <3>1. q \in Requests /\ q # None
      BY <1>4, StoreAssumption DEF SwapsIn
    <3>2. requests[q].requester \in Users
      BY <3>1 DEF ClaimInvariant, TiedRequestHadDevice, RequesterKnown, Born, Absent
    <3> QED BY <1>1, <1>4, <3>2, StoreAssumption DEF SwapsIn
  <2>2. CASE i # tickets[t].item
    <3>1. items'[i] = items[i]
      BY <1>4, <2>1, <2>2 DEF SwapsIn
    <3> QED BY <1>1, <3>1 DEF Ownerless
  <2> QED BY <1>4, <2>2 DEF SwapsIn
<1> QED BY <1>2, <1>3, <1>4, NextMovesDevices

\* A device is in a workflow status without an owner only by a repair in
\* place of one that was swapped out before, or by a swap that leaves it so.
THEOREM OnlyTicketsUnown == Spec => OwnerlessByTicket
<1>1. /\ ClaimInvariant /\ RequesterKnown /\ TicketInvariant /\ [Next]_tables
      => [\A i \in Items :
            ~Ownerless(i) /\ Ownerless(i)' =>
              \E t \in Tickets :
                /\ tickets[t].item = i
                /\ \/ ResolvesAs(t, "repaired_in_place") /\ Repairable(items[i]) /\ SwappedOut(i)
                   \/ ResolvesAs(t, "swapped")]_tables
  BY NextUnowns
<1> QED BY <1>1, ClaimsAreKept, RequestersAreKnown, TicketsAreKept, PTL
        DEF Spec, OwnerlessByTicket
=============================================================================
