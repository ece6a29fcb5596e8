----------------------------- MODULE AssetPilotTypes -----------------------------
(***************************************************************************)
(* Type correctness of AssetPilot, for every value of the constants: each  *)
(* action leaves every row within the types of the schema.                 *)
(***************************************************************************)
EXTENDS AssetPilot, TLAPS

LEMMA InitTypeOK == Init => TypeOK
BY DEF Init, TablesInit, TypeOK, ItemRow, RequestRow, TicketRow, ExtensionRow,
   UserStates, TrailRow, NoItem, NoRequest, NoTicket, NoExtension, NoTrail,
   Absent, MgrApprovalStatuses

\* What the services make of one row is again a row, whichever row it was.
LEMMA RequestRowUpdates ==
  ASSUME NEW req \in RequestRow
  PROVE  /\ RejectedRow(req) \in RequestRow
         /\ CancelledRow(req) \in RequestRow
         /\ EscalatedRow(req) \in RequestRow
         /\ ShipRow(req) \in RequestRow
         /\ DeliveredRow(req) \in RequestRow
         /\ CompletedRow(req) \in RequestRow
         /\ LostRow(req) \in RequestRow
<1> USE DEF RequestRow, RequestStatuses, MgrApprovalStatuses
<1>1. RejectedRow(req) \in RequestRow BY DEF RejectedRow
<1>2. CancelledRow(req) \in RequestRow BY DEF CancelledRow
<1>3. EscalatedRow(req) \in RequestRow BY DEF EscalatedRow
<1>4. ShipRow(req) \in RequestRow BY DEF ShipRow
<1>5. DeliveredRow(req) \in RequestRow BY DEF DeliveredRow
<1>6. CompletedRow(req) \in RequestRow BY DEF CompletedRow
<1>7. LostRow(req) \in RequestRow BY DEF LostRow
<1> QED BY <1>1, <1>2, <1>3, <1>4, <1>5, <1>6, <1>7

LEMMA BookedRowTypes ==
  ASSUME NEW req \in RequestRow, NEW i \in Items, NEW wfh \in BOOLEAN,
         NEW range \in BookingRange
  PROVE  /\ RebookedRow(req, range) \in RequestRow
         /\ AssignedRow(req, i, range, wfh) \in RequestRow
<1> range[1] \in Days /\ range[2] \in Days
  BY DEF BookingRange
<1> USE DEF RequestRow, RequestStatuses
<1>1. RebookedRow(req, range) \in RequestRow BY DEF RebookedRow
<1>2. AssignedRow(req, i, range, wfh) \in RequestRow BY DEF AssignedRow
<1> QED BY <1>1, <1>2

LEMMA ItemRowUpdates ==
  ASSUME NEW item \in ItemRow, NEW status \in DeviceStatuses, NEW u \in Users \cup {None}
  PROVE  /\ OwnedRow(item, u) \in ItemRow
         /\ ShipItem(item) \in ItemRow
         /\ DeliveredItem(item) \in ItemRow
         /\ ReturnedItem(item, status) \in ItemRow
         /\ SwappedOutItem(item, status) \in ItemRow
         /\ ChangedItem(item, status) \in ItemRow
<1> USE DEF ItemRow, DeviceStatuses
<1>1. OwnedRow(item, u) \in ItemRow BY DEF OwnedRow
<1>2. ShipItem(item) \in ItemRow BY DEF ShipItem
<1>3. DeliveredItem(item) \in ItemRow BY DEF DeliveredItem
<1>4. ReturnedItem(item, status) \in ItemRow BY DEF ReturnedItem
<1>5. SwappedOutItem(item, status) \in ItemRow BY DEF SwappedOutItem
<1>6. ChangedItem(item, status) \in ItemRow BY DEF ChangedItem
<1> QED BY <1>1, <1>2, <1>3, <1>4, <1>5, <1>6

LEMMA RequestServiceTypeOK == TypeOK /\ RequestServiceStep => TypeOK'
<1> SUFFICES ASSUME TypeOK, NEW r \in Requests,
                    RejectRequest(r) \/ CancelRequest(r) \/ EscalateToManager(r)
             PROVE  TypeOK'
  BY DEF RequestServiceStep
<1>1. requests[r] \in RequestRow
  BY DEF TypeOK
<1>2. requests' \in [Requests -> RequestRow]
  BY <1>1, RequestRowUpdates
     DEF RejectRequest, CancelRequest, EscalateToManager, WriteRequests, TypeOK
<1> QED BY <1>2 DEF RejectRequest, CancelRequest, EscalateToManager, TypeOK

LEMMA AppendedType ==
  ASSUME NEW log \in TrailRow, NEW from, NEW to \in DeviceStatuses
  PROVE  Appended(log, from, to) \in TrailRow
BY DEF Appended, TrailRow

LEMMA AssignmentServiceTypeOK == TypeOK /\ AssignmentServiceStep => TypeOK'
<1> SUFFICES ASSUME TypeOK, NEW r \in Requests, NEW range \in BookingRange,
                    \/ UpdateBookingRange(r, range)
                    \/ \E i \in Items, wfh \in WfhChoices : Assign(r, i, range, wfh)
                    \/ \E i \in Items, u \in Users : DirectAssign(r, i, u, range)
             PROVE  TypeOK'
  BY DEF AssignmentServiceStep
<1>1. requests[r] \in RequestRow
  BY DEF TypeOK
<1>2. CASE UpdateBookingRange(r, range)
  <2>1. requests[r].item \in Items
    BY <1>1, <1>2 DEF UpdateBookingRange, RequestRow
  <2>2. RebookedRow(requests[r], range) \in RequestRow
    BY <1>1, <2>1, BookedRowTypes
  <2> QED BY <1>2, <2>2 DEF UpdateBookingRange, WriteRequests, TypeOK
<1>3. ASSUME NEW i \in Items, NEW wfh \in WfhChoices, Assign(r, i, range, wfh)
      PROVE  TypeOK'
  <2>1. wfh \in BOOLEAN
    BY StoreAssumption
  <2>2. AssignedRow(requests[r], i, range, wfh) \in RequestRow
    BY <1>1, <2>1, BookedRowTypes
  <2>3. OwnedRow(items[i], requests[r].requester) \in ItemRow
    BY <1>1, ItemRowUpdates DEF TypeOK, RequestRow, DeviceStatuses
  <2>5. requests' \in [Requests -> RequestRow]
    BY <1>3, <2>2 DEF Assign, WriteRequests, TypeOK
  <2>6. items' \in [Items -> ItemRow]
    BY <1>3, <2>3 DEF Assign, TypeOK
  <2>4. trail' \in [Items -> TrailRow]
    BY <1>3, AppendedType DEF Assign, TypeOK, DeviceStatuses
  <2> QED BY <1>3, <2>4, <2>5, <2>6 DEF Assign, TypeOK
<1>4. ASSUME NEW i \in Items, NEW u \in Users, DirectAssign(r, i, u, range)
      PROVE  TypeOK'
  <2>0. items[i].category \in Categories \cup {None}
    BY DEF TypeOK, ItemRow
  <2>1. DirectRow(u, i, range) \in RequestRow
    BY <2>0 DEF DirectRow, NoRequest, RequestRow, RequestStatuses, MgrApprovalStatuses, BookingRange
  <2>2. requests' \in [Requests -> RequestRow]
    BY <1>4, <2>1 DEF DirectAssign, WriteRequests, TypeOK
  <2>5. OwnedRow(items[i], u) \in ItemRow
    BY ItemRowUpdates DEF TypeOK, DeviceStatuses
  <2>3. items' \in [Items -> ItemRow]
    BY <1>4, <2>5 DEF DirectAssign, TypeOK
  <2>4. trail' \in [Items -> TrailRow]
    BY <1>4, AppendedType DEF DirectAssign, TypeOK, DeviceStatuses
  <2> QED BY <1>4, <2>2, <2>3, <2>4 DEF DirectAssign, TypeOK
<1> QED BY <1>2, <1>3, <1>4

LEMMA ShippingServiceTypeOK == TypeOK /\ ShippingServiceStep => TypeOK'
<1> SUFFICES ASSUME TypeOK, NEW r \in Requests,
                    \/ Ship(r)
                    \/ ConfirmDelivery(r)
                    \/ \E next \in ReturnNextStatuses : CompleteReturn(r, next)
             PROVE  TypeOK'
  BY DEF ShippingServiceStep
<1> DEFINE i == requests[r].item
<1>1. ASSUME HasDevice(requests[r]) PROVE i \in Items
  BY <1>1 DEF HasDevice, TypeOK, RequestRow
<1>2. CASE Ship(r)
  <2>1. i \in Items
    BY <1>1, <1>2 DEF Ship
  <2>2. ShipRow(requests[r]) \in RequestRow /\ ShipItem(items[i]) \in ItemRow
    BY <2>1, RequestRowUpdates, ItemRowUpdates DEF TypeOK, DeviceStatuses
  <2>3. Appended(trail[i], "assigned", "shipping_pending") \in TrailRow
    BY <2>1, AppendedType DEF TypeOK, DeviceStatuses
  <2> QED BY <1>2, <2>1, <2>2, <2>3 DEF Ship, WriteRequests, TypeOK
<1>3. CASE ConfirmDelivery(r)
  <2>1. i \in Items
    BY <1>1, <1>3 DEF ConfirmDelivery
  <2>2. DeliveredRow(requests[r]) \in RequestRow /\ DeliveredItem(items[i]) \in ItemRow
    BY <2>1, RequestRowUpdates, ItemRowUpdates DEF TypeOK, DeviceStatuses
  <2>3. Appended(trail[i], "shipping_pending", "assigned") \in TrailRow
    BY <2>1, AppendedType DEF TypeOK, DeviceStatuses
  <2> QED BY <1>3, <2>1, <2>2, <2>3 DEF ConfirmDelivery, WriteRequests, TypeOK
<1>4. ASSUME NEW next \in ReturnNextStatuses, CompleteReturn(r, next)
      PROVE  TypeOK'
  <2>1. i \in Items
    BY <1>1, <1>4 DEF CompleteReturn
  <2>2. next \in DeviceStatuses
    BY DEF ReturnNextStatuses, DeviceStatuses
  <2>3. CompletedRow(requests[r]) \in RequestRow /\ ReturnedItem(items[i], next) \in ItemRow
    BY <2>1, <2>2, RequestRowUpdates, ItemRowUpdates DEF TypeOK
  <2>4. Appended(trail[i], items[i].status, next) \in TrailRow
    BY <2>1, <2>2, AppendedType DEF TypeOK
  <2>5. \A t \in Tickets : AutoClosed(tickets[t]) \in TicketRow
    BY DEF AutoClosed, TypeOK, TicketRow, SupportStatuses
  <2>6. tickets' \in [Tickets -> TicketRow]
    BY <1>4, <2>5 DEF CompleteReturn, AutoCloseOpenSupport, TypeOK
  <2>7. /\ requests' \in [Requests -> RequestRow]
        /\ items' \in [Items -> ItemRow]
        /\ trail' \in [Items -> TrailRow]
    BY <1>4, <2>3, <2>4 DEF CompleteReturn, WriteRequests, TypeOK
  <2> QED BY <1>4, <2>6, <2>7 DEF CompleteReturn, TypeOK
<1> QED BY <1>2, <1>3, <1>4

LEMMA ResolvedRowType ==
  ASSUME NEW ticket \in TicketRow, NEW resolution \in SupportResolutions,
         NEW new \in Items \cup {None}
  PROVE  ResolvedRow(ticket, resolution, new) \in TicketRow
BY DEF ResolvedRow, TicketRow, SupportStatuses

LEMMA CloseType ==
  ASSUME TypeOK, NEW t \in Tickets, NEW resolution \in SupportResolutions,
         NEW new \in Items \cup {None}, Close(t, resolution, new)
  PROVE  tickets' \in [Tickets -> TicketRow]
BY ResolvedRowType DEF Close, TypeOK

\* A device row, whoever's: the item of a ticket may be NULL, and then no row changes.
LEMMA ItemChangeType ==
  ASSUME TypeOK, NEW i,
         items' = [items EXCEPT ![i] = LostItem(@)] \/
         items' = [items EXCEPT ![i] = RepairedItem(@)] \/
         items' = [items EXCEPT ![i] = InRepairItem(@)]
  PROVE  items' \in [Items -> ItemRow]
<1>1. \A j \in Items : /\ LostItem(items[j]) \in ItemRow
                       /\ RepairedItem(items[j]) \in ItemRow
                       /\ InRepairItem(items[j]) \in ItemRow
  BY DEF LostItem, RepairedItem, InRepairItem, TypeOK, ItemRow, DeviceStatuses
<1> QED BY <1>1 DEF TypeOK

LEMMA TrailChangeType ==
  ASSUME TypeOK, NEW i, NEW from, NEW to \in DeviceStatuses,
         trail' = [trail EXCEPT ![i] = Appended(@, from, to)]
  PROVE  trail' \in [Items -> TrailRow]
<1>1. \A j \in Items : Appended(trail[j], from, to) \in TrailRow
  BY AppendedType DEF TypeOK
<1> QED BY <1>1 DEF TypeOK

LEMMA SupportServiceTypeOK == TypeOK /\ SupportServiceStep => TypeOK'
<1> SUFFICES ASSUME TypeOK, NEW t \in Tickets,
                    \/ Start(t)
                    \/ ResolveRemotely(t)
                    \/ RepairInPlace(t)
                    \/ \E new \in Items, next \in SwapOutStatuses : Swap(t, new, next)
                    \/ MarkLost(t)
             PROVE  TypeOK'
  BY DEF SupportServiceStep
<1> DEFINE i == tickets[t].item
           r == tickets[t].request
<1> USE DEF SupportResolutions
<1>1. CASE Start(t)
  <2>1. StartedRow(tickets[t]) \in TicketRow
    BY DEF StartedRow, TypeOK, TicketRow, SupportStatuses
  <2>2. tickets' \in [Tickets -> TicketRow]
    BY <1>1, <2>1 DEF Start, TypeOK
  <2>3. CASE tickets[t].type = "damage"
    <3>1. items' \in [Items -> ItemRow]
      BY <1>1, <2>3, ItemChangeType DEF Start
    <3>2. trail' \in [Items -> TrailRow]
      BY <1>1, <2>3, TrailChangeType DEF Start, DeviceStatuses
    <3> QED BY <1>1, <2>2, <3>1, <3>2 DEF Start, TypeOK
  <2>4. CASE tickets[t].type # "damage"
    BY <1>1, <2>2, <2>4 DEF Start, TypeOK
  <2> QED BY <2>3, <2>4
<1>2. CASE ResolveRemotely(t)
  <2>1. tickets' \in [Tickets -> TicketRow]
    BY <1>2, CloseType DEF ResolveRemotely
  <2> QED BY <1>2, <2>1 DEF ResolveRemotely, TypeOK
<1>3. CASE RepairInPlace(t)
  <2>1. tickets' \in [Tickets -> TicketRow]
    BY <1>3, CloseType DEF RepairInPlace
  <2>2. items' \in [Items -> ItemRow]
    BY <1>3, ItemChangeType DEF RepairInPlace
  <2>3. trail' \in [Items -> TrailRow]
    BY <1>3, TrailChangeType DEF RepairInPlace, DeviceStatuses
  <2> QED BY <1>3, <2>1, <2>2, <2>3 DEF RepairInPlace, TypeOK
<1>4. ASSUME NEW new \in Items, NEW next \in SwapOutStatuses, Swap(t, new, next)
      PROVE  TypeOK'
  <2>1. next \in DeviceStatuses /\ r \in Requests
    BY <1>4, StoreAssumption DEF Swap, TypeOK, TicketRow
  <2>2. tickets' \in [Tickets -> TicketRow]
    BY <1>4, CloseType DEF Swap
  <2>3. RepointedRow(requests[r], new) \in RequestRow
    BY <2>1 DEF RepointedRow, TypeOK, RequestRow
  <2>4. \A j \in Items : SwappedOutItem(items[j], next) \in ItemRow
    BY <2>1, ItemRowUpdates DEF TypeOK
  <2>0. items[new] \in ItemRow /\ requests[r].requester \in Users \cup {None}
    BY <2>1 DEF TypeOK, RequestRow
  <2>5. SwappedInItem(items[new], requests[r]) \in ItemRow
    BY <2>0 DEF SwappedInItem, ItemRow, DeviceStatuses
  <2>6. \A j \in Items : /\ AppendedEvent(trail[j], Untold) \in TrailRow
                         /\ AppendedEvent(trail[j], "assigned") \in TrailRow
    BY DEF AppendedEvent, TypeOK, TrailRow, DeviceStatuses, Untold
  <2>7. items' \in [Items -> ItemRow]
    BY <1>4, <2>4, <2>5 DEF Swap, TypeOK
  <2>8. trail' \in [Items -> TrailRow]
    BY <1>4, <2>6 DEF Swap, TypeOK
  <2>9. requests' \in [Requests -> RequestRow]
    BY <1>4, <2>3 DEF Swap, WriteRequests, TypeOK
  <2> QED BY <1>4, <2>2, <2>7, <2>8, <2>9 DEF Swap, TypeOK
<1>5. CASE MarkLost(t)
  <2>1. tickets' \in [Tickets -> TicketRow]
    BY <1>5, CloseType DEF MarkLost
  <2>2. items' \in [Items -> ItemRow]
    BY <1>5, ItemChangeType DEF MarkLost
  <2>3. trail' \in [Items -> TrailRow]
    BY <1>5, TrailChangeType DEF MarkLost, DeviceStatuses
  <2>4. r \in Requests
    BY <1>5 DEF MarkLost, TypeOK, TicketRow
  <2>5. LostRow(requests[r]) \in RequestRow
    BY <2>4, RequestRowUpdates DEF TypeOK
  <2>6. requests' \in [Requests -> RequestRow]
    BY <1>5, <2>5 DEF MarkLost, WriteRequests, TypeOK
  <2> QED BY <1>5, <2>1, <2>2, <2>3, <2>6 DEF MarkLost, TypeOK
<1> QED BY <1>1, <1>2, <1>3, <1>4, <1>5

LEMMA ExtensionServiceTypeOK == TypeOK /\ ExtensionServiceStep => TypeOK'
<1> SUFFICES ASSUME TypeOK, NEW x \in Extensions,
                    ApproveExtension(x) \/ RejectExtension(x)
             PROVE  TypeOK'
  BY DEF ExtensionServiceStep
<1>1. CASE ApproveExtension(x)
  <2>1. \A r \in Requests : ExtendedRow(requests[r], extensions[x]) \in RequestRow
    BY DEF ExtendedRow, TypeOK, RequestRow, ExtensionRow
  <2>2. requests' \in [Requests -> RequestRow]
    BY <1>1, <2>1 DEF ApproveExtension, WriteRequests, TypeOK
  <2>3. extensions' \in [Extensions -> ExtensionRow]
    BY <1>1 DEF ApproveExtension, TypeOK, ExtensionRow, ExtensionStatuses
  <2> QED BY <1>1, <2>2, <2>3 DEF ApproveExtension, TypeOK
<1>2. CASE RejectExtension(x)
  BY <1>2 DEF RejectExtension, TypeOK, ExtensionRow, ExtensionStatuses
<1> QED BY <1>1, <1>2

LEMMA InventoryServiceTypeOK == TypeOK /\ InventoryServiceStep => TypeOK'
<1> SUFFICES ASSUME TypeOK, NEW i \in Items,
                    \/ \E c \in Categories : CreateItem(i, c) \/ EditItem(i, c)
                    \/ \E status \in ManualStatuses : ChangeStatus(i, status)
             PROVE  TypeOK'
  BY DEF InventoryServiceStep
<1>1. ASSUME NEW c \in Categories, CreateItem(i, c) PROVE TypeOK'
  <2>1. NewItem(c) \in ItemRow
    BY DEF NewItem, ItemRow, DeviceStatuses
  <2>2. AppendedEvent(trail[i], "available") \in TrailRow
    BY DEF AppendedEvent, TypeOK, TrailRow, DeviceStatuses
  <2> QED BY <1>1, <2>1, <2>2 DEF CreateItem, TypeOK
<1>2. ASSUME NEW c \in Categories, EditItem(i, c) PROVE TypeOK'
  BY <1>2 DEF EditItem, TypeOK, ItemRow
<1>3. ASSUME NEW status \in ManualStatuses, ChangeStatus(i, status) PROVE TypeOK'
  <2>1. status \in DeviceStatuses
    BY StoreAssumption DEF ChangeableStatuses, DeviceStatuses
  <2>2. ChangedItem(items[i], status) \in ItemRow
    BY <2>1, ItemRowUpdates DEF TypeOK
  <2>3. Appended(trail[i], items[i].status, status) \in TrailRow
    BY <2>1, AppendedType DEF TypeOK
  <2> QED BY <1>3, <2>2, <2>3 DEF ChangeStatus, TypeOK
<1> QED BY <1>1, <1>2, <1>3

LEMMA UserServiceTypeOK == TypeOK /\ UserServiceStep => TypeOK'
BY DEF UserServiceStep, CreateUser, Deactivate, Activate, TypeOK, UserStates, Absent

LEMMA MobileAppTypeOK == TypeOK /\ MobileAppStep => TypeOK'
<1> SUFFICES ASSUME TypeOK, MobileAppStep PROVE TypeOK'
  OBVIOUS
<1>1. ASSUME NEW r \in Requests, NEW u \in Users, NEW c \in Categories,
             NEW route \in Routes, FileRequest(r, u, c, route)
      PROVE  TypeOK'
  <2>1. route[1] \in RequestStatuses /\ route[2] \in MgrApprovalStatuses
    BY StoreAssumption DEF FilingRoutes, RequestStatuses, MgrApprovalStatuses
  <2>2. [NoRequest EXCEPT !.status = route[1], !.mgr = route[2],
                          !.requester = u, !.category = c] \in RequestRow
    BY <2>1 DEF NoRequest, RequestRow
  <2> QED BY <1>1, <2>2 DEF FileRequest, WriteRequests, TypeOK
<1>2. ASSUME NEW r \in Requests, NEW approved \in BOOLEAN, ManagerDecides(r, approved)
      PROVE  TypeOK'
  <2>0. requests[r] \in RequestRow
    BY DEF TypeOK
  <2>1. [requests[r] EXCEPT !.status = "pending_it_approval", !.mgr = "approved"] \in RequestRow
    BY <2>0 DEF RequestRow, RequestStatuses, MgrApprovalStatuses
  <2>2. [requests[r] EXCEPT !.status = "rejected", !.mgr = "rejected"] \in RequestRow
    BY <2>0 DEF RequestRow, RequestStatuses, MgrApprovalStatuses
  <2>3. requests' \in [Requests -> RequestRow]
    BY <1>2, <2>1, <2>2 DEF ManagerDecides, WriteRequests, TypeOK
  <2> QED BY <1>2, <2>3 DEF ManagerDecides, TypeOK
<1>3. ASSUME NEW r \in Requests, InitiateReturn(r) PROVE TypeOK'
  <2>0. \A i \in Items :
          [items[i] EXCEPT !.status = "return_shipping_pending"] \in ItemRow
    BY DEF TypeOK, ItemRow, DeviceStatuses
  <2>1. items' \in [Items -> ItemRow]
    BY <1>3, <2>0 DEF InitiateReturn, TypeOK
  <2>2. trail' \in [Items -> TrailRow]
    BY <1>3 DEF InitiateReturn, AppendedEvent, TypeOK, TrailRow, DeviceStatuses
  <2> QED BY <1>3, <2>1, <2>2 DEF InitiateReturn, TypeOK
<1>4. ASSUME NEW r \in Requests, NEW t \in Tickets, NEW type \in TicketTypes,
             NEW tied \in TiedChoices, FileTicket(t, r, type, tied)
      PROVE  TypeOK'
  <2>1. [NoTicket EXCEPT !.status = "open", !.type = type, !.item = requests[r].item,
                         !.request = IF tied THEN r ELSE None] \in TicketRow
    BY StoreAssumption DEF NoTicket, TypeOK, RequestRow, TicketRow, SupportStatuses
  <2> QED BY <1>4, <2>1 DEF FileTicket, TypeOK
<1>5. ASSUME NEW r \in Requests, NEW x \in Extensions, NEW d \in Days,
             NEW mgr \in {"not_required", "pending"}, FileExtension(x, r, d, mgr)
      PROVE  TypeOK'
  BY <1>5 DEF FileExtension, TypeOK, ExtensionRow, ExtensionStatuses, MgrApprovalStatuses
<1>6. ASSUME NEW x \in Extensions, NEW approved \in BOOLEAN,
             ManagerDecidesExtension(x, approved)
      PROVE  TypeOK'
  <2>0. extensions[x] \in ExtensionRow
    BY DEF TypeOK
  <2>1. [extensions[x] EXCEPT !.mgr = "approved"] \in ExtensionRow
    BY <2>0 DEF ExtensionRow, MgrApprovalStatuses
  <2>2. [extensions[x] EXCEPT !.mgr = "rejected", !.status = "rejected"] \in ExtensionRow
    BY <2>0 DEF ExtensionRow, ExtensionStatuses, MgrApprovalStatuses
  <2>3. extensions' \in [Extensions -> ExtensionRow]
    BY <1>6, <2>1, <2>2 DEF ManagerDecidesExtension, TypeOK
  <2> QED BY <1>6, <2>3 DEF ManagerDecidesExtension, TypeOK
<1> QED BY <1>1, <1>2, <1>3, <1>4, <1>5, <1>6 DEF MobileAppStep

LEMMA NextTypeOK == TypeOK /\ [Next]_tables => TypeOK'
<1> SUFFICES ASSUME TypeOK, [Next]_tables PROVE TypeOK'
  OBVIOUS
<1>1. CASE UNCHANGED tables
  BY <1>1 DEF tables, TypeOK
<1> QED
  BY <1>1, RequestServiceTypeOK, AssignmentServiceTypeOK, ShippingServiceTypeOK,
     SupportServiceTypeOK, ExtensionServiceTypeOK, InventoryServiceTypeOK,
     UserServiceTypeOK, MobileAppTypeOK DEF Next

\* Every row every service ever writes is a row of the schema: enumerated
\* statuses, foreign keys that exist or are NULL, dates in the calendar.
THEOREM TypeCorrect == Spec => []TypeOK
BY InitTypeOK, NextTypeOK, PTL DEF Spec
=============================================================================
