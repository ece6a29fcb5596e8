----------------------------- MODULE AssetPilotProofs -----------------------------
(***************************************************************************)
(* AssetPilot implements Claims, and the safety properties that follow.    *)
(* Every step of every service does to the request table one of the few    *)
(* things RequestsMove lists; the invariants are then preserved by these.  *)
(***************************************************************************)
EXTENDS AssetPilotTypes

PendingStatuses == {"requested", "pending_mgr_approval", "pending_it_approval"}

HadDeviceStatuses == {"assigned", "completed", "cancelled"}

\* What a step does to the row it writes.
Moves(old, new) ==
  /\ IF Born(old) THEN new.requester = old.requester
                  ELSE new.requester \in Users /\ users[new.requester] = "active"
  /\ new.item \in {old.item} \cup Items
  /\ \/ /\ Born(old)
        /\ new.status = old.status
        /\ new.item = old.item
     \/ /\ old.status \in PendingStatuses \cup {Absent}
        /\ new.status \in PendingStatuses
        /\ new.item = old.item
     \/ /\ old.status \in PendingStatuses \cup {Absent}
        /\ new.status = "assigned"
        /\ new.item \in Items
     \/ /\ old.status \in HadDeviceStatuses
        /\ new.status = old.status
        /\ new.item \in Items
     \/ /\ old.status \notin HadDeviceStatuses \cup {Absent}
        /\ new.status = "rejected"
     \/ /\ Born(old)
        /\ new.status \in {"completed", "cancelled"}

RequestsMove ==
  \/ requests' = requests
  \/ /\ users' = users
     /\ UniqueActive(requests')
     /\ \E r \in Requests :
          /\ \A q \in Requests \ {r} : requests'[q] = requests[q]
          /\ Moves(requests[r], requests'[r])

TicketsMove ==
  \A t \in Tickets :
    \/ tickets'[t].request \in {None, tickets[t].request}
    \/ requests'[tickets'[t].request].status = "assigned"

\* The shape of the proofs below: a write of one row is a move of the table.
LEMMA OneRowMoves ==
  ASSUME TypeOK, NEW r \in Requests, NEW row, Moves(requests[r], row),
         users' = users, WriteRequests([requests EXCEPT ![r] = row])
  PROVE  RequestsMove
BY DEF TypeOK, WriteRequests, RequestsMove

LEMMA RequestServiceMoves == TypeOK /\ RequestServiceStep => RequestsMove
<1> SUFFICES ASSUME TypeOK, NEW r \in Requests,
                    RejectRequest(r) \/ CancelRequest(r) \/ EscalateToManager(r)
             PROVE  RequestsMove
  BY DEF RequestServiceStep
<1> requests[r] \in RequestRow
  BY DEF TypeOK
<1> USE DEF Moves, Born, Absent, PendingStatuses, HadDeviceStatuses, RequestRow
<1>1. CASE RejectRequest(r)
  <2>1. Moves(requests[r], RejectedRow(requests[r]))
    BY <1>1 DEF RejectRequest, Rejectable, RejectedRow
  <2> QED BY <1>1, <2>1, OneRowMoves DEF RejectRequest
<1>2. CASE CancelRequest(r)
  <2>1. Moves(requests[r], CancelledRow(requests[r]))
    BY <1>2 DEF CancelRequest, Cancellable, CancelledRow
  <2> QED BY <1>2, <2>1, OneRowMoves DEF CancelRequest
<1>3. CASE EscalateToManager(r)
  <2>1. Moves(requests[r], EscalatedRow(requests[r]))
    BY <1>3 DEF EscalateToManager, Escalatable, EscalatedRow
  <2> QED BY <1>3, <2>1, OneRowMoves DEF EscalateToManager
<1> QED BY <1>1, <1>2, <1>3

LEMMA AssignmentServiceMoves == TypeOK /\ AssignmentServiceStep => RequestsMove
<1> SUFFICES ASSUME TypeOK, NEW r \in Requests, NEW range \in BookingRange,
                    \/ UpdateBookingRange(r, range)
                    \/ \E i \in Items, wfh \in WfhChoices : Assign(r, i, range, wfh)
                    \/ \E i \in Items, u \in Users : DirectAssign(r, i, u, range)
             PROVE  RequestsMove
  BY DEF AssignmentServiceStep
<1> requests[r] \in RequestRow
  BY DEF TypeOK
<1> USE DEF Moves, Born, Absent, PendingStatuses, HadDeviceStatuses, RequestRow
<1>1. CASE UpdateBookingRange(r, range)
  <2>1. Moves(requests[r], RebookedRow(requests[r], range))
    BY <1>1 DEF UpdateBookingRange, RangeAdjustable, RebookedRow
  <2> QED BY <1>1, <2>1, OneRowMoves DEF UpdateBookingRange
<1>2. ASSUME NEW i \in Items, NEW wfh \in WfhChoices, Assign(r, i, range, wfh)
      PROVE  RequestsMove
  <2>1. Moves(requests[r], AssignedRow(requests[r], i, range, wfh))
    BY <1>2 DEF Assign, Assignable, AssignedRow
  <2> QED BY <1>2, <2>1, OneRowMoves DEF Assign
<1>3. ASSUME NEW i \in Items, NEW u \in Users, DirectAssign(r, i, u, range)
      PROVE  RequestsMove
  <2>1. Moves(requests[r], DirectRow(u, i, range))
    BY <1>3 DEF DirectAssign, DirectRow, NoRequest
  <2> QED BY <1>3, <2>1, OneRowMoves DEF DirectAssign
<1> QED BY <1>1, <1>2, <1>3

LEMMA ShippingServiceMoves == TypeOK /\ ShippingServiceStep => RequestsMove
<1> SUFFICES ASSUME TypeOK, NEW r \in Requests,
                    \/ Ship(r)
                    \/ ConfirmDelivery(r)
                    \/ \E next \in ReturnNextStatuses : CompleteReturn(r, next)
             PROVE  RequestsMove
  BY DEF ShippingServiceStep
<1> requests[r] \in RequestRow
  BY DEF TypeOK
<1> USE DEF Moves, Born, RequestRow, HasDevice
<1>1. CASE Ship(r)
  <2>1. Moves(requests[r], ShipRow(requests[r]))
    BY <1>1 DEF Ship, ShipRow
  <2> QED BY <1>1, <2>1, OneRowMoves DEF Ship
<1>2. CASE ConfirmDelivery(r)
  <2>1. Moves(requests[r], DeliveredRow(requests[r]))
    BY <1>2 DEF ConfirmDelivery, DeliveredRow
  <2> QED BY <1>2, <2>1, OneRowMoves DEF ConfirmDelivery
<1>3. ASSUME NEW next \in ReturnNextStatuses, CompleteReturn(r, next)
      PROVE  RequestsMove
  <2>1. Moves(requests[r], CompletedRow(requests[r]))
    BY <1>3 DEF CompleteReturn, CompletedRow
  <2> QED BY <1>3, <2>1, OneRowMoves DEF CompleteReturn
<1> QED BY <1>1, <1>2, <1>3

\* Here the invariant is needed: a swap writes the device of the request its
\* ticket names, and a loss completes it, without looking at its status.
LEMMA SupportServiceMoves == ClaimInvariant /\ SupportServiceStep => RequestsMove
<1> SUFFICES ASSUME ClaimInvariant, NEW t \in Tickets,
                    \/ Start(t)
                    \/ ResolveRemotely(t)
                    \/ RepairInPlace(t)
                    \/ \E new \in Items, next \in SwapOutStatuses : Swap(t, new, next)
                    \/ MarkLost(t)
             PROVE  RequestsMove
  BY DEF SupportServiceStep
<1> DEFINE r == tickets[t].request
<1>1. TypeOK
  BY DEF ClaimInvariant
<1>2. ASSUME r # None
      PROVE  /\ r \in Requests
             /\ requests[r] \in RequestRow
             /\ requests[r].status \in HadDeviceStatuses
  BY <1>2 DEF ClaimInvariant, TypeOK, TicketRow, TiedRequestHadDevice, HadDeviceStatuses
<1>3. CASE Start(t) \/ ResolveRemotely(t) \/ RepairInPlace(t)
  BY <1>3 DEF Start, ResolveRemotely, RepairInPlace, RequestsMove
<1>4. ASSUME NEW new \in Items, NEW next \in SwapOutStatuses, Swap(t, new, next)
      PROVE  RequestsMove
  <2>1. r # None
    BY <1>4 DEF Swap
  <2>2. Moves(requests[r], RepointedRow(requests[r], new))
    BY <1>2, <2>1 DEF RepointedRow, Moves, Born, Absent, HadDeviceStatuses, RequestRow
  <2> QED BY <1>1, <1>2, <1>4, <2>1, <2>2, OneRowMoves DEF Swap
<1>5. CASE MarkLost(t)
  <2>1. r # None
    BY <1>5 DEF MarkLost
  <2>2. Moves(requests[r], LostRow(requests[r]))
    BY <1>2, <2>1 DEF LostRow, Moves, Born, Absent, HadDeviceStatuses, RequestRow
  <2> QED BY <1>1, <1>2, <1>5, <2>1, <2>2, OneRowMoves DEF MarkLost
<1> QED BY <1>3, <1>4, <1>5

\* The asserts of the extension decisions are guards; they keep NULL away.
LEMMA ExtensionServiceMoves == ClaimInvariant /\ ExtensionServiceStep => RequestsMove
<1> SUFFICES ASSUME ClaimInvariant, NEW x \in Extensions,
                    ApproveExtension(x) \/ RejectExtension(x)
             PROVE  RequestsMove
  BY DEF ExtensionServiceStep
<1> DEFINE r == extensions[x].request
<1>1. TypeOK
  BY DEF ClaimInvariant
<1>2. CASE ApproveExtension(x)
  <2>1. CASE r \in Requests /\ Born(requests[r])
    <3>1. Moves(requests[r], ExtendedRow(requests[r], extensions[x]))
      BY <1>1, <2>1 DEF TypeOK, ExtendedRow, Moves, RequestRow, Born
    <3> QED BY <1>1, <1>2, <2>1, <3>1, OneRowMoves DEF ApproveExtension
  <2>2. CASE r \in Requests /\ ~Born(requests[r])
    BY <1>2, <2>2 DEF ClaimInvariant, ApproveExtension, Born, Absent, Terminal, TerminalStatuses
  <2>3. CASE r \notin Requests
    BY <1>1, <1>2, <2>3 DEF ApproveExtension, WriteRequests, RequestsMove, TypeOK
  <2> QED BY <2>1, <2>2, <2>3
<1>3. CASE RejectExtension(x)
  BY <1>3 DEF RejectExtension, RequestsMove
<1> QED BY <1>2, <1>3

LEMMA MobileAppMoves == ClaimInvariant /\ MobileAppStep => RequestsMove
<1> SUFFICES ASSUME ClaimInvariant, MobileAppStep PROVE RequestsMove
  OBVIOUS
<1> TypeOK
  BY DEF ClaimInvariant
<1> USE DEF Moves, Born, Absent, PendingStatuses, HadDeviceStatuses, RequestRow
<1>1. ASSUME NEW r \in Requests, NEW u \in Users, NEW c \in Categories,
             NEW route \in Routes, FileRequest(r, u, c, route)
      PROVE  RequestsMove
  <2> DEFINE row == [NoRequest EXCEPT !.status = route[1], !.mgr = route[2],
                                      !.requester = u, !.category = c]
  <2>1. route[1] \in PendingStatuses
    BY StoreAssumption DEF FilingRoutes
  <2>2. requests[r].status = Absent /\ requests[r].item = None
    BY <1>1 DEF FileRequest, ClaimInvariant, Terminal, TerminalStatuses
  <2>3. Moves(requests[r], row)
    BY <1>1, <2>1, <2>2 DEF FileRequest, NoRequest
  <2>4. WriteRequests([requests EXCEPT ![r] = row])
    BY <1>1 DEF FileRequest, NoRequest
  <2> QED BY <1>1, <2>3, <2>4, OneRowMoves DEF FileRequest
<1>2. ASSUME NEW r \in Requests, NEW approved \in BOOLEAN, ManagerDecides(r, approved)
      PROVE  RequestsMove
  <2> DEFINE row == IF approved
                      THEN [requests[r] EXCEPT !.status = "pending_it_approval", !.mgr = "approved"]
                      ELSE [requests[r] EXCEPT !.status = "rejected", !.mgr = "rejected"]
  <2>1. requests[r] \in RequestRow
    BY DEF TypeOK
  <2>2. Moves(requests[r], row)
    BY <1>2, <2>1 DEF ManagerDecides
  <2>3. WriteRequests([requests EXCEPT ![r] = row])
    BY <1>2 DEF ManagerDecides
  <2> QED BY <1>2, <2>2, <2>3, OneRowMoves DEF ManagerDecides
<1>3. ASSUME requests' = requests PROVE RequestsMove
  BY <1>3 DEF RequestsMove
<1> QED BY <1>1, <1>2, <1>3 DEF MobileAppStep, InitiateReturn, FileTicket, FileExtension,
                                ManagerDecidesExtension

LEMMA NextMovesRequests == ClaimInvariant /\ [Next]_tables => RequestsMove
<1> SUFFICES ASSUME ClaimInvariant, [Next]_tables PROVE RequestsMove
  OBVIOUS
<1>1. TypeOK
  BY DEF ClaimInvariant
<1>2. CASE InventoryServiceStep \/ UserServiceStep \/ UNCHANGED tables
  BY <1>2 DEF InventoryServiceStep, CreateItem, EditItem, ChangeStatus, UserServiceStep,
              CreateUser, Deactivate, Activate, tables, RequestsMove
<1> QED
  BY <1>1, <1>2, RequestServiceMoves, AssignmentServiceMoves, ShippingServiceMoves,
     SupportServiceMoves, ExtensionServiceMoves, MobileAppMoves DEF Next

\* A ticket keeps the request it was filed with; it is filed with an assigned one.
LEMMA NextMovesTickets == TypeOK /\ [Next]_tables => TicketsMove
<1> SUFFICES ASSUME TypeOK, [Next]_tables, NEW s \in Tickets
             PROVE  \/ tickets'[s].request \in {None, tickets[s].request}
                    \/ requests'[tickets'[s].request].status = "assigned"
  BY DEF TicketsMove
<1>1. tickets \in [Tickets -> TicketRow]
  BY DEF TypeOK
<1>2. CASE \/ RequestServiceStep \/ AssignmentServiceStep \/ ExtensionServiceStep
           \/ InventoryServiceStep \/ UserServiceStep \/ UNCHANGED tables
  <2>1. tickets' = tickets
    BY <1>2 DEF RequestServiceStep, RejectRequest, CancelRequest, EscalateToManager,
       AssignmentServiceStep, UpdateBookingRange, Assign, DirectAssign, ExtensionServiceStep,
       ApproveExtension, RejectExtension, InventoryServiceStep, CreateItem, EditItem,
       ChangeStatus, UserServiceStep, CreateUser, Deactivate, Activate, tables
  <2> QED BY <2>1
<1>3. CASE ShippingServiceStep
  <2>1. ASSUME NEW r \in Requests, NEW next \in ReturnNextStatuses, CompleteReturn(r, next)
        PROVE  tickets'[s].request = tickets[s].request
    BY <1>1, <2>1 DEF CompleteReturn, AutoCloseOpenSupport, AutoClosed, TicketRow
  <2> QED BY <1>3, <2>1 DEF ShippingServiceStep, Ship, ConfirmDelivery
<1>4. CASE SupportServiceStep
  <2>1. PICK t \in Tickets :
          \/ Start(t) \/ ResolveRemotely(t) \/ RepairInPlace(t) \/ MarkLost(t)
          \/ \E new \in Items, next \in SwapOutStatuses : Swap(t, new, next)
    BY <1>4 DEF SupportServiceStep
  <2>2. \A resolution, new :
          Close(t, resolution, new) => tickets'[s].request = tickets[s].request
    BY <1>1 DEF Close, ResolvedRow, TicketRow
  <2>3. CASE Start(t)
    BY <1>1, <2>3 DEF Start, StartedRow, TicketRow
  <2> QED BY <2>1, <2>2, <2>3 DEF ResolveRemotely, RepairInPlace, MarkLost, Swap
<1>5. CASE MobileAppStep
  <2>1. ASSUME NEW t \in Tickets, NEW r \in Requests, NEW type \in TicketTypes,
               NEW tied \in TiedChoices, FileTicket(t, r, type, tied)
        PROVE  \/ tickets'[s].request \in {None, tickets[s].request}
               \/ requests'[tickets'[s].request].status = "assigned"
    BY <1>1, <2>1 DEF FileTicket, NoTicket
  <2>2. CASE tickets' = tickets
    BY <2>2
  <2> QED BY <1>5, <2>1, <2>2 DEF MobileAppStep, FileRequest, ManagerDecides, InitiateReturn,
                                  FileExtension, ManagerDecidesExtension
<1> QED BY <1>2, <1>3, <1>4, <1>5 DEF Next

LEMMA InitClaims == Init => ClaimInvariant
<1> SUFFICES ASSUME Init PROVE ClaimInvariant
  OBVIOUS
<1> USE DEF Init, TablesInit, NoRequest, NoTicket, Absent
<1>1. TypeOK
  BY InitTypeOK
<1>2. UniqueActive(requests)
  BY DEF UniqueActive
<1>3. TiedRequestHadDevice
  BY DEF TiedRequestHadDevice
<1> QED BY <1>1, <1>2, <1>3 DEF ClaimInvariant

LEMMA NextClaims == ClaimInvariant /\ [Next]_tables => ClaimInvariant'
<1> SUFFICES ASSUME ClaimInvariant, [Next]_tables PROVE ClaimInvariant'
  OBVIOUS
<1>1. TypeOK /\ TypeOK'
  BY NextTypeOK DEF ClaimInvariant
<1>2. RequestsMove
  BY NextMovesRequests
<1>3. \A r \in Requests :
        ~Terminal(requests'[r]) =>
          (requests'[r].status = "assigned" <=> requests'[r].item # None)
  <2>1. ASSUME NEW r \in Requests, Moves(requests[r], requests'[r]), ~Terminal(requests'[r])
        PROVE  requests'[r].status = "assigned" <=> requests'[r].item # None
    BY <2>1, StoreAssumption DEF ClaimInvariant, Moves, Terminal, TerminalStatuses, Born, Absent,
       PendingStatuses, HadDeviceStatuses
  <2> QED BY <1>2, <2>1 DEF RequestsMove, ClaimInvariant
<1>4. UniqueActive(requests')
  BY <1>2 DEF RequestsMove, ClaimInvariant
<1>5. TiedRequestHadDevice'
  <2> SUFFICES ASSUME NEW t \in Tickets, tickets'[t].request # None
               PROVE  requests'[tickets'[t].request].status \in HadDeviceStatuses
    BY DEF TiedRequestHadDevice, HadDeviceStatuses
  <2> DEFINE r == tickets'[t].request
  <2>1. r \in Requests
    BY <1>1 DEF TypeOK, TicketRow
  <2>2. CASE requests'[r].status = "assigned"
    BY <2>2 DEF HadDeviceStatuses
  <2>3. CASE r = tickets[t].request
    <3>1. requests[r].status \in HadDeviceStatuses
      BY <2>3 DEF ClaimInvariant, TiedRequestHadDevice, HadDeviceStatuses
    <3> QED BY <1>2, <2>1, <3>1 DEF RequestsMove, Moves, HadDeviceStatuses, PendingStatuses, Absent
  <2> QED BY <1>1, <2>2, <2>3, NextMovesTickets DEF TicketsMove
<1> QED BY <1>1, <1>3, <1>4, <1>5 DEF ClaimInvariant

\* Only assigned requests among those not over have a device, no two of them
\* the same one, and tickets lead only to requests that have had a device.
THEOREM ClaimsAreKept == Spec => []ClaimInvariant
BY InitClaims, NextClaims, PTL DEF Spec

\* The hard constraint of PROJECT.md: whatever the services, the employees
\* and IT do, in any order, no two active requests claim the same device.
THEOREM OneClaimPerDevice == Spec => []OneActiveClaim
<1>1. ClaimInvariant => OneActiveClaim
  BY DEF ClaimInvariant, OneActiveClaim, UniqueActive
<1> QED BY <1>1, ClaimsAreKept, PTL

LEMMA NextKeepsEnd ==
  ClaimInvariant /\ [Next]_tables
    => [\A r \in Requests : Terminal(requests[r]) => Terminal(requests'[r])]_tables
<1> SUFFICES ASSUME ClaimInvariant, [Next]_tables, NEW r \in Requests, Terminal(requests[r])
             PROVE  Terminal(requests'[r])
  OBVIOUS
<1> QED BY NextMovesRequests DEF RequestsMove, Moves, Terminal, TerminalStatuses, Born, Absent,
           PendingStatuses, HadDeviceStatuses

\* A decision that ends a request stands: nothing reopens it.
THEOREM EndIsFinal == Spec => TerminalNeverReopens
<1> QED BY NextKeepsEnd, ClaimsAreKept, PTL DEF Spec, TerminalNeverReopens

-----------------------------------------------------------------------------
(* The refinement: every move is a step of Claims or none.                 *)

\* The unique index compares rows of one status only; that is enough, since
\* assigned is the only status in which a claim exists.
LEMMA MoveIsClaimStep ==
  ASSUME ClaimInvariant, ClaimInvariant', NEW r \in Requests,
         \A q \in Requests \ {r} : requests'[q] = requests[q],
         Moves(requests[r], requests'[r])
  PROVE  [ClaimsOf!Next]_ClaimsOf!claims
<1> DEFINE ph == [q \in Requests |-> Phase(requests[q])]
           dv == [q \in Requests |-> ClaimedDevice(requests[q])]
           old == requests[r]
           new == requests'[r]
<1>1. /\ ph' = [ph EXCEPT ![r] = Phase(new)]
      /\ dv' = [dv EXCEPT ![r] = ClaimedDevice(new)]
  OBVIOUS
<1>2. ASSUME new.status = "assigned"
      PROVE  \A q \in Requests \ {r} : dv[q] # new.item
  BY <1>2, StoreAssumption
     DEF ClaimInvariant, UniqueActive, ClaimedDevice, Terminal, TerminalStatuses
<1>8. /\ ClaimsOf!File(r) \/ ClaimsOf!End(r) => ClaimsOf!Next
      /\ \A i \in Items : ClaimsOf!Grant(r, i) \/ ClaimsOf!Replace(r, i) => ClaimsOf!Next
  BY DEF ClaimsOf!Next
<1> USE DEF Phase, ClaimedDevice, Born, Absent, Terminal, TerminalStatuses, PendingStatuses,
            HadDeviceStatuses
<1>3. CASE Phase(new) = Phase(old) /\ ClaimedDevice(new) = ClaimedDevice(old)
  BY <1>1, <1>3 DEF ClaimsOf!claims
<1>4. CASE Phase(old) = "unfiled" /\ Phase(new) = "waiting"
  <2>1. ClaimsOf!File(r)
    BY <1>1, <1>4 DEF ClaimsOf!File
  <2> QED BY <1>8, <2>1
<1>5. CASE Phase(old) \in {"unfiled", "waiting"} /\ new.status = "assigned" /\ new.item \in Items
  <2>1. PICK i \in Items : i = new.item
    BY <1>5
  <2>2. ClaimsOf!Grant(r, i)
    BY <1>1, <1>2, <1>5, <2>1 DEF ClaimsOf!Grant, ClaimsOf!Unclaimed
  <2> QED BY <1>8, <2>2
<1>6. CASE old.status = "assigned" /\ new.status = "assigned" /\ new.item \in Items
  <2>1. PICK i \in Items : i = new.item
    BY <1>6
  <2>2. ClaimsOf!Replace(r, i)
    BY <1>1, <1>2, <1>6, <2>1 DEF ClaimsOf!Replace, ClaimsOf!Unclaimed
  <2> QED BY <1>8, <2>2
<1>7. CASE Phase(old) \in {"waiting", "held"} /\ Phase(new) = "over"
  <2>1. ClaimsOf!End(r)
    BY <1>1, <1>7 DEF ClaimsOf!End
  <2> QED BY <1>8, <2>1
<1> QED BY <1>3, <1>4, <1>5, <1>6, <1>7 DEF Moves

LEMMA StepIsClaimStep ==
  ClaimInvariant /\ ClaimInvariant' /\ [Next]_tables => [ClaimsOf!Next]_ClaimsOf!claims
<1> SUFFICES ASSUME ClaimInvariant, ClaimInvariant', [Next]_tables
             PROVE  [ClaimsOf!Next]_ClaimsOf!claims
  OBVIOUS
<1>1. CASE requests' = requests
  BY <1>1 DEF ClaimsOf!claims
<1> QED BY <1>1, NextMovesRequests, MoveIsClaimStep DEF RequestsMove

\* The services together implement the abstract Claims.
THEOREM Refinement == Spec => ImplementsClaims
<1>1. Init => ClaimsOf!Init
  <2> SUFFICES ASSUME Init PROVE ClaimsOf!Init
    OBVIOUS
  <2>1. \A r \in Requests : Phase(requests[r]) = "unfiled" /\ ClaimedDevice(requests[r]) = None
    BY DEF Init, TablesInit, NoRequest, Absent, Phase, ClaimedDevice, Born, Terminal,
           TerminalStatuses
  <2> QED BY <2>1 DEF ClaimsOf!Init
<1> QED BY <1>1, StepIsClaimStep, ClaimsAreKept, PTL DEF Spec, ImplementsClaims, ClaimsOf!Spec

-----------------------------------------------------------------------------
(* Users.                                                                  *)

UsersMove ==
  \/ users' = users
  \/ /\ requests' = requests
     /\ \E u \in Users :
          \/ users' = [users EXCEPT ![u] = "active"]
          \/ users' = [users EXCEPT ![u] = "inactive"] /\ ~HasActiveDevicesOrRequests(u)

LEMMA NextMovesUsers == [Next]_tables => UsersMove
<1>1. UserServiceStep => UsersMove
  BY DEF UserServiceStep, CreateUser, Deactivate, Activate, UsersMove
<1>2. RequestServiceStep \/ AssignmentServiceStep \/ ShippingServiceStep => users' = users
  BY DEF RequestServiceStep, RejectRequest, CancelRequest, EscalateToManager,
     AssignmentServiceStep, UpdateBookingRange, Assign, DirectAssign, ShippingServiceStep,
     Ship, ConfirmDelivery, CompleteReturn
<1>3. SupportServiceStep \/ ExtensionServiceStep \/ InventoryServiceStep => users' = users
  BY DEF SupportServiceStep, Start, ResolveRemotely, RepairInPlace, Swap, MarkLost,
     ExtensionServiceStep, ApproveExtension, RejectExtension, InventoryServiceStep,
     CreateItem, EditItem, ChangeStatus
<1>4. MobileAppStep => users' = users
  BY DEF MobileAppStep, FileRequest, ManagerDecides, InitiateReturn, FileTicket,
     FileExtension, ManagerDecidesExtension
<1> QED BY <1>1, <1>2, <1>3, <1>4 DEF Next, tables, UsersMove

LEMMA NextKeepsInactiveClosed ==
  ClaimInvariant /\ InactiveHasNoOpenRequest /\ [Next]_tables => InactiveHasNoOpenRequest'
<1> SUFFICES ASSUME ClaimInvariant, InactiveHasNoOpenRequest, [Next]_tables,
                    NEW u \in Users, NEW r \in Requests,
                    users'[u] = "inactive", requests'[r].requester = u
             PROVE  Terminal(requests'[r])
  BY DEF InactiveHasNoOpenRequest
<1>1. users \in [Users -> UserStates]
  BY DEF ClaimInvariant, TypeOK
<1>2. CASE users' = users
  <2>1. CASE requests'[r] = requests[r]
    BY <1>2, <2>1 DEF InactiveHasNoOpenRequest
  <2>2. CASE Moves(requests[r], requests'[r])
    BY <1>2, <2>2 DEF InactiveHasNoOpenRequest, Moves, Terminal, TerminalStatuses, Born,
       Absent, PendingStatuses, HadDeviceStatuses
  <2> QED BY <2>1, <2>2, NextMovesRequests DEF RequestsMove
<1>3. CASE requests' = requests /\ users' # users
  <2>1. PICK v \in Users :
          \/ users' = [users EXCEPT ![v] = "active"]
          \/ users' = [users EXCEPT ![v] = "inactive"] /\ ~HasActiveDevicesOrRequests(v)
    BY <1>3, NextMovesUsers DEF UsersMove
  <2>2. CASE v = u
    BY <1>1, <1>3, <2>1, <2>2 DEF HasActiveDevicesOrRequests
  <2>3. CASE v # u
    BY <1>1, <1>3, <2>1, <2>3 DEF InactiveHasNoOpenRequest
  <2> QED BY <2>2, <2>3
<1> QED BY <1>2, <1>3, NextMovesUsers DEF UsersMove

\* The check of deactivate outlives it: requests are born with an active
\* requester, keep the requester, and do not come back once over.
THEOREM InactiveHaveNoOpenRequests == Spec => []InactiveHasNoOpenRequest
<1>1. Init => InactiveHasNoOpenRequest
  BY DEF Init, TablesInit, InactiveHasNoOpenRequest, Absent
<1> QED BY <1>1, NextKeepsInactiveClosed, ClaimsAreKept, PTL DEF Spec
=============================================================================
