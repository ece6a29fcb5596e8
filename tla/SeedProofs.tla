-------------------------------- MODULE SeedProofs --------------------------------
(***************************************************************************)
(* The seeded database satisfies ClaimInvariant, so that everything proved *)
(* from it holds of the API on a seeded database as well.                  *)
(***************************************************************************)
EXTENDS Seed, CustodyProofs

LEMMA BookingRangeDays ==
  ASSUME NEW range \in BookingRange
  PROVE  range[1] \in Days /\ range[2] \in Days
BY DEF BookingRange

\* The rows of the script are rows of the table.
LEMMA SeedRowType ==
  ASSUME NEW u \in Users, NEW c \in Categories, NEW status \in RequestStatuses,
         NEW mgr \in MgrApprovalStatuses
  PROVE  SeedRow(u, c, <<status, mgr>>) \in RequestRow
BY DEF SeedRow, NoRequest, RequestRow, MgrApprovalStatuses

LEMMA LoanRowType ==
  ASSUME NEW u \in Users, NEW c \in Categories, NEW status \in RequestStatuses,
         NEW mgr \in MgrApprovalStatuses, NEW i \in Items, NEW range \in BookingRange,
         NEW leg \in Legs
  PROVE  LoanRow(u, c, <<status, mgr>>, i, range, leg) \in RequestRow
BY BookingRangeDays DEF LoanRow, SeedRow, NoRequest, RequestRow, MgrApprovalStatuses

\* What the proofs use of a request row of the script.
LEMMA SeedRequestShape ==
  ASSUME NEW req \in SeedRequests
  PROVE  /\ req \in RequestRow
         /\ ~Terminal(req) => (req.status = "assigned" <=> req.item # None)
         /\ Born(req) <=> req.requester \in Users
         /\ Born(req) => req.category \in Categories
         /\ req.status \in {"assigned", "completed"} => req.item \in Items
<1> USE StoreAssumption
<1>1. CASE req = NoRequest
  BY <1>1 DEF NoRequest, RequestRow, Absent, Terminal, TerminalStatuses, Born, MgrApprovalStatuses
<1>2. CASE req \in QueueRows \cup DeniedRows
  <2>1. PICK u \in Users, c \in Categories, route \in QueueRoutes \cup DeniedRoutes :
               req = SeedRow(u, c, route)
    BY <1>2 DEF QueueRows, DeniedRows
  <2>2. PICK status \in RequestStatuses, mgr \in MgrApprovalStatuses :
          /\ route = <<status, mgr>>
          /\ status \notin {"assigned", "completed"}
    BY <2>1 DEF QueueRoutes, DeniedRoutes, RequestStatuses, MgrApprovalStatuses
  <2>3. req \in RequestRow
    BY <2>1, <2>2, SeedRowType
  <2>4. /\ req.status = status
        /\ req.item = None
        /\ req.requester = u
        /\ req.category = c
    BY <2>1, <2>2 DEF SeedRow, NoRequest
  <2>5. Born(req)
    BY <2>4 DEF Born, Absent, RequestStatuses
  <2> QED
    BY <2>2, <2>3, <2>4, <2>5
<1>3. CASE req \in PastRows \cup OfficeRows \cup MailedRows \cup ClientRows
  <2>1. PICK u \in Users, c \in Categories, status \in {"assigned", "completed"},
             mgr \in {"approved", "not_required"}, i \in Items, range \in BookingRange,
             leg \in Legs :
               req = LoanRow(u, c, <<status, mgr>>, i, range, leg)
    <3>1. CASE req \in PastRows
      BY <3>1 DEF PastRows, Legs
    <3>2. CASE req \in OfficeRows
      BY <3>2 DEF OfficeRows, Legs
    <3>3. CASE req \in MailedRows
      BY <3>3 DEF MailedRows, Legs
    <3>4. CASE req \in ClientRows
      BY <3>4 DEF ClientRows, Legs
    <3> QED
      BY <1>3, <3>1, <3>2, <3>3, <3>4
  <2>2. req \in RequestRow
    BY <2>1, LoanRowType DEF RequestStatuses, MgrApprovalStatuses
  <2>3. /\ req.status = status
        /\ req.item = i
        /\ req.requester = u
        /\ req.category = c
    BY <2>1 DEF LoanRow, SeedRow, NoRequest
  <2> QED
    BY <2>2, <2>3 DEF Terminal, TerminalStatuses, Born, Absent
<1> QED
  BY <1>1, <1>2, <1>3 DEF SeedRequests

\* Two requests of the slice never claim one device.
LEMMA SeedClaimsUnique == SeedInit => UniqueActive(requests)
<1> SUFFICES ASSUME SeedInit, NEW r1 \in Requests, NEW r2 \in Requests, r1 # r2,
                    ~Terminal(requests[r1]), requests[r1].item # None,
                    requests[r1].item = requests[r2].item,
                    requests[r1].status = requests[r2].status
             PROVE  FALSE
  BY DEF UniqueActive
<1>1. requests[r1] \in SeedRequests
  BY DEF SeedInit
<1>2. requests[r1].status = "assigned"
  BY <1>1, SeedRequestShape
<1> QED
  BY <1>2 DEF SeedInit

-----------------------------------------------------------------------------
(* The other tables refer to rows the slice has.                           *)

LEMMA SeedItemType ==
  ASSUME requests \in [Requests -> SeedRequests], NEW i \in Items
  PROVE  SeedItem(i) \subseteq ItemRow
<1>1. CASE Lent(i)
  <2>1. Borrower(i) \in Requests /\ requests[Borrower(i)].status = "assigned"
    BY <1>1 DEF Lent, Borrower
  <2>2. requests[Borrower(i)] \in SeedRequests
    BY <2>1
  <2>3. /\ requests[Borrower(i)].requester \in Users
        /\ requests[Borrower(i)].category \in Categories
    BY <2>1, <2>2, SeedRequestShape DEF Born, Absent
  <2>4. LentStatuses(requests[Borrower(i)]) \subseteq DeviceStatuses
    BY DEF LentStatuses, DeviceStatuses
  <2> QED BY <1>1, <2>3, <2>4 DEF SeedItem, ItemRow
<1>2. CASE ~Lent(i)
  BY <1>2, SeedAssumption DEF SeedItem, ItemRow, SpareStatuses, DeviceStatuses
<1> QED BY <1>1, <1>2

\* A ticket of the script is on a device, and on a request only if that has
\* had one.
TicketShape(ticket) ==
  /\ ticket \in TicketRow
  /\ Born(ticket) => ticket.item \in Items
  /\ ticket.request # None => requests[ticket.request].status \in {"assigned", "completed"}

LEMMA LoanHasItem ==
  ASSUME requests \in [Requests -> SeedRequests], NEW r \in Requests,
         requests[r].status \in {"assigned", "completed"}
  PROVE  requests[r].item \in Items
BY SeedRequestShape

LEMMA SeedTicketShape ==
  ASSUME requests \in [Requests -> SeedRequests], NEW ticket \in SeedTickets
  PROVE  TicketShape(ticket)
<1> USE DEF TicketShape, TicketRow, NoTicket, SupportStatuses, SupportTypes, SupportResolutions
<1>1. CASE ticket = NoTicket
  BY <1>1 DEF Born
<1>2. CASE ticket \in LossTickets
  BY <1>2 DEF LossTickets
<1>3. ASSUME NEW r \in Requests, AtDesk(r), ticket \in DeskTickets(r)
      PROVE  TicketShape(ticket)
  <2>1. requests[r].item \in Items /\ requests[r].status = "assigned"
    BY <1>3, LoanHasItem DEF AtDesk
  <2> QED BY <1>3, <2>1 DEF DeskTickets
<1>4. ASSUME NEW r \in Requests, InUse(r), ticket \in SwappedTickets(r)
      PROVE  TicketShape(ticket)
  <2>1. requests[r].item \in Items /\ requests[r].status = "assigned"
    BY <1>4, LoanHasItem DEF InUse, AtDesk
  <2> QED BY <1>4, <2>1 DEF SwappedTickets
<1>5. ASSUME NEW r \in Requests, requests[r].status = "completed", ticket \in AutoClosedTickets(r)
      PROVE  TicketShape(ticket)
  <2>1. requests[r].item \in Items
    BY <1>5, LoanHasItem
  <2>2. ticket = [status |-> "resolved", type |-> "update", item |-> requests[r].item,
                  request |-> r, resolution |-> "remote_resolved", swapped_to |-> None,
                  auto_closed |-> TRUE]
    BY <1>5 DEF AutoClosedTickets
  <2>3. ticket \in TicketRow /\ ticket.item \in Items
    BY <2>1, <2>2
  <2>4. requests[ticket.request].status = "completed"
    BY <1>5, <2>2
  <2> QED BY <2>3, <2>4
<1> QED BY <1>1, <1>2, <1>3, <1>4, <1>5 DEF SeedTickets

LEMMA OpenAtDesk ==
  ASSUME NEW ticket \in SeedTickets, ticket # NoTicket, ticket.status # "resolved"
  PROVE  \E r \in Requests : AtDesk(r) /\ ticket \in DeskTickets(r)
<1>1. ticket \notin LossTickets
  BY DEF LossTickets, NoTicket
<1>2. \A r \in Requests : ticket \notin SwappedTickets(r)
  BY DEF SwappedTickets, NoTicket
<1>3. \A r \in Requests : ticket \notin AutoClosedTickets(r)
  BY DEF AutoClosedTickets, NoTicket
<1> QED BY <1>1, <1>2, <1>3 DEF SeedTickets

LEMMA SeedExtensionType ==
  ASSUME requests \in [Requests -> SeedRequests]
  PROVE  SeedExtensions \subseteq ExtensionRow
<1> SUFFICES ASSUME NEW x \in SeedExtensions PROVE x \in ExtensionRow
  OBVIOUS
<1> USE DEF ExtensionRow, ExtensionStatuses, MgrApprovalStatuses
<1>1. CASE x = NoExtension
  BY <1>1 DEF NoExtension
<1>2. ASSUME NEW r \in Requests,
             x = [status |-> "approved", request |-> r, extended_to |-> requests[r].to,
                  mgr |-> "approved"]
      PROVE  x \in ExtensionRow
  <2>1. requests[r] \in RequestRow
    BY SeedRequestShape
  <2> QED BY <1>2, <2>1 DEF RequestRow
<1>3. ASSUME NEW r \in Requests, NEW d \in Days,
             NEW decision \in {<<"pending", "not_required">>, <<"rejected", "approved">>},
             x = [status |-> decision[1], request |-> r, extended_to |-> d, mgr |-> decision[2]]
      PROVE  x \in ExtensionRow
  BY <1>3
<1> QED BY <1>1, <1>2, <1>3 DEF SeedExtensions

LEMMA SeedTypeOK == SeedInit => TypeOK
<1> SUFFICES ASSUME SeedInit PROVE TypeOK
  OBVIOUS
<1>1. requests \in [Requests -> SeedRequests]
  BY DEF SeedInit
<1>2. requests \in [Requests -> RequestRow]
  BY <1>1, SeedRequestShape
<1>3. items \in [Items -> ItemRow]
  BY <1>1, SeedItemType DEF SeedInit
<1>4. tickets \in [Tickets -> TicketRow]
  <2>1. NoTicket \in SeedTickets
    BY DEF SeedTickets
  <2> QED BY <1>1, <2>1, SeedTicketShape DEF SeedInit, TicketShape
<1>5. extensions \in [Extensions -> ExtensionRow]
  <2>1. NoExtension \in SeedExtensions
    BY DEF SeedExtensions
  <2> QED BY <1>1, <2>1, SeedExtensionType DEF SeedInit
<1>6. users \in [Users -> UserStates]
  BY DEF SeedInit, SeedUsers, UserStates
<1>7. trail \in [Items -> TrailRow]
  BY <1>3 DEF SeedInit, SeedTrail, TrailRow, ItemRow
<1> QED BY <1>2, <1>3, <1>4, <1>5, <1>6, <1>7 DEF TypeOK

LEMMA SeedClaims == SeedInit => ClaimInvariant
<1> SUFFICES ASSUME SeedInit PROVE ClaimInvariant
  OBVIOUS
<1>1. requests \in [Requests -> SeedRequests]
  BY DEF SeedInit
<1>2. \A r \in Requests :
        ~Terminal(requests[r]) => (requests[r].status = "assigned" <=> requests[r].item # None)
  BY <1>1, SeedRequestShape
<1>3. TiedRequestHadDevice
  <2>1. NoTicket \in SeedTickets
    BY DEF SeedTickets
  <2>2. \A t \in Tickets : TicketShape(tickets[t])
    BY <1>1, <2>1, SeedTicketShape DEF SeedInit
  <2> QED BY <2>2 DEF TicketShape, TiedRequestHadDevice
<1> QED BY <1>2, <1>3, SeedTypeOK, SeedClaimsUnique DEF ClaimInvariant

-----------------------------------------------------------------------------
\* On a seeded database as on an empty one, calls that do not overlap keep the
\* invariant behind every claim on a device ...
THEOREM SeededClaims == SeededSpec => []ClaimInvariant
<1> QED BY SeedClaims, NextClaims, PTL DEF SeededSpec

\* ... and with it the hard constraint: one device, one active claim.
THEOREM SeededClaimPerDevice == SeededSpec => []OneActiveClaim
<1>1. ClaimInvariant => OneActiveClaim
  BY DEF ClaimInvariant, OneActiveClaim, UniqueActive
<1> QED BY <1>1, SeededClaims, PTL

\* ... and a request that is over stays over.
THEOREM SeededEndIsFinal == SeededSpec => TerminalNeverReopens
<1> QED BY NextKeepsEnd, SeededClaims, PTL DEF SeededSpec, TerminalNeverReopens

-----------------------------------------------------------------------------
(* Extensions.                                                             *)

LEMMA SeedExtensionShape ==
  ASSUME requests \in [Requests -> SeedRequests], NEW x \in SeedExtensions
  PROVE  /\ x.status = "approved" => x.mgr = "approved"
         /\ x.status = "pending" => x.request \in Requests /\ requests[x.request].item \in Items
<1>1. CASE x = NoExtension
  BY <1>1 DEF NoExtension, Absent
<1>2. ASSUME NEW r \in Requests, InUse(r),
             x = [status |-> "approved", request |-> r, extended_to |-> requests[r].to,
                  mgr |-> "approved"]
      PROVE  x.status = "approved" /\ x.mgr = "approved"
  BY <1>2
<1>3. ASSUME NEW r \in Requests, InUse(r), NEW d \in Days,
             NEW decision \in {<<"pending", "not_required">>, <<"rejected", "approved">>},
             x = [status |-> decision[1], request |-> r, extended_to |-> d, mgr |-> decision[2]]
      PROVE  x.status # "approved" /\ x.request = r /\ requests[r].item \in Items
  BY <1>3, LoanHasItem DEF InUse, AtDesk
<1> QED BY <1>1, <1>2, <1>3 DEF SeedExtensions

LEMMA SeedExtensionsOf ==
  SeedInit => /\ requests \in [Requests -> SeedRequests]
              /\ \A x \in Extensions : extensions[x] \in SeedExtensions
<1>1. NoExtension \in SeedExtensions
  BY DEF SeedExtensions
<1> QED BY <1>1 DEF SeedInit

\* Consent, on a seeded database ...
THEOREM SeededConsent == SeededSpec => []ApprovedWithConsent
<1>1. SeedInit => ApprovedWithConsent
  BY SeedExtensionsOf, SeedExtensionShape DEF ApprovedWithConsent
<1>2. ClaimInvariant => TypeOK
  BY DEF ClaimInvariant
<1> QED BY <1>1, <1>2, NextKeepsConsent, SeededClaims, PTL DEF SeededSpec

\* ... the finality of decisions ...
THEOREM SeededDecisions == SeededSpec => DecidedExtensionIsFinal
<1>1. ClaimInvariant => TypeOK
  BY DEF ClaimInvariant
<1> QED BY <1>1, NextKeepsDecisions, SeededClaims, PTL DEF SeededSpec, DecidedExtensionIsFinal

\* ... and the asserts of the handlers: what the script leaves pending is of
\* a request with a device.
THEOREM SeededAsserts == SeededSpec => []AssertsHold
<1>1. SeedInit => PendingHasDevice
  BY SeedExtensionsOf, SeedExtensionShape, StoreAssumption DEF PendingHasDevice
<1> QED BY <1>1, NextKeepsPendingDevice, PendingDeviceIsAsserted, SeededClaims, PTL
        DEF SeededSpec

\* A resolution the script wrote stands like any other, ...
THEOREM SeededResolutions == SeededSpec => ResolvedTicketIsFinal
<1>1. ClaimInvariant => TypeOK
  BY DEF ClaimInvariant
<1> QED BY <1>1, NextKeepsResolutions, SeededClaims, PTL DEF SeededSpec, ResolvedTicketIsFinal

\* ... and a return closes the tickets of the device, the script's included.
THEOREM SeededReturnsClose == SeededSpec => ReturnLeavesNoOpenTicket
<1>1. ClaimInvariant => TypeOK
  BY DEF ClaimInvariant
<1> QED BY <1>1, NextClosesTickets, SeededClaims, PTL DEF SeededSpec, ReturnLeavesNoOpenTicket

-----------------------------------------------------------------------------
(* Who holds the seeded devices.                                           *)

LEMMA SeededRequesters == SeededSpec => []RequesterKnown
<1>1. SeedInit => RequesterKnown
  BY SeedRequestShape DEF SeedInit, RequesterKnown
<1> QED BY <1>1, NextKeepsRequester, SeededClaims, PTL DEF SeededSpec

\* A lent device is with the requester of the one request assigned to it, a
\* spare one with nobody.
LEMMA SeedHolder ==
  ASSUME SeedInit, NEW i \in Items
  PROVE  \/ \E r \in Requests :
              /\ requests[r].status = "assigned"
              /\ requests[r].item = i
              /\ requests[r].requester = items[i].owner
              /\ items[i].owner \in Users
         \/ /\ ~Lent(i)
            /\ items[i].owner = None
            /\ items[i].status \notin HeldStatuses
<1>1. items[i] \in SeedItem(i)
  BY DEF SeedInit
<1>2. CASE Lent(i)
  <2>1. /\ Borrower(i) \in Requests
        /\ requests[Borrower(i)].status = "assigned"
        /\ requests[Borrower(i)].item = i
    BY <1>2 DEF Lent, Borrower
  <2>2. items[i].owner = requests[Borrower(i)].requester
    BY <1>1, <1>2 DEF SeedItem
  <2>3. requests[Borrower(i)] \in SeedRequests
    BY <2>1 DEF SeedInit
  <2>4. requests[Borrower(i)].requester \in Users
    BY <2>1, <2>3, SeedRequestShape DEF Born, Absent
  <2> QED BY <2>1, <2>2, <2>4
<1>3. CASE ~Lent(i)
  BY <1>1, <1>3, SeedAssumption DEF SeedItem, SpareStatuses, HeldStatuses
<1> QED BY <1>2, <1>3

\* Nobody but its requester owns an assigned request's device, on a seeded
\* database without tickets ...
THEOREM SeededOwner ==
  ASSUME Tickets = {}
  PROVE  SeededSpec => []NobodyElseHoldsIt
<1>1. SeedInit => NobodyElseHoldsIt
  <2> SUFFICES ASSUME SeedInit, NEW r \in Requests, requests[r].status = "assigned"
               PROVE  items[requests[r].item].owner \in {requests[r].requester, None}
    BY DEF NobodyElseHoldsIt
  <2>1. requests \in [Requests -> SeedRequests]
    BY DEF SeedInit
  <2>2. requests[r].item \in Items /\ Lent(requests[r].item)
    BY <2>1, LoanHasItem DEF Lent
  <2>3. PICK q \in Requests : /\ requests[q].status = "assigned"
                              /\ requests[q].item = requests[r].item
                              /\ requests[q].requester = items[requests[r].item].owner
    BY <2>2, SeedHolder
  <2>4. q = r
    BY <2>3 DEF SeedInit
  <2> QED BY <2>3, <2>4
<1>2. /\ ClaimInvariant /\ ClaimInvariant' /\ RequesterKnown /\ NobodyElseHoldsIt
      /\ [Next]_tables
      => NobodyElseHoldsIt'
  BY NextKeepsOwner
<1> QED BY <1>1, <1>2, SeededClaims, SeededRequesters, PTL DEF SeededSpec

\* ... where a device in a workflow status has an owner ...
THEOREM SeededHeldOwned ==
  ASSUME Tickets = {}
  PROVE  SeededSpec => []HeldDeviceHasOwner
<1>1. SeedInit => HeldDeviceHasOwner
  BY SeedHolder, StoreAssumption DEF HeldDeviceHasOwner, HeldStatuses
<1>2. ClaimInvariant /\ RequesterKnown /\ HeldDeviceHasOwner /\ [Next]_tables
        => HeldDeviceHasOwner'
  BY NextKeepsHeldOwned
<1> QED BY <1>1, <1>2, SeededClaims, SeededRequesters, PTL DEF SeededSpec

\* ... a deactivated employee has no open request, with tickets or without,
THEOREM SeededInactiveClosed == SeededSpec => []InactiveHasNoOpenRequest
<1>1. SeedInit => InactiveHasNoOpenRequest
  <2> SUFFICES ASSUME SeedInit, NEW u \in Users, NEW r \in Requests, users[u] = "inactive",
                      requests[r].requester = u
               PROVE  Terminal(requests[r])
    BY DEF InactiveHasNoOpenRequest
  <2>1. Born(requests[r])
    BY SeedRequestShape DEF SeedInit
  <2> QED BY <2>1 DEF SeedInit, SeedUsers
<1> QED BY <1>1, NextKeepsInactiveClosed, SeededClaims, PTL DEF SeededSpec

\* and owns nothing ...
THEOREM SeededInactiveEmpty ==
  ASSUME Tickets = {}
  PROVE  SeededSpec => []InactiveHoldsNothing
<1>1. SeedInit => InactiveHoldsNothing
  <2> SUFFICES ASSUME SeedInit, NEW u \in Users, NEW i \in Items, items[i].owner = u
               PROVE  users[u] # "inactive"
    BY DEF InactiveHoldsNothing
  <2>1. PICK r \in Requests : requests[r].status = "assigned" /\ requests[r].requester = u
    BY SeedHolder, StoreAssumption
  <2> QED BY <2>1 DEF SeedInit, SeedUsers, Born, Absent
<1>2. /\ ClaimInvariant /\ RequesterKnown /\ InactiveHasNoOpenRequest'
      /\ InactiveHoldsNothing /\ [Next]_tables
      => InactiveHoldsNothing'
  BY NextKeepsInactiveEmpty
<1> QED BY <1>1, <1>2, SeededClaims, SeededRequesters, SeededInactiveClosed, PTL DEF SeededSpec

\* ... and every device on its way back is in the returns queue under the
\* employee who holds it.
THEOREM SeededReturnsListed ==
  ASSUME Tickets = {}
  PROVE  SeededSpec => []ReturnsAreListed
<1>1. SeedInit => ReturnsAreListed
  BY SeedHolder, StoreAssumption DEF ReturnsAreListed, ReturnQueue, HeldStatuses
<1>2. ClaimInvariant /\ RequesterKnown /\ ReturnsAreListed /\ [Next]_tables => ReturnsAreListed'
  BY NextKeepsReturnsListed
<1> QED BY <1>1, <1>2, SeededClaims, SeededRequesters, PTL DEF SeededSpec

-----------------------------------------------------------------------------
(* Custody with tickets, the script's own included.                        *)

\* The script leaves a ticket open only on a device in use or in repair, both
\* of which are lent.
LEMMA SeedTicketInvariant == SeedInit => TicketInvariant
<1> SUFFICES ASSUME SeedInit PROVE TicketInvariant
  OBVIOUS
<1>1. ASSUME NEW i \in Items
      PROVE  Born(items[i])
  <2>1. items[i] \in SeedItem(i)
    BY DEF SeedInit
  <2> QED BY <2>1, SeedAssumption DEF SeedItem, LentStatuses, SpareStatuses, Born, Absent
<1>2. requests \in [Requests -> SeedRequests]
  BY DEF SeedInit
<1>3. ASSUME NEW t \in Tickets
      PROVE  tickets[t] = NoTicket \/ tickets[t] \in SeedTickets
  BY DEF SeedInit
<1>4. ASSUME NEW t \in Tickets, Born(tickets[t])
      PROVE  tickets[t].item \in Items
  <2>1. tickets[t] \in SeedTickets
    BY <1>3, <1>4 DEF NoTicket, Born
  <2> QED BY <1>2, <1>4, <2>1, SeedTicketShape DEF TicketShape
<1>5. ASSUME NEW t \in Tickets, Resolvable(tickets[t])
      PROVE  items[tickets[t].item].owner # None
  <2>1. tickets[t] \in SeedTickets /\ tickets[t] # NoTicket /\ tickets[t].status # "resolved"
    BY <1>3, <1>5 DEF NoTicket, Resolvable, Born
  <2>2. PICK r \in Requests : AtDesk(r) /\ tickets[t] \in DeskTickets(r)
    BY <2>1, OpenAtDesk
  <2>3. tickets[t].item = requests[r].item
    BY <2>2 DEF DeskTickets, NoTicket
  <2>4. requests[r].item \in Items /\ Lent(requests[r].item)
    BY <1>2, <2>2, LoanHasItem DEF AtDesk, Lent
  <2> QED BY <2>3, <2>4, SeedHolder, StoreAssumption
<1> QED BY <1>1, <1>4, <1>5 DEF TicketInvariant, UnbornUnowned, TicketHasDevice,
           OpenTicketHasOwner

LEMMA SeededTicketInvariant == SeededSpec => []TicketInvariant
BY SeedTicketInvariant, NextKeepsTicketInvariant, SeededClaims, SeededRequesters, PTL
   DEF SeededSpec

\* An open ticket is on a device somebody owns or that was swapped out ...
THEOREM SeededOpenTickets == SeededSpec => []OpenTicketHasOwner
BY SeededTicketInvariant, PTL DEF TicketInvariant

\* ... and what tickets may do to the owner of a device is what they may do
\* to it on a database that was empty once: serve somebody inactive, ...
THEOREM SeededLateSwaps == SeededSpec => InactiveReceiveByLateSwap
<1>1. /\ ClaimInvariant /\ RequesterKnown /\ InactiveHasNoOpenRequest
      /\ InactiveHasNoOpenRequest' /\ [Next]_tables
      => [\A u \in Users, i \in Items :
            users[u] = "inactive" /\ items'[i].owner = u /\ items[i].owner # u => LateSwap(i)]_tables
  BY NextInactiveReceive
<1> QED BY <1>1, SeededClaims, SeededRequesters, SeededInactiveClosed, PTL
        DEF SeededSpec, InactiveReceiveByLateSwap

\* ... displace the requester of an assigned request, ...
THEOREM SeededDisplaced == SeededSpec => DisplacedByLateSwap
<1>1. /\ ClaimInvariant /\ ClaimInvariant' /\ RequesterKnown /\ [Next]_tables
      => [\A r \in Requests :
            LET i == requests'[r].item IN
            /\ requests'[r].status = "assigned"
            /\ items'[i].owner \notin {requests'[r].requester, None}
            => \/ /\ requests[r].status = "assigned"
                  /\ requests[r].item = i
                  /\ items[i].owner = items'[i].owner
               \/ LateSwap(i)]_tables
  BY NextDisplaces
<1> QED BY <1>1, SeededClaims, SeededRequesters, PTL DEF SeededSpec, DisplacedByLateSwap

\* ... leave it without one, ...
THEOREM SeededOwnerless == SeededSpec => OwnerlessByTicket
<1>1. /\ ClaimInvariant /\ RequesterKnown /\ TicketInvariant /\ [Next]_tables
      => [\A i \in Items :
            ~Ownerless(i) /\ Ownerless(i)' =>
              \E t \in Tickets :
                /\ tickets[t].item = i
                /\ \/ ResolvesAs(t, "repaired_in_place") /\ Repairable(items[i]) /\ SwappedOut(i)
                   \/ ResolvesAs(t, "swapped")]_tables
  BY NextUnowns
<1> QED BY <1>1, SeededClaims, SeededRequesters, SeededTicketInvariant, PTL
        DEF SeededSpec, OwnerlessByTicket

\* ... or leave no request that leads to it.
THEOREM SeededOrphaned == SeededSpec => OrphanedByStraySwap
<1>1. /\ ClaimInvariant /\ RequesterKnown /\ [Next]_tables
      => [\A i \in Items :
            ~Orphaned(i) /\ Orphaned(i)' =>
              \E t \in Tickets :
                /\ ResolvesAs(t, "swapped")
                /\ tickets[t].item # i
                /\ requests[tickets[t].request].item = i]_tables
  BY NextOrphans
<1> QED BY <1>1, SeededClaims, SeededRequesters, PTL DEF SeededSpec, OrphanedByStraySwap
=============================================================================
