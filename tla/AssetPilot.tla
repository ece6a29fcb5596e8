-------------------------------- MODULE AssetPilot --------------------------------
(***************************************************************************)
(* The IT-admin API as a whole, each HTTP request executed as one atomic   *)
(* transaction: the services of app/services/ and the employees' app that  *)
(* shares their tables.                                                    *)
(***************************************************************************)
EXTENDS RequestService, AssignmentService, ShippingService, SupportService,
        ExtensionService, InventoryService, UserService, MobileApp

Init == TablesInit

Next ==
  \/ RequestServiceStep
  \/ AssignmentServiceStep
  \/ ShippingServiceStep
  \/ SupportServiceStep
  \/ ExtensionServiceStep
  \/ InventoryServiceStep
  \/ UserServiceStep
  \/ MobileAppStep

Spec == Init /\ [][Next]_tables

-----------------------------------------------------------------------------
(* Requests and the devices they claim.                                    *)

\* A device is the target of at most one request that is not yet terminal
\* (the hard constraint of PROJECT.md), although the unique index compares
\* only requests of equal status and cancel, escalate and change_status each
\* touch one side of the pair.
OneActiveClaim ==
  \A r1, r2 \in Requests :
    /\ r1 # r2
    /\ requests[r1].item # None
    /\ ~Terminal(requests[r1])
    /\ ~Terminal(requests[r2])
    => requests[r1].item # requests[r2].item

\* A ticket is tied to a request that has had a device, so that a swap never
\* hands a device to a request still waiting for approval.
TiedRequestHadDevice ==
  \A t \in Tickets :
    tickets[t].request # None =>
      requests[tickets[t].request].status \in {"assigned", "completed", "cancelled"}

\* Where a request stands for someone who only knows who may hold what.
Phase(req) ==
  CASE ~Born(req) -> "unfiled"
    [] Terminal(req) -> "over"
    [] req.status = "assigned" -> "held"
    [] OTHER -> "waiting"

ClaimedDevice(req) == IF req.status = "assigned" THEN req.item ELSE None

ClaimsOf ==
  INSTANCE Claims WITH
    phase <- [r \in Requests |-> Phase(requests[r])],
    device <- [r \in Requests |-> ClaimedDevice(requests[r])]

\* The services, tickets and swaps included, do to requests nothing but what
\* Claims allows: no grant without a free device, no way back from an end.
ImplementsClaims == ClaimsOf!Spec

\* Why it does, in a form every step preserves: only an assigned request that
\* is not over has a device, the unique index compares these with one another,
\* and no ticket leads a swap to a request that has not had a device.
ClaimInvariant ==
  /\ TypeOK
  /\ \A r \in Requests :
       ~Terminal(requests[r]) => (requests[r].status = "assigned" <=> requests[r].item # None)
  /\ UniqueActive(requests)
  /\ TiedRequestHadDevice

\* A completed, rejected or cancelled request never becomes active again,
\* though complete_return and mark_lost write the status unguarded.
TerminalNeverReopens ==
  [][\A r \in Requests : Terminal(requests[r]) => Terminal(requests'[r])]_tables

\* The asserts on assigned_item_id in update_booking_range and in the two
\* extension decisions never fail: an assigned request, and the parent of a
\* pending extension in whatever state it is by then, has a device.
AssertsHold ==
  /\ \A r \in Requests : requests[r].status = "assigned" => requests[r].item # None
  /\ \A x \in Extensions :
       extensions[x].status = "pending" => requests[extensions[x].request].item # None

\* While a request is assigned nobody but its requester owns its device, in
\* spite of change_status making the device available under it.
NobodyElseHoldsIt ==
  \A r \in Requests :
    requests[r].status = "assigned" =>
      items[requests[r].item].owner \in {requests[r].requester, None}

\* The statuses of a device in somebody's hands, or in the mail.
HeldStatuses == {"assigned", "shipping_pending", "return_shipping_pending"}

\* A device in a workflow status is in somebody's hands: no path through
\* ship, deliver, return and manual changes leaves it assigned to nobody.
HeldDeviceHasOwner ==
  \A i \in Items : items[i].status \in HeldStatuses => items[i].owner # None

-----------------------------------------------------------------------------
(* Users.                                                                  *)

\* The rule F4 of deactivate, kept by every later step and not only checked
\* when it runs: an inactive user has no open request ...
InactiveHasNoOpenRequest ==
  \A u \in Users, r \in Requests :
    users[u] = "inactive" /\ requests[r].requester = u => Terminal(requests[r])

\* ... and owns no device.
InactiveHoldsNothing ==
  \A u \in Users, i \in Items : users[u] = "inactive" => items[i].owner # u

-----------------------------------------------------------------------------
(* The device log.                                                         *)

\* The timeline of a device reports its present status, and each from_value
\* (several are constants in the code) is the status reported before it.
LogTellsEveryStatus ==
  \A i \in Items : trail[i].told = items[i].status /\ trail[i].chained

\* The same with swaps, whose entries carry no values: until the device's
\* next logged change the log is silent on it, and it is never wrong.
LogNeverLies ==
  \A i \in Items : trail[i].told \in {items[i].status, Untold} /\ trail[i].chained

-----------------------------------------------------------------------------
(* Tickets and extensions.                                                 *)

\* A request that completes while its device goes back to the pool, to repair
\* or out of service leaves no ticket of that device open or in progress.
ReturnLeavesNoOpenTicket ==
  [][\A r \in Requests :
       LET i == requests[r].item IN
       /\ i # None
       /\ requests[r].status # "completed"
       /\ requests'[r].status = "completed"
       /\ items'[i].status # items[i].status
       /\ items'[i].status \in ReturnNextStatuses
       => \A t \in Tickets :
            tickets'[t].item = i => tickets'[t].status \notin OpenSupportStatuses]_tables

\* A resolved ticket keeps its outcome: an auto-closed ticket is never given
\* a resolution, and a resolution is never overwritten by the cascade.
ResolvedTicketIsFinal ==
  [][\A t \in Tickets :
       tickets[t].status = "resolved" => tickets'[t] = tickets[t]]_tables

\* Once IT or the manager has decided an extension, the decision stands.
DecidedExtensionIsFinal ==
  [][\A x \in Extensions :
       extensions[x].status \in {"approved", "rejected"} => extensions'[x] = extensions[x]]_tables

\* IT never approves an extension the manager was asked about and did not grant.
ApprovedWithConsent ==
  \A x \in Extensions :
    extensions[x].status = "approved" => extensions[x].mgr \in {"not_required", "approved"}

-----------------------------------------------------------------------------
(* Custody with tickets.  A ticket outlives its request and its device's   *)
(* tie to that request, so that the rules above about owners hold without  *)
(* tickets only; with them, these steps and no others break them.          *)

\* The step resolves the ticket with this outcome.
ResolvesAs(t, resolution) ==
  /\ tickets[t].status # "resolved"
  /\ tickets'[t].status = "resolved"
  /\ tickets'[t].resolution = resolution

\* It swaps in device i for a request that is over.
LateSwap(i) ==
  \E t \in Tickets :
    /\ ResolvesAs(t, "swapped")
    /\ tickets'[t].swapped_to = i
    /\ Terminal(requests[tickets[t].request])

\* A deactivated employee comes to own a device only by a swap through the
\* ticket of a request that has ended: resolve asks neither for the status of
\* the request nor for that of its requester.
InactiveReceiveByLateSwap ==
  [][\A u \in Users, i \in Items :
       users[u] = "inactive" /\ items'[i].owner = u /\ items[i].owner # u => LateSwap(i)]_tables

\* The device of an assigned request passes to another employee only by such
\* a swap, after change_status made it available.
DisplacedByLateSwap ==
  [][\A r \in Requests :
       LET i == requests'[r].item IN
       /\ requests'[r].status = "assigned"
       /\ items'[i].owner \notin {requests'[r].requester, None}
       => \/ /\ requests[r].status = "assigned"
             /\ requests[r].item = i
             /\ items[i].owner = items'[i].owner
          \/ LateSwap(i)]_tables

\* Taken away from its owner by a swap, at some time.
SwappedOut(i) ==
  \E t \in Tickets :
    /\ tickets[t].item = i
    /\ tickets[t].status = "resolved"
    /\ tickets[t].resolution = "swapped"

\* A ticket still open is on a device somebody owns, or has owned up to a
\* swap through another ticket: every other step that takes a device from its
\* owner closes the tickets on it.
OpenTicketHasOwner ==
  \A t \in Tickets :
    Resolvable(tickets[t]) /\ items[tickets[t].item].owner = None => SwappedOut(tickets[t].item)

\* In a workflow status with nobody to answer for it.
Ownerless(i) == items[i].status \in HeldStatuses /\ items[i].owner = None

\* A device becomes ownerless only when it is repaired in place after it was
\* swapped out, which _repair_in_place does not notice, or by a swap whose
\* next status is not for a device at rest.
OwnerlessByTicket ==
  [][\A i \in Items :
       ~Ownerless(i) /\ Ownerless(i)' =>
         \E t \in Tickets :
           /\ tickets[t].item = i
           /\ \/ ResolvesAs(t, "repaired_in_place") /\ Repairable(items[i]) /\ SwappedOut(i)
              \/ ResolvesAs(t, "swapped")]_tables

\* Owned by somebody no request of whom leads to the device: neither the
\* returns queue nor complete_return can find it.
Orphaned(i) ==
  /\ items[i].owner # None
  /\ ~\E r \in Requests : requests[r].item = i /\ requests[r].requester = items[i].owner

\* A device becomes an orphan only when its request is swapped to another one
\* through a ticket on a third device, which the request had before.
OrphanedByStraySwap ==
  [][\A i \in Items :
       ~Orphaned(i) /\ Orphaned(i)' =>
         \E t \in Tickets :
           /\ ResolvesAs(t, "swapped")
           /\ tickets[t].item # i
           /\ requests[tickets[t].request].item = i]_tables
=============================================================================
