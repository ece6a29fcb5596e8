------------------------------ MODULE RequestService ------------------------------
(***************************************************************************)
(* app/services/request_service.py: the IT decisions that do not involve a *)
(* device.  Each action is one HTTP request, one transaction.              *)
(***************************************************************************)
EXTENDS Store

\* reject as lenient as cancel.
RejectableAnytime(req) == Born(req) /\ ~Terminal(req)

\* reject: only a request pending IT approval.
Rejectable(req) == req.status = "pending_it_approval"

RejectedRow(req) == [req EXCEPT !.status = "rejected"]

RejectRequest(r) ==
  /\ Rejectable(requests[r])
  /\ WriteRequests([requests EXCEPT ![r] = RejectedRow(@)])
  /\ UNCHANGED <<items, tickets, extensions, users, trail>>

\* cancel: any request not yet terminal; the device, if any, is not touched.
Cancellable(req) == Born(req) /\ ~Terminal(req)

\* cancel taking the device off the request, while it keeps its owner.
DetachedCancelledRow(req) == [req EXCEPT !.status = "cancelled", !.item = None]

CancelledRow(req) == [req EXCEPT !.status = "cancelled"]

CancelRequest(r) ==
  /\ Cancellable(requests[r])
  /\ WriteRequests([requests EXCEPT ![r] = CancelledRow(@)])
  /\ UNCHANGED <<items, tickets, extensions, users, trail>>

\* escalate_to_manager accepting any open request.
EscalatableAnytime(req) == Born(req) /\ ~Terminal(req) /\ req.mgr = "not_required"

\* escalate_to_manager: pending IT approval and never sent to a manager.
Escalatable(req) == req.status = "pending_it_approval" /\ req.mgr = "not_required"

EscalatedRow(req) ==
  [req EXCEPT !.status = "pending_mgr_approval", !.mgr = "pending"]

EscalateToManager(r) ==
  /\ Escalatable(requests[r])
  /\ WriteRequests([requests EXCEPT ![r] = EscalatedRow(@)])
  /\ UNCHANGED <<items, tickets, extensions, users, trail>>

RequestServiceStep ==
  \E r \in Requests : RejectRequest(r) \/ CancelRequest(r) \/ EscalateToManager(r)
=============================================================================
