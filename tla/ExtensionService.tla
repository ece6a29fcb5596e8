----------------------------- MODULE ExtensionService -----------------------------
(***************************************************************************)
(* app/services/extension_service.py: IT decides requests to keep a device *)
(* for longer.  The log entries carry no device status.                    *)
(***************************************************************************)
EXTENDS Store

\* approve skipping the manager's decision.
ApprovableUnasked(ext) == ext.status = "pending"

\* approve forgetting that IT may have decided already.
ApprovableDecided(ext) == Born(ext) /\ ext.mgr \in {"not_required", "approved"}

\* approve: pending, and the manager is not asked or has agreed.
Approvable(ext) ==
  /\ ext.status = "pending"
  /\ ext.mgr \in {"not_required", "approved"}

\* The parent's own status and range are not looked at.
ExtendedRow(req, ext) == [req EXCEPT !.to = ext.extended_to]

ApproveExtension(x) ==
  LET r == extensions[x].request IN
  /\ Approvable(extensions[x])
  /\ requests[r].item # None
  /\ WriteRequests([requests EXCEPT ![r] = ExtendedRow(@, extensions[x])])
  /\ extensions' = [extensions EXCEPT ![x].status = "approved"]
  /\ UNCHANGED <<items, tickets, users, trail>>

RejectExtension(x) ==
  /\ extensions[x].status = "pending"
  /\ requests[extensions[x].request].item # None
  /\ extensions' = [extensions EXCEPT ![x].status = "rejected"]
  /\ UNCHANGED <<items, requests, tickets, users, trail>>

ExtensionServiceStep ==
  \E x \in Extensions : ApproveExtension(x) \/ RejectExtension(x)
=============================================================================
