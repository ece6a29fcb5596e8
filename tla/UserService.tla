------------------------------- MODULE UserService -------------------------------
(***************************************************************************)
(* app/services/user_service.py: employees are created, deactivated and    *)
(* reactivated.  Roles, which no workflow reads, are left out.             *)
(***************************************************************************)
EXTENDS Store

CreateUser(u) ==
  /\ users[u] = Absent
  /\ users' = [users EXCEPT ![u] = "active"]
  /\ UNCHANGED <<items, requests, tickets, extensions, trail>>

\* has_active_devices_or_requests looking at one of the two tables only.
HoldsDevice(u) == \E i \in Items : items[i].owner = u

HasOpenRequest(u) ==
  \E r \in Requests : requests[r].requester = u /\ ~Terminal(requests[r])

\* UserRepository.has_active_devices_or_requests.
HasActiveDevicesOrRequests(u) ==
  \/ \E i \in Items : items[i].owner = u
  \/ \E r \in Requests : requests[r].requester = u /\ ~Terminal(requests[r])

\* deactivate: refused while the user holds a device or has an open request.
Deactivate(u) ==
  /\ users[u] # Absent
  /\ ~HasActiveDevicesOrRequests(u)
  /\ users' = [users EXCEPT ![u] = "inactive"]
  /\ UNCHANGED <<items, requests, tickets, extensions, trail>>

Activate(u) ==
  /\ users[u] # Absent
  /\ users' = [users EXCEPT ![u] = "active"]
  /\ UNCHANGED <<items, requests, tickets, extensions, trail>>

UserServiceStep ==
  \E u \in Users : CreateUser(u) \/ Deactivate(u) \/ Activate(u)
=============================================================================
