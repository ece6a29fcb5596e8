---------------------------------- MODULE Claims ----------------------------------
(***************************************************************************)
(* What the system promises about requests and devices, whoever acts and   *)
(* in whatever order: a request waits, may be granted a device nobody else *)
(* holds a claim on, may have it replaced, and ends once and for all.      *)
(***************************************************************************)
CONSTANTS Requests, Items, None

VARIABLES
  phase,   \* "unfiled", "waiting", "held" or "over", of each request
  device   \* the device a held request claims

claims == <<phase, device>>

Unclaimed(i, r) == \A other \in Requests \ {r} : device[other] # i

Init ==
  /\ phase = [r \in Requests |-> "unfiled"]
  /\ device = [r \in Requests |-> None]

File(r) ==
  /\ phase[r] = "unfiled"
  /\ phase' = [phase EXCEPT ![r] = "waiting"]
  /\ UNCHANGED device

\* Of a waiting request, or at once: a direct assignment is never filed.
Grant(r, i) ==
  /\ phase[r] \in {"unfiled", "waiting"}
  /\ Unclaimed(i, r)
  /\ phase' = [phase EXCEPT ![r] = "held"]
  /\ device' = [device EXCEPT ![r] = i]

Replace(r, i) ==
  /\ phase[r] = "held"
  /\ Unclaimed(i, r)
  /\ device' = [device EXCEPT ![r] = i]
  /\ UNCHANGED phase

End(r) ==
  /\ phase[r] \in {"waiting", "held"}
  /\ phase' = [phase EXCEPT ![r] = "over"]
  /\ device' = [device EXCEPT ![r] = None]

Next ==
  \E r \in Requests :
    \/ File(r)
    \/ End(r)
    \/ \E i \in Items : Grant(r, i) \/ Replace(r, i)

Spec == Init /\ [][Next]_claims
=============================================================================
