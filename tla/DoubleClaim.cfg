CONSTANTS
  Items = {i1}
  Requests = {r1, r2}
  Users = {u1}
  Tickets = {}
  Extensions = {}
  Categories = {c1}
  ClientItems = {}
  MaxDay = 1
  Routes = {}
  WfhChoices = {TRUE}
  TicketTypes = {}
  TiedChoices = {}
  ManualStatuses = {"available"}
  SwapOutStatuses = {"retired"}
  None = None
  SeedKinds = {"queue"}
  SeedSpares = {"available"}
  SeedDesk = TRUE
  Sessions = {s1, s2, s3}
  Operations = {"assign", "escalate"}
SPECIFICATION SessionsSafety
CHECK_DEADLOCK FALSE
INVARIANT OneActiveClaim
