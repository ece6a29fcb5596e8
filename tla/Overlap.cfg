CONSTANTS
  Items = {i1}
  Requests = {r1, r2}
  Users = {u1}
  Tickets = {}
  Extensions = {}
  Categories = {c1}
  ClientItems = {}
  MaxDay = 1
  Routes = {}
  WfhChoices = {TRUE}
  TicketTypes = {}
  TiedChoices = {}
  ManualStatuses = {"available"}
  SwapOutStatuses = {"retired"}
  None = None
  SeedKinds = {"queue", "mailed"}
  SeedSpares = {"available"}
  SeedDesk = TRUE
  Sessions = {s1, s2}
  Operations = {"assign", "reject", "cancel", "escalate", "ship", "deliver", "change"}
SPECIFICATION SessionsSpec
CHECK_DEADLOCK FALSE
INVARIANT IndexInvariant
PROPERTIES
  AnswersAreCommitted
  ShippingMarksStick
  EveryCallEnds
