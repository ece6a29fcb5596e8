CONSTANTS
  Items = {i1, i2}
  Requests = {r1}
  Users = {u1}
  Tickets = {t1}
  Extensions = {}
  Categories = {c1}
  ClientItems = {}
  MaxDay = 1
  Routes = {}
  WfhChoices = {TRUE}
  TicketTypes = {}
  TiedChoices = {}
  ManualStatuses = {"available"}
  SwapOutStatuses = {"retired"}
  None = None
  SeedKinds = {"office", "past"}
  SeedSpares = {"available"}
  SeedDesk = TRUE
  Sessions = {s1, s2}
  Operations = {"start", "remote", "repair", "swap", "lost", "return", "change"}
SPECIFICATION SessionsSpec
CHECK_DEADLOCK FALSE
PROPERTIES
  UndisturbedCallsAreAtomic
  EveryCallEnds
