CONSTANTS
  Items = {i1, i2}
  Requests = {r1, r2}
  Users = {u1, u2}
  Tickets = {}
  Extensions = {}
  Categories = {c1}
  ClientItems = {i2}
  MaxDay = 1
  Routes <- FilingRoutes
  WfhChoices = {TRUE, FALSE}
  TicketTypes = {}
  TiedChoices = {}
  ManualStatuses <- ChangeableStatuses
  SwapOutStatuses <- DeviceStatuses
  None = None
SPECIFICATION Spec
SYMMETRY IdSymmetry
INVARIANTS
  TypeOK
  OneActiveClaim
  HeldDeviceHasOwner
  InactiveHasNoOpenRequest
  InactiveHoldsNothing
  LogTellsEveryStatus
  ReturnsAreListed
PROPERTIES
  TerminalNeverReopens
  ImplementsClaims
