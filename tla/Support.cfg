CONSTANTS
  Items = {i1, i2, i3}
  Requests = {r1, r2}
  Users = {u1, u2}
  Tickets = {t1, t2}
  Extensions = {}
  Categories = {c1}
  ClientItems = {}
  MaxDay = 1
  Routes <- DirectToIT
  WfhChoices = {FALSE}
  TicketTypes = {"damage"}
  TiedChoices = {TRUE}
  ManualStatuses = {"available"}
  SwapOutStatuses = {"under_repair", "assigned"}
  None = None
SPECIFICATION Spec
SYMMETRY IdSymmetry
INVARIANTS
  ClaimInvariant
  LogNeverLies
  OpenTicketHasOwner
PROPERTIES
  ImplementsClaims
  ReturnLeavesNoOpenTicket
  ResolvedTicketIsFinal
  InactiveReceiveByLateSwap
  DisplacedByLateSwap
  OwnerlessByTicket
  OrphanedByStraySwap
