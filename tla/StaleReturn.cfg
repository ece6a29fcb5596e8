CONSTANTS
  Items = {i1}
  Requests = {r1, r2}
  Users = {u1}
  Tickets = {}
  Extensions = {}
  Categories = {c1}
  ClientItems = {}
  MaxDay = 1
  Routes <- DirectToIT
  WfhChoices = {FALSE}
  TicketTypes = {"lost"}
  TiedChoices = {TRUE}
  ManualStatuses = {"available"}
  SwapOutStatuses = {"retired"}
  None = None
SPECIFICATION Spec
INVARIANT OwnershipLastsUntilCompletion
