CONSTANTS
  Items = {i1}
  Requests = {r1}
  Users = {u1}
  Tickets = {}
  Extensions = {x1, x2}
  Categories = {c1}
  ClientItems = {}
  MaxDay = 3
  Routes <- DirectToIT
  WfhChoices = {FALSE}
  TicketTypes = {"lost"}
  TiedChoices = {TRUE}
  ManualStatuses = {"available"}
  SwapOutStatuses = {"retired"}
  None = None
SPECIFICATION Spec
PROPERTY ExtensionOnlyPushesOut
