CONSTANTS
  Items = {i1}
  Requests = {r1, r2}
  Users = {u1, u2}
  Tickets = {}
  Extensions = {x1}
  Categories = {c1, c2}
  ClientItems = {}
  MaxDay = 2
  Routes = {}
  WfhChoices = {FALSE}
  TicketTypes = {}
  TiedChoices = {}
  ManualStatuses = {"available", "lost"}
  SwapOutStatuses = {}
  None = None
  SeedKinds = {"queue", "denied", "past", "office", "mailed"}
  SeedSpares = {"available"}
  SeedDesk = TRUE
SPECIFICATION SeededSpec
SYMMETRY IdSymmetry
INVARIANTS
  AssertsHold
  NobodyElseHoldsIt
  ApprovedWithConsent
PROPERTIES
  DecidedExtensionIsFinal
