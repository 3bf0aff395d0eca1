SPECIFICATION Spec
CONSTANTS
  StaticSlots = 2
  SlotsPerPage = 2
  NumPages = 7
  UINTPTR_MAX = 24575
  AddInputs <- ScavengeInputs
  AllocTypes = {"loader_data", "loader_code"}
  AllocCounts = {0, 1, 2}
  GetSizes = {1, 8}
  CallKinds = {"add", "alloc", "free", "get"}
  MaxCalls = 5
INVARIANT TypeOK
INVARIANT SlotAccounting
INVARIANT SlotPagesKept
INVARIANT WholePages
INVARIANT NoOverlap
INVARIANT GrantsHeld
INVARIANT KeyTracksMap
PROPERTY ImplementsPageMap
CHECK_DEADLOCK FALSE
