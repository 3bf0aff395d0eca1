SPECIFICATION Spec
CONSTANTS
  StaticSlots = 12
  SlotsPerPage = 3
  NumPages = 5
  UINTPTR_MAX = 100000
  AddInputs <- AllInputs
  AllocTypes = {}
  AllocCounts = {}
  GetSizes = {}
  CallKinds = {"add", "clean"}
  MaxCalls = 3
INVARIANT WholePages
INVARIANT NoOverlap
PROPERTY ImplementsPageMap
CHECK_DEADLOCK FALSE
