SPECIFICATION Spec
CONSTANTS
  StaticSlots = 12
  SlotsPerPage = 3
  NumPages = 5
  UINTPTR_MAX = 100000
  AddInputs <- AllInputs
  AllocTypes = {}
  AllocCounts = {}
  GetSizes = {}
  CallKinds = {"add"}
  MaxCalls = 3
INVARIANT TreeInsertSucceeds
CHECK_DEADLOCK FALSE
