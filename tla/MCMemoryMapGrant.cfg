SPECIFICATION Spec
CONSTANTS
  StaticSlots = 2
  SlotsPerPage = 2
  NumPages = 7
  UINTPTR_MAX = 100000
  AddInputs <- ScavengeInputs
  AllocTypes = {"loader_data", "loader_code"}
  AllocCounts = {0, 1, 2}
  GetSizes = {}
  CallKinds = {"add", "alloc"}
  MaxCalls = 5
INVARIANT GrantsExclusive
CHECK_DEADLOCK FALSE
