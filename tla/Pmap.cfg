SPECIFICATION Spec
CONSTANTS
  MAX_CLASS = 1
  RootClass = 3
  MAX_ALLOCATION_CLASS = 1
  Spaces = {s1, s2}
  Allocatable <- Attached
  ZeroPage <- Zero
SYMMETRY Perms
INVARIANTS RefsExact FreeListsExact HardwareMatchesTree 
CHECK_DEADLOCK FALSE
