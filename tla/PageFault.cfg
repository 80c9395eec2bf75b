SPECIFICATION Spec
CONSTANT NENV = 2
INVARIANT AssertHolds
CHECK_DEADLOCK FALSE
