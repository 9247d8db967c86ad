SPECIFICATION BuildSpec
INVARIANT DisableLeavesRest
CHECK_DEADLOCK FALSE
