SPECIFICATION RunSpec
INVARIANT TimeLimitIsTO
CHECK_DEADLOCK FALSE
