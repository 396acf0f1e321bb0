\* One run of every job, in either mode, with its monitor.
SPECIFICATION RunSpec
INVARIANTS HeldWhileSampled OneObject OkIsEarned CapIsRecorded
PROPERTIES Answered RunIsRecorded
CHECK_DEADLOCK FALSE
