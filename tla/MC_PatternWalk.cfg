\* Date arithmetic against a walk that counts days.
CONSTANTS
    Null = Null
    Schedules <- AllSchedules
    Reach = 38
SPECIFICATION Spec
INVARIANTS CustodianFollowsTheWalk PresetsAreFair
CHECK_DEADLOCK FALSE
