SPECIFICATION RunnerSpec
CONSTANTS
 Inbounds = {i1, i2}
 StartRows <- Rows
 ApplyModes = {"auto", "xray"}
 MaxFaults = 2
 MaxEdits = 1
INVARIANTS ReadyServesRevision FailedApplyLeavesFiles AppliedIsServed
CHECK_DEADLOCK FALSE
