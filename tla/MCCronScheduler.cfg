SPECIFICATION Spec
CONSTANTS
    Jobs = {j1, j2}
    Callers = {c1, c2, c3}
    NoCaller = NoCaller
    NoJob = NoJob
    MaxOps = 4
    MaxFaults = 1
SYMMETRY Symmetry
CHECK_DEADLOCK FALSE
INVARIANTS  BookMatchesInstance OneInstanceAtRest
