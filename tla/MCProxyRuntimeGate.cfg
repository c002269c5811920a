\* Two callers race for the gate while one inbound is served.
CONSTANTS
    Inbounds = {i1}
    Callers = {c1, c2}
    Requests <- SomeRequests
    NoCaller = NoCaller
    NoConfig = NoConfig
    MaxFaults = 1
    MaxEdits = 0
SPECIFICATION FairSpec
INVARIANTS GateExclusive
PROPERTIES EveryCallReturns
