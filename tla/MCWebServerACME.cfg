SPECIFICATION Spec
CONSTANTS
    s1 = s1
    s2 = s2
    c1 = c1
    c2 = c2
    Sites = {s1, s2}
    Callers = {c1, c2}
    NoCaller = NoCaller
    DomainOf <- OwnDomains
    TLSModes <- AllTLSModes
    Issuing = FALSE
    MaxOps = 2
    MaxFaults = 0
CHECK_DEADLOCK FALSE
PROPERTY EveryCallReturns
