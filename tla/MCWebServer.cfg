SPECIFICATION Spec
CONSTANTS
    s1 = s1
    s2 = s2
    c1 = c1
    c2 = c2
    Sites = {s1, s2}
    Callers = {c1, c2}
    NoCaller = NoCaller
    DomainOf <- OwnDomains
    TLSModes <- NoneOrACME
    Issuing = TRUE
    MaxOps = 2
    MaxFaults = 1
CHECK_DEADLOCK FALSE
INVARIANTS ServesEnabledSites
PROPERTIES OnlyNestingBlocks
