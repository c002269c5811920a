\* Two inbounds, so that both engines can have work, and one caller: every
\* failure of an apply, and every edit of the table, at every point of it.
CONSTANTS
    Inbounds = {i1, i2}
    Callers = {c1}
    Requests <- AllRequests
    NoCaller = NoCaller
    NoConfig = NoConfig
    MaxFaults = 1
    MaxEdits = 1
SYMMETRY Symmetry
SPECIFICATION Spec
INVARIANTS UnchangedIsLeftAlone PortsReleased
PROPERTIES AbortRestores AppliedServesTable ImplementsTxn
