SPECIFICATION Spec
CONSTANTS
    Deployments = {d1, d2}
    NoDeployment = NoDeployment
    Plan <- Preset
    Contents = {x, y}
    Absent = Absent
    MaxFaults = 2
    MaxCrashes = 1
    MaxEdits = 1
SYMMETRY Symmetry
INVARIANTS JournalKnowsInbounds RolledBackIsGone FilesRestored
PROPERTIES SucceededIsServed
