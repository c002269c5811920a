SPECIFICATION Spec
CONSTANTS
 i1 = i1
 Inbounds = {i1}
 StartRows <- OneVless
 ApplyModes = {"auto"}
 MaxFaults = 1
 MaxEdits = 0
 Requests = {r1}
 Boxes = {b1, b2}
 FirstBox = b1
 NoBox = nobox
 Images = {v1, v2, v3}
 FirstImage = v1
 Signed = {v1, v2}
 Sound = {v1, v2}
 RunnerNames = {"zenith-proxy", "panel-old"}
 MaxSubmits = 2
 MaxMoves = 1
 MaxPolls = 3
INVARIANTS TrialKeepsOld  
PROPERTIES UpdateSparesRunner
CHECK_DEADLOCK FALSE
