SPECIFICATION Spec
CONSTANTS
    Requests = {r1, r2}
    Workers = {w1}
    MaxTasks = 2
    MaxVersion = 2
    SceneIn = {2}
    MaxLosses = 0
PROPERTIES
    OnlyLaterVersionsCloseFindings
