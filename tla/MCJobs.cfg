SPECIFICATION FairSpec
CONSTANTS
    Requests = {r1, r2}
    Workers = {w1, w2}
    MaxTasks = 2
    MaxVersion = 1
    SceneIn = {1}
    MaxLosses = 1
INVARIANTS
    TypeOK
    UnattendedOnlyByLoss
PROPERTIES
    KeepsJobPromise
    DispatchedIsFinished
