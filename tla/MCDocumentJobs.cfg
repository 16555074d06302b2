SPECIFICATION Spec
CONSTANTS
    Texts = {t1}
    Parts = 2
    Workers = {w1, w2}
    None = None
    MaxVersions = 2
    MaxJobs = 2
    MaxAttempts = 2
    MaxDoing = 2
    MaxCrashes = 1
INVARIANTS
    TypeOK
    OneWorkerPerJob
    CompletedIsStored
    StatusIsServed
PROPERTIES
    EveryJobEnds
CHECK_DEADLOCK FALSE
