SPECIFICATION Spec
CONSTANTS
    Texts = {t1, t2}
    Parts = 2
    Workers = {w1}
    None = None
    MaxVersions = 2
    MaxJobs = 2
    MaxAttempts = 2
    MaxDoing = 1
    MaxCrashes = 0
CHECK_DEADLOCK FALSE
INVARIANT IssuedTextIsHashed
