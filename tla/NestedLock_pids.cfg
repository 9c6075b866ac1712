CONSTANTS
    s1 = s1
    s2 = s2
    s3 = s3
    None = None
    Sess = {s1, s2, s3}
    Http = {}
    Atime = FALSE
    Env = {}
SPECIFICATION FairSpec
INVARIANTS  NestedExclusion   QuietClean  MutexReturned
PROPERTIES  NestedSurvivor
CHECK_DEADLOCK FALSE
