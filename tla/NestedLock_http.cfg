CONSTANTS
    s1 = s1
    s2 = s2
    s3 = s3
    None = None
    Sess = {s1, s2}
    Http = {s1}
    Atime = TRUE
    Env = {}
SPECIFICATION Spec
INVARIANT NestedExclusion
CHECK_DEADLOCK FALSE
