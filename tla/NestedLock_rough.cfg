CONSTANTS
    s1 = s1
    s2 = s2
    s3 = s3
    None = None
    Sess = {s1, s2}
    Http = {s1}
    Atime = TRUE
    Env = {"unlock -r", "unlock -w", "lock -l", "stall", "full", "deny"}
SPECIFICATION FairSpec
 
PROPERTIES NestedReturns
CHECK_DEADLOCK FALSE
