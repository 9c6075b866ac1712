CONSTANTS
    p1 = p1
    p2 = p2
    p3 = p3
    None = None
    Proc = {p1, p2, p3}
    Host <- OneHost
    WaitSecs = 1
    Waits = {"zero", "some", "forever"}
SPECIFICATION LFFairSpec
INVARIANTS MutexUnlessRobbed MutexWhileAllLive 
PROPERTIES CallsReturn NewcomerReclaims
CHECK_DEADLOCK FALSE
