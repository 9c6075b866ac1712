CONSTANTS
    p1 = p1
    p2 = p2
    p3 = p3
    None = None
    Proc = {p1, p2}
    Host <- OneHost
    WaitSecs = 1
    Waits = {"zero"}
    Tries = 2
    Admin = {"global"}
SPECIFICATION FairSpec
INVARIANTS ResyncBlocks 
PROPERTIES ImplementsRWLock CallReturns SurvivorGetsLock
CHECK_DEADLOCK FALSE
