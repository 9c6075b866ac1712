CONSTANTS
    MaxDeltas = 6
    MaxTags = 2
    MaxMerges = 1
    MaxElsewhere = 0
SPECIFICATION Spec
INVARIANTS KSTypeOK NothingMissed Exact TagMatchKnown ProbeIsShort
CHECK_DEADLOCK FALSE
