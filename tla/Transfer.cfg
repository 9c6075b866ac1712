CONSTANTS
    Clients = {c1, c2}
    Bam = {TRUE, FALSE}
    MaxCsets = 4
SPECIFICATION FairSpec
INVARIANTS TrTypeOK AllWhole OnlySupersets BamComplete
PROPERTIES PushedIsThere ResyncSettles
