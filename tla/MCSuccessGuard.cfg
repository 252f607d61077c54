SPECIFICATION FairSpec
CONSTANTS
    Bodies <- MCBodies
    MaxBody = 6
    MaxBytes = 3
    MaxPending = 4
    Overlap = 1
INVARIANTS
    TypeOK
    PrefixReplayedOnce
    CleanEndIsWhole
    
PROPERTY GuardAndStreamEnd
