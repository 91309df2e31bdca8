SPECIFICATION FairWatcherSpec
CONSTANTS
    Keys = {k1, k2}
    VrfKeys = {k1}
    MaxRev = 4
    MaxFail = 2
    MaxUpdate = 2
INVARIANTS
    NoPutLost
PROPERTIES
    NeverOlder
    PutsArrive
CHECK_DEADLOCK FALSE
