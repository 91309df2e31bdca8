SPECIFICATION FairWatcherSpec
CONSTANTS
    Keys = {k1}
    VrfKeys = {k1}
    MaxRev = 2
    MaxFail = 1
    MaxUpdate = 1
PROPERTY
    Resynced
CHECK_DEADLOCK FALSE
