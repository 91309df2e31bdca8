SPECIFICATION FilesFairSpec
CONSTANTS
    Subs = {s1, s2}
    MaxCommit = 2
    Lines = {l1, l2}
    Edited = {{}, {l2}, {l1, l2}}
    Concerned = {{s1}, {s1, s2}}
    Plain = {l1}
    RevisionMax = 3
    MaxView = 1
    MaxCrash = 2
    NoFile = noFile
    Garbled = garbled
INVARIANTS
    OneAtATime
    PanicNeedsTimeout
    ToldIsActive
    RevisionKept
    RestartKeeps
PROPERTY
    CommitReturns
CHECK_DEADLOCK FALSE
