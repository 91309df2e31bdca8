SPECIFICATION FairSpec
CONSTANTS
    Clis = {c1, c2}
    Ribds = {r1}
    MaxWatch = 2
    MaxEdit = 2
    MaxEntered = 2
    MaxVrf = 1
    Sections = {1, 2}
INVARIANTS
    OneWatcher
    NoCircle
PROPERTY
    EveryoneEnds
CHECK_DEADLOCK FALSE
