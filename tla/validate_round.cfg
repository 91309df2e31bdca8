SPECIFICATION Spec
CONSTANTS
    Subs = {s1, s2}
    MaxRound = 3
INVARIANTS
    AcceptedOnly
    PanicNeedsOverlap
PROPERTY
    ImplementsValidation
CHECK_DEADLOCK FALSE
SYMMETRY Symmetry
CONSTRAINTS
    LastRound
    OneLeftover
