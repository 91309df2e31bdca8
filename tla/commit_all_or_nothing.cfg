SPECIFICATION Spec
CONSTANTS
    l1 = l1  l2 = l2  p1 = p1  p2 = p2
    Lines = {l1, l2}
    Paths = {p1, p2}
    PathOf <- MCPathOf
    Mandatory <- MCMandatory
    Streams = {s1, s2}
    JsonStreams = {}
    Local = local
    LocalPaths = {p2}
    Requests <- MCRequests
    PushLines = {l2}
    TwoPhase = TRUE
    ZeroConfig = FALSE
INVARIANT
    AllOrNothing
