SPECIFICATION Spec
CONSTANTS
    a0 = a0  a1 = a1  a2 = a2  p1 = p1  q1 = q1  q2 = q2
    if1 = if1  if2 = if2  c1 = c1  c2 = c2  r1 = r1  r2 = r2  v1 = v1  w1 = w1  w2 = w2
    None = none
    NoInstance = noInstance
    Ids = {i1, i2}
    Addrs = {a0, a1, a2}
    Peers = {q1, q2}
    VrfOf <- MCVrfOf
    GobgpVrfs = {v1}
    VrfConfigs <- MCVrfConfigs
    Bodies <- MCBodies
    WanConfigs = {w1, w2}
    QuaggaVrfs = {v1}
    Interfaces = {if1, if2}
    Instances = {c1, c2}
    Neighbors <- MCNeighbors
    QuaggaValues <- MCQuaggaValues
    WanValues <- MCWanValues
    Roles <- MCRoles
    Ports = {e1, e2, e3}
    NoPort = noPort
    MaxExpiry = 1
    MaxEvent = 3
    MaxSync = 5
    MaxCli = 1
    MaxFault = 2
INVARIANTS
    
    GobgpRemembers
    ZebraRetried
    WanFollows
    BgpdsFollowKey
    BgpdsStop
    StatesExact
SYMMETRY MCSymmetry
CHECK_DEADLOCK FALSE
