SPECIFICATION Spec
CONSTANTS
    Vrfs <- MCVrfs
    Ifs <- MCIfs
    Physical <- MCPhysical
    VlanOf <- MCVlanOf
    Cfgs <- MCCfgs
    MaxFault = 1
INVARIANTS
    Converged
    Withdrawn
    Daemons
    WalkerRight
    Hitless
PROPERTIES
    VrfKept
