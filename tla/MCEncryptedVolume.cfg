SPECIFICATION Spec
CONSTANTS
    NumDisks = 2
    Indexes = {1, 2}
    NvIndex <- MCNvIndex
    Configs <- MCConfigs
    OldKey = k1
    Keys = {k1, k2, k3}
    NoKey = NoKey
    Pcrs = {p1, p2}
INVARIANTS
    TypeOK
    UsedVolumeSealed
PROPERTIES
    DataKept
    BootsAgain
