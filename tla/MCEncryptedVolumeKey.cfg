SPECIFICATION Spec
CONSTANTS
    NumDisks = 1
    Indexes = {1}
    NvIndex <- MCNvIndex
    Configs <- MCOneDisk
    OldKey = k1
    Keys = {k1, k2, k3}
    NoKey = NoKey
    Pcrs = {p1, p2}
INVARIANTS
    KeyHeldInTpm
