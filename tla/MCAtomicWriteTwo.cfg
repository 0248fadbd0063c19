SPECIFICATION Spec
CONSTANTS
    Writers = {w1, w2}
    Inodes = {i1, i2, i3, i4}
    NoInode = NoInode
    NumBlocks = 2
    MaxWrites = 2
    DirSyncReliable = TRUE
SYMMETRY InodeSymmetry
INVARIANTS
    NeverTorn
CHECK_DEADLOCK FALSE
