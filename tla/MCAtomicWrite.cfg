SPECIFICATION Spec
CONSTANTS
    Writers = {w1}
    Inodes = {i1, i2, i3, i4}
    NoInode = NoInode
    NumBlocks = 2
    MaxWrites = 3
    DirSyncReliable = TRUE
SYMMETRY InodeSymmetry
INVARIANTS
    TypeOK
    NeverTorn
    NoRollback
PROPERTIES
    ImplementsCell
CHECK_DEADLOCK FALSE
