SPECIFICATION Spec
CONSTANTS
    NoInode = NoInode
    Proc = {p1, p2, p3}
    Inode = {i1, i2, i3, i4}
    MaxCrash = 2
SYMMETRY Symmetry
INVARIANT MutualExclusion
