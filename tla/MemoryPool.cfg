\* Three threads and two blocks of three slots: in the first one padding shifts
\* the slots and the last one ends with the block, in the second a tail is left.
SPECIFICATION Spec
CONSTANTS
    Threads = {t1, t2, t3}
    BlockSize_ = 64
    SLOT_BASE_SIZE = 8
    MAX_SLOT_SIZE = 32
    Index = 1
    PtrSize = 8
    AddrSpace = 256
    Bases = {16, 104}
SYMMETRY Symmetry
INVARIANTS
    Exclusive
    InsideBlock
