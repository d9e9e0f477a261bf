SPECIFICATION FairSpec
CONSTANTS
    NumRows = 3
    NumLRegs = 2
    NumPRegs = 4
    NumSlots = 4
    MaxBr = 2
    HighPriority = {}
    Insts <- Chain
INVARIANTS OperandsRight ReadyBitsExact InOnePlace
PROPERTY RowsLeave
