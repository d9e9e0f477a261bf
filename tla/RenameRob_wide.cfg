SPECIFICATION Spec
CONSTANTS
    Width = 2
    NumRows = 3
    NumLRegs = 2
    NumPRegs = 5
    MaxBr = 2
    DecUops <- WideUops
INVARIANTS
    OneOwner
    SnapshotsExact
    BranchMasksExact
    RowsOccupied
    ExceptionPrecise
PROPERTY PreciseState
VIEW LiveView
