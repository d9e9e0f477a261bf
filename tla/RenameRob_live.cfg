SPECIFICATION FairSpec
CONSTANTS
    Width = 1
    NumRows = 4
    NumLRegs = 2
    NumPRegs = 4
    MaxBr = 1
    DecUops <- LiveUops
INVARIANT TypeOK
PROPERTIES
    EntriesLeave
    ReadyAgain
