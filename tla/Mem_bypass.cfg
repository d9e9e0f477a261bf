SPECIFICATION Spec
CONSTANTS
    MAX_LD_COUNT = 2
    MAX_BR_COUNT = 1
    num_ld_entries = 2
    num_st_entries = 4
    num_rob_rows = 4
    MaxReplays = 1
    Bytes = {1}
    Val = {0, 1, 2}
    DataOf <- Own
    Mem0 <- Zero
    Kinds = {"load", "store"}
    LdAcc <- Words
    StAcc <- Words
    Misaligned = {}
    CacheBusy = FALSE
    TrapSkid = FALSE
INVARIANT LoadsRight
