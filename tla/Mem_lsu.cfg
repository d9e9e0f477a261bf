SPECIFICATION Spec
CONSTANTS
    MAX_LD_COUNT = 2
    MAX_BR_COUNT = 1
    num_ld_entries = 2
    num_st_entries = 4
    num_rob_rows = 3
    MaxReplays = 1
    Bytes = {1}
    Val = {0, 1, 2}
    DataOf <- Own
    Mem0 <- Zero
    Kinds = {"load", "store", "branch"}
    LdAcc <- Words
    StAcc <- Words
    Misaligned = {"sta"}
    CacheBusy = FALSE
    TrapSkid = FALSE
INVARIANTS LoadsRight    OneOwnerPerSlot
