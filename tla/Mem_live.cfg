SPECIFICATION FairSpec
CONSTANTS
    MAX_LD_COUNT = 1
    MAX_BR_COUNT = 1
    num_ld_entries = 2
    num_st_entries = 3
    num_rob_rows = 3
    MaxReplays = 1
    Bytes = {1}
    Val = {0}
    DataOf <- Same
    Mem0 <- Zero
    Kinds = {"load", "store", "fence"}
    LdAcc <- Signs
    StAcc <- Words
    Misaligned = {}
    CacheBusy = TRUE
    TrapSkid = FALSE
PROPERTIES HeadMoves StoresDrain
