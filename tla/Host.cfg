SPECIFICATION FairSpec
CONSTANTS
    LineWords = 2
    NumLines = 3
    Values = {0, 1}
    Packets <- MCPackets
INVARIANTS  MemoryExact MailboxInOrder
 
