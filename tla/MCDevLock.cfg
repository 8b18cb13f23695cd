CONSTANTS
    t1 = t1
    t2 = t2
    Threads = {t1, t2}
    Main = main
    Nobody = nobody
    Prologue <- MCPrologue
    MaxWrites = 3
SPECIFICATION Spec
INVARIANTS
    ReadsNeverBlock
    NoLostWakeup
    YieldForWriter
PROPERTIES
    NoNewReaders
    WritesHappen
    ReadersReturn
    ExitSpreads
    CleanedUp
CHECK_DEADLOCK FALSE
