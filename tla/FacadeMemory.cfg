SPECIFICATION FairSpec
CONSTANTS
    Thread = {t1, t2, t3}
    MaxGraph = 2
    MaxTx = 2
    MaxWrites = 1
    Calls = {"explicit", "implicit", "catalog"}
    ReadingOnly = {t3}
    Workload <- MCWorkload
    Durable = FALSE
INVARIANTS StateIsSerial
PROPERTIES CallsReturn
CHECK_DEADLOCK FALSE
