SPECIFICATION Spec
CONSTANTS
    Thread = {t1, t2}
    MaxGraph = 2
    MaxTx = 2
    MaxWrites = 2
    Calls = {"explicit", "read_only", "implicit", "catalog", "read"}
    ReadingOnly = {}
    Workload <- MCWorkload
    Durable = TRUE
SYMMETRY ThreadSymmetry
INVARIANTS TypeOK StateIsSerial TransactionIsolated OutcomesTruthful LogAhead LeasedGraphRegistered
