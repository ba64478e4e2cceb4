SPECIFICATION Spec
CONSTANTS
    Thread = {t1, t2}
    MaxGraph = 2
    MaxTx = 3
    MaxWrites = 1
    Calls = {"implicit", "catalog"}
    ReadingOnly = {}
    Workload <- MCWorkload
    Durable = TRUE
SYMMETRY ThreadSymmetry
INVARIANTS RecoveryExact IdentityNeverReused
