SPECIFICATION Spec
CONSTANTS
    Tx = {t1, t2}
    Reader = {r1}
    MaxGen = 5
    MaxSegment = 3
    Crashes = {"process"}
SYMMETRY TxSymmetry
CHECK_DEADLOCK FALSE
INVARIANT
    AcknowledgedSurvives
PROPERTY
    FencedOwnerInert
