SPECIFICATION Spec
CONSTANTS
    Tx = {t1, t2}
    Reader = {r1}
    MaxGen = 5
    MaxSegment = 3
    Crashes = {"process", "power"}
SYMMETRY TxSymmetry
CHECK_DEADLOCK FALSE
INVARIANTS
    TypeOK
    SelectableRootsComplete
    SettledSurvives
    LeasedRootsComplete
    PreviousRootKept
    OwnerMatchesCurrent
PROPERTY
    ReplacementKeepsContents
