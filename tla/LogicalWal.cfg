SPECIFICATION Spec
CONSTANTS
    Tx = {t1, t2, t3, t4}
    Reader = {r1}
    MaxGroup = 2
    MaxPrepared = 2
    NoPosition = NoPosition
SYMMETRY TxSymmetry
INVARIANTS
    TypeOK
    CanceledNeverRecovered
    CommittedNeverLost
    ProgressOrdered
    OpenWriterAtEnd
    ReadersSeeTheirCapture
PROPERTIES
    DevicePrefixGrows
    FencedOwnerIsInert
    ImplementsDurableLog
