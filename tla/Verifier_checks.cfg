SPECIFICATION Spec
CONSTANTS
    t1 = t1  t2 = t2  t3 = t3
    rootA = rootA  rootB = rootB  rootC = rootC
    i1 = i1  i2 = i2
    Thread <- MCThread3
    Call <- MCCalls
    Batch <- MCBatch
    Identity <- MCIdentity
    Root <- MCRoot
    trusted_roots <- MCTrusted
    stateful = TRUE
    max_receipt_size = 3
    max_clock_skew = 3
    max_receipt_age = 4
    PcrLength = 2
    AlignmentLimit = 1
    MsPerSec = 2
    IMax = 15
    MaxClock = 10
INVARIANTS
    TypeOK
    AcceptedOnce
    AcceptsExactlyConforming
    OverflowOnlyInAge
    DocumentWindow
CHECK_DEADLOCK FALSE
