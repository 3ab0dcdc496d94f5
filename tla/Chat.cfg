SPECIFICATION ChatFairSpec
CONSTANTS
    t1 = t1  t2 = t2  t3 = t3  e1 = e1
    Task <- MCTask
    FirstSeq = 1
    SeqMax = 3
    MaxClock = 2
    NoTask = NoTask
    Slots = 2
    InlineVerify = TRUE
    Stateful = TRUE
    RequireNonce = FALSE
    Enclave = e1
    max_clock_skew = 1
    max_receipt_age = 1
    AlignmentLimit = 0
    MsPerSec = 2
INVARIANTS
    ChatTypeOK
    CompletionOrder
    NothingLost
    TimesFollowSequence
    Capacity
    InlineRefusalExplained
PROPERTIES
    ExhaustionIsTerminal
    BusyOnlyWhenInferring
    InlineLedger
    HungInferenceBlocksNobody
CHECK_DEADLOCK FALSE
