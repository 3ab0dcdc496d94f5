SPECIFICATION FairSpec
CONSTANTS
    p1 = p1  p2 = p2
    r1 = r1  r2 = r2  r3 = r3
    x1 = x1  x2 = x2  x3 = x3
    i1 = i1  i2 = i2
    c1 = c1  c2 = c2
    Proc <- MCProc
    Req <- MCReq3
    Receipt <- MCReceipt1
    Identity <- MCIdentity1
    Challenge <- MCChallenge1
    IdentityOf <- MCIdentityOf
    SeqOf <- MCSeqOf
    NonceOf <- MCNonceOf1
    NoReq = NoReq
    NoFile = NoFile
    RequireChallenge = TRUE
    Faults = {"open", "stat", "crash", "cancel"}
PROPERTIES
    EveryRequestAnswered
INVARIANTS
    ChallengeAcceptedOnce
    SpentChallengeStaysSpent
CHECK_DEADLOCK FALSE
