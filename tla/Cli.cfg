SPECIFICATION Spec
CONSTANTS
    c1 = c1  c2 = c2  c3 = c3  c4 = c4  mock = mock  other = other
    Command <- MCCommand
    Identity <- MCIdentity
    Mock <- mock
    Foreign <- MCForeign
    Elsewhere = Elsewhere
SYMMETRY MCSymmetry
INVARIANTS
    TypeOK
    AcceptedIsKept
PROPERTIES
    VerifiedIsNew
    TornIsTerminal
CHECK_DEADLOCK FALSE
