\* The roots a PEM text brings in, and the documents they vouch for.
SPECIFICATION Spec
CONSTANTS
    b1 = b1
    b2 = b2
    Body = {b1, b2}
    CertOf <- MCCertOf
    Allowlist <- MCAllowlist
    pinned = TRUE
    MaxLines = 8
    Doc <- MCDoc
    Cert <- MCCert
    NoDoc = NoDoc
    NoLimit = NoLimit
    MaxClock = 2
INVARIANTS
    RootsApproved
    ParsersInStep
    AcceptedIsAnchored
    RefusedHasNoPath
CHECK_DEADLOCK FALSE
