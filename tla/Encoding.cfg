SPECIFICATION Spec
CONSTANTS
    HashKey = {"model-hash", "input-hash"}
    PlainKey = {"sequence-num"}
    ClaimOrder <- MCClaimOrder
    v1 = v1  v2 = v2
    Content = {v1, v2}
    None = None
    MaxEntries = 5
    zero = zero  one = one
    Byte = {zero, one}
    Zero = zero
    CHUNK_SIZE = 2
    MaxBytes = 9
INVARIANTS
    DecodesExactly
    RoundTrip
    RootOfContent
    RootIdentifiesModel
CHECK_DEADLOCK FALSE
