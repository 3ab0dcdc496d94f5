--------------------------- MODULE MCVerifierService ---------------------------
(***************************************************************************)
(* Two service processes on one host.  Receipts x1 and x2 come from one    *)
(* enclave identity, in that order; x3 comes from another.  They are bound *)
(* to one nonce, or, with MCNonceOf2, x2 is bound to a second one.         *)
(***************************************************************************)
EXTENDS VerifierService, TLC

CONSTANTS p1, p2, r1, r2, r3, x1, x2, x3, i1, i2, c1, c2

MCProc == {p1, p2}
MCReq2 == {r1, r2}
MCReq3 == {r1, r2, r3}
MCReceipt1 == {x1}
MCReceipt2 == {x1, x2}
MCReceipt3 == {x1, x2, x3}
MCIdentity1 == {i1}
MCIdentity2 == {i1, i2}
MCChallenge1 == {c1}
MCChallenge2 == {c1, c2}

MCIdentityOf == [x \in Receipt |-> IF x = x3 THEN i2 ELSE i1]
MCSeqOf == [x \in Receipt |-> IF x = x2 THEN 1 ELSE 0]
MCNonceOf2 == [x \in Receipt |-> IF x = x2 THEN c2 ELSE c1]
MCNonceOf1 == [x \in Receipt |-> c1]

(* Requests are alike, and so are processes.                               *)
MCSymmetry == Permutations(Req) \cup Permutations(Proc)

=============================================================================
