------------------------------ MODULE MCEncoding ------------------------------
(***************************************************************************)
(* Every map of up to five entries over three of the ten claims, two of 32 *)
(* bytes and one plain; and every file of up to nine bytes in chunks of    *)
(* two, which makes trees that are odd on two levels.  The two have no     *)
(* state in common, so one of them runs at a time.                         *)
(***************************************************************************)
EXTENDS ClaimsCodec, MerkleHash

CONSTANTS v1, v2, zero, one

MCClaimOrder == <<"model-hash", "input-hash", "sequence-num">>

Init == CodecInit /\ HashInit

Next ==
    \/ content = <<>> /\ stage = "reading" /\ CodecNext /\ UNCHANGED hashVars
    \/ decoder = NewDecoder /\ HashNext /\ UNCHANGED codecVars

Spec == Init /\ [][Next]_<<codecVars, hashVars>>

=============================================================================
