------------------------------ MODULE MCVerifier ------------------------------
(***************************************************************************)
(* Calls for the checks of Verifier: a conforming call, the calls that     *)
(* depart from it in one or two fields, all timestamps of a small width,   *)
(* and calls that differ in identity and sequence only.                    *)
(***************************************************************************)
EXTENDS Verifier

CONSTANTS t1, t2, t3, rootA, rootB, rootC, i1, i2

MCThread1 == {t1}
MCThread3 == {t1, t2, t3}
MCRoot == {rootA, rootB, rootC}
MCTrusted == {rootA, rootB}
MCIdentity == {i1, i2}

(* Conforming at any clock from 4 to 6: made at 4, its attestation         *)
(* document at 4 as well.                                                  *)
Good ==
    [size |-> max_receipt_size, pcrLen |-> PcrLength, cose |-> TRUE,
     alg |-> "EdDSA", uAlg |-> FALSE, crit |-> FALSE, uOther |-> FALSE,
     ctype |-> "cwt", uCtype |-> "none", payload |-> TRUE, claims |-> TRUE,
     attType |-> 3, signature |-> TRUE, document |-> TRUE,
     chain |-> {rootB}, docMs |-> 9, claimTs |-> 4,
     pcr0 |-> "match", pubkey |-> "match", userData |-> "match",
     docNonce |-> "match", claimNonce |-> TRUE, model |-> TRUE,
     input |-> TRUE, output |-> TRUE, identity |-> i1, seq |-> 0]

Departures ==
    {[Good EXCEPT !.size = @ + 1], [Good EXCEPT !.size = 0],
     [Good EXCEPT !.pcrLen = @ - 1], [Good EXCEPT !.pcrLen = @ + 1],
     [Good EXCEPT !.cose = FALSE], [Good EXCEPT !.alg = "other"],
     [Good EXCEPT !.alg = "none"], [Good EXCEPT !.uAlg = TRUE],
     [Good EXCEPT !.crit = TRUE], [Good EXCEPT !.uOther = TRUE],
     [Good EXCEPT !.ctype = "other"], [Good EXCEPT !.ctype = "none"],
     [Good EXCEPT !.uCtype = "cwt"], [Good EXCEPT !.uCtype = "other"],
     [Good EXCEPT !.payload = FALSE], [Good EXCEPT !.claims = FALSE],
     [Good EXCEPT !.attType = 1], [Good EXCEPT !.signature = FALSE],
     [Good EXCEPT !.document = FALSE], [Good EXCEPT !.chain = {}],
     [Good EXCEPT !.chain = {rootC}], [Good EXCEPT !.chain = {rootA, rootC}],
     [Good EXCEPT !.docMs = 0], [Good EXCEPT !.claimTs = 0]}
    \cup {[Good EXCEPT !.pcr0 = m] : m \in Match}
    \cup {[Good EXCEPT !.pubkey = m] : m \in Match}
    \cup {[Good EXCEPT !.userData = m] : m \in Match}
    \cup {[Good EXCEPT !.docNonce = m] : m \in Match}
    \cup {[Good EXCEPT !.claimNonce = FALSE], [Good EXCEPT !.model = FALSE],
          [Good EXCEPT !.input = FALSE], [Good EXCEPT !.output = FALSE]}

MCDepartingCalls ==
    {[f \in DOMAIN Good |-> IF a[f] # Good[f] THEN a[f] ELSE b[f]] :
        a \in Departures, b \in Departures}

MCTimedCalls ==
    {[Good EXCEPT !.docMs = d, !.claimTs = s] : d \in 0..UMax, s \in IMin..IMax}

MCCheckedCalls == MCDepartingCalls \cup MCTimedCalls

MCSequencedCalls ==
    {[Good EXCEPT !.identity = i, !.seq = n] : i \in Identity, n \in 0..1}

(* Turned away by the first check: it keeps a thread out of the way.       *)
TooLarge == [Good EXCEPT !.size = @ + 1]

MCCalls == MCCheckedCalls \cup MCSequencedCalls

(* One thread makes any call while the others are turned away, or all make *)
(* calls that only the sequence check can refuse.                          *)
MCBatch ==
    {[u \in Thread |-> IF u = t1 THEN c ELSE TooLarge] : c \in MCCheckedCalls}
    \cup [Thread -> MCSequencedCalls]

MCTimedBatch == [Thread -> MCTimedCalls]

=============================================================================
