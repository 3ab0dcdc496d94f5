------------------------------- MODULE Verifier -------------------------------
(***************************************************************************)
(* Verifier::verify (crates/veriai-core/src/verify.rs): the ordered checks *)
(* a receipt goes through, each with its early return, run by any number   *)
(* of threads that share one Verifier and so one replay map.               *)
(*                                                                         *)
(* A call is a record of what its checks look at.  verify() has two ways   *)
(* to say no: Err(e), which callers treat as an infrastructure error, and  *)
(* Ok with valid = false and an error inside.  Machine integers keep a     *)
(* width: i64 is IMin..IMax and u64 is 0..UMax.                            *)
(***************************************************************************)
EXTENDS Integers, FiniteSetsExt

CONSTANTS
    Thread,          \* concurrent calls of verify()
    Call,            \* the calls considered: see CallType
    Batch,           \* Thread -> Call: the calls that are made together
    Identity,        \* enclave identity fingerprints
    Root,            \* root certificates
    trusted_roots,   \* the roots this verifier was built with
    stateful,        \* whether it keeps a replay map
    max_receipt_size, max_clock_skew, max_receipt_age,   \* VerifierConfig
    PcrLength,       \* 48 bytes
    AlignmentLimit,  \* 5 seconds between attestation document and receipt
    MsPerSec,        \* 1000 milliseconds in a second
    IMax,            \* i64::MAX
    MaxClock         \* bound of the clock

IMin == -IMax - 1
UMax == 2 * IMax + 1

ASSUME RootsAssumption == trusted_roots \subseteq Root
ASSUME StatefulAssumption == stateful \in BOOLEAN
ASSUME WidthAssumption ==
    /\ IMax \in Nat \ {0}
    /\ MsPerSec \in Nat /\ MsPerSec >= 2
    /\ MaxClock \in 0..IMax
    /\ max_clock_skew \in 0..IMax /\ max_receipt_age \in 0..IMax
    /\ AlignmentLimit \in 0..IMax
ASSUME SizesAssumption == max_receipt_size \in Nat /\ PcrLength \in Nat

(* A field of the attestation document against what is expected of it.     *)
Match == {"match", "differs", "missing"}
ContentType == {"cwt", "other", "none"}

CallType ==
    [size : Nat,                 \* receipt_bytes.len()
     pcrLen : Nat,               \* expected_pcr0.len()
     cose : BOOLEAN,             \* the receipt parses as COSE_Sign1
     alg : {"EdDSA", "other", "none"},        \* protected algorithm
     uAlg : BOOLEAN,             \* an algorithm in the unprotected header
     crit : BOOLEAN,             \* critical headers, either side
     uOther : BOOLEAN,           \* any other unprotected header
     ctype : ContentType,        \* content type, protected
     uCtype : ContentType,       \* content type, unprotected
     payload : BOOLEAN,          \* there is a payload ...
     claims : BOOLEAN,           \* ... and it decodes to VeriClaims
     attType : Nat,              \* attestation_type
     signature : BOOLEAN,        \* Ed25519 under claims.enclave_pubkey
     document : BOOLEAN,         \* the attestation parses, with a payload
     chain : SUBSET Root,        \* roots under which the provider verifies it
     docMs : 0..UMax,            \* its timestamp, milliseconds, u64
     claimTs : IMin..IMax,       \* attestation_timestamp, seconds, i64
     pcr0 : Match, pubkey : Match, userData : Match, docNonce : Match,
     claimNonce : BOOLEAN, model : BOOLEAN, input : BOOLEAN,
     output : BOOLEAN,
     identity : Identity, seq : Nat]

ASSUME CallAssumption == Call \subseteq CallType
ASSUME BatchAssumption == Batch \subseteq [Thread -> Call]

-----------------------------------------------------------------------------
(* Verdicts, and the checks as lists of faults in the order of the code.   *)

Pass == [ret |-> "pass", error |-> "none"]
Valid == [ret |-> "valid", error |-> "none"]
Err(e) == [ret |-> "Err", error |-> e]
Refused(e) == [ret |-> "invalid", error |-> e]

(* The early return of the first fault that is there.                      *)
FirstFault(faults) ==
    LET found == {i \in DOMAIN faults : faults[i][1]}
    IN  IF found = {} THEN Pass ELSE faults[Min(found)][2]

UnprotectedNonEmpty(c) ==
    c.uAlg \/ c.uOther \/ c.uCtype # "none"

(* Size, expected PCR0, COSE structure and headers, payload, claims.       *)
FormatFaults(c) ==
    << <<c.size > max_receipt_size, Err("ReceiptTooLarge")>>,
       <<c.pcrLen # PcrLength, Err("InvalidPcrLength")>>,
       <<~c.cose, Refused("MalformedReceipt")>>,
       <<c.alg = "none", Err("InvalidProtectedHeader")>>,
       <<c.alg # "EdDSA", Err("UnsupportedAlgorithm")>>,
       <<c.uAlg, Err("AlgorithmInUnprotectedHeader")>>,
       <<c.crit, Err("InvalidProtectedHeader")>>,
       <<UnprotectedNonEmpty(c), Err("InvalidProtectedHeader")>>,
       <<c.ctype # "cwt", Err("InvalidContentType")>>,
       <<~c.payload, Refused("MalformedReceipt")>>,
       <<~c.claims, Refused("MalformedReceipt")>> >>

(* Attestation type, the receipt's signature, the attestation document,    *)
(* and its chain, which must lead to one of the trusted roots.             *)
AttestationFaults(c) ==
    << <<c.attType # 3, Refused("UnsupportedAttestationType")>>,
       <<~c.signature, Refused("InvalidCoseSignature")>>,
       <<~c.document, Refused("InvalidAttestationDocument")>>,
       <<~\E root \in trusted_roots : root \in c.chain,
         Refused("InvalidAttestationDocument")>> >>

InI64(n) == n \in IMin..IMax
Abs(n) == IF n < 0 THEN -n ELSE n

doc_sec(c) == c.docMs \div MsPerSec

(* Mutant: a receipt from the future is not refused for its age.           *)
TimestampFaultsFuture(c, now_sec) ==
    LET skew == now_sec - doc_sec(c)
        receipt_age == now_sec - c.claimTs
        alignment == doc_sec(c) - c.claimTs
    IN  << <<~InI64(skew), Err("InvalidTimestamp of skew")>>,
           <<Abs(skew) > max_clock_skew, Refused("TimestampSkewExceeded")>>,
           <<~InI64(receipt_age), Err("InvalidTimestamp of age")>>,
           <<receipt_age > max_receipt_age, Err("ExpiredReceipt")>>,
           <<~InI64(alignment), Err("InvalidTimestamp of alignment")>>,
           <<Abs(alignment) > AlignmentLimit,
             Refused("AttestationDocTimestampMismatch")>> >>

(* Mutant: the alignment is computed before the age has been bounded.      *)
TimestampFaultsReordered(c, now_sec) ==
    LET skew == now_sec - doc_sec(c)
        receipt_age == now_sec - c.claimTs
        alignment == doc_sec(c) - c.claimTs
    IN  << <<~InI64(skew), Err("InvalidTimestamp of skew")>>,
           <<Abs(skew) > max_clock_skew, Refused("TimestampSkewExceeded")>>,
           <<~InI64(alignment), Err("InvalidTimestamp of alignment")>>,
           <<Abs(alignment) > AlignmentLimit,
             Refused("AttestationDocTimestampMismatch")>>,
           <<~InI64(receipt_age), Err("InvalidTimestamp of age")>>,
           <<receipt_age < 0 \/ receipt_age > max_receipt_age,
             Err("ExpiredReceipt")>> >>

(* Skew, age and alignment.  checked_sub fails where the difference leaves *)
(* i64; the skew and alignment errors are told apart from the age's only   *)
(* to be able to say that they cannot happen.                              *)
TimestampFaults(c, now_sec) ==
    LET skew == now_sec - doc_sec(c)
        receipt_age == now_sec - c.claimTs
        alignment == doc_sec(c) - c.claimTs
    IN  << <<~InI64(skew), Err("InvalidTimestamp of skew")>>,
           <<Abs(skew) > max_clock_skew, Refused("TimestampSkewExceeded")>>,
           <<~InI64(receipt_age), Err("InvalidTimestamp of age")>>,
           <<receipt_age < 0 \/ receipt_age > max_receipt_age,
             Err("ExpiredReceipt")>>,
           <<~InI64(alignment), Err("InvalidTimestamp of alignment")>>,
           <<Abs(alignment) > AlignmentLimit,
             Refused("AttestationDocTimestampMismatch")>> >>

(* Mutant: the nonce is looked for in the claims only.                     *)
BindingFaultsClaimNonce(c) ==
    << <<c.pcr0 # "match", Refused("PcrMismatch")>>,
       <<c.pubkey # "match", Refused("PubkeyBindingMismatch")>>,
       <<c.userData # "match", Refused("ReportDataMismatch")>>,
       <<~c.claimNonce, Refused("NonceMismatch")>>,
       <<~c.model, Refused("ModelHashMismatch")>>,
       <<~c.input, Refused("InputHashMismatch")>>,
       <<~c.output, Refused("OutputHashMismatch")>> >>

(* PCR0, key and REPORTDATA bindings, nonces and hashes.                   *)
BindingFaults(c) ==
    << <<c.pcr0 # "match", Refused("PcrMismatch")>>,
       <<c.pubkey # "match", Refused("PubkeyBindingMismatch")>>,
       <<c.userData # "match", Refused("ReportDataMismatch")>>,
       <<~(c.docNonce = "match" /\ c.claimNonce), Refused("NonceMismatch")>>,
       <<~c.model, Refused("ModelHashMismatch")>>,
       <<~c.input, Refused("InputHashMismatch")>>,
       <<~c.output, Refused("OutputHashMismatch")>> >>

-----------------------------------------------------------------------------
NoSeq == -1

VARIABLES
    clock,     \* SystemTime::now(), in seconds
    state,     \* Identity -> last sequence number, NoSeq when not a key
    pc,        \* Thread -> the stage it is at
    call,      \* Thread -> the call it makes
    now_sec,   \* Thread -> the clock when it was read
    verdict    \* Thread -> what verify() returned

vars == <<clock, state, pc, call, now_sec, verdict>>

Init ==
    /\ clock \in 0..MaxClock
    /\ state = [i \in Identity |-> NoSeq]
    /\ pc = [t \in Thread |-> "idle"]
    /\ call \in Batch
    /\ now_sec = [t \in Thread |-> 0]
    /\ verdict = [t \in Thread |-> Pass]

(* Go to the next stage, or return with the first fault.                   *)
Proceed(t, faults, next) ==
    LET v == FirstFault(faults)
    IN  /\ pc' = [pc EXCEPT ![t] = IF v = Pass THEN next ELSE "done"]
        /\ verdict' = [verdict EXCEPT ![t] = v]

CheckFormat(t) ==
    /\ pc[t] = "idle"
    /\ Proceed(t, FormatFaults(call[t]), "attestation")
    /\ UNCHANGED <<clock, state, call, now_sec>>

CheckAttestation(t) ==
    /\ pc[t] = "attestation"
    /\ Proceed(t, AttestationFaults(call[t]), "time")
    /\ UNCHANGED <<clock, state, call, now_sec>>

(* Mutant: the clock is taken in the document's unit.                      *)
CheckTimestampsInMs(t) ==
    /\ pc[t] = "time"
    /\ now_sec' = [now_sec EXCEPT ![t] = clock * MsPerSec]
    /\ Proceed(t, TimestampFaults(call[t], clock * MsPerSec), "bindings")
    /\ UNCHANGED <<clock, state, call>>

(* The clock is read once, here.                                           *)
CheckTimestamps(t) ==
    /\ pc[t] = "time"
    /\ now_sec' = [now_sec EXCEPT ![t] = clock]
    /\ Proceed(t, TimestampFaults(call[t], clock), "bindings")
    /\ UNCHANGED <<clock, state, call>>

CheckBindings(t) ==
    /\ pc[t] = "bindings"
    /\ Proceed(t, BindingFaults(call[t]), "sequence")
    /\ UNCHANGED <<clock, state, call, now_sec>>

(* Mutant: a sequence equal to the last one passes.                        *)
CheckSequenceNotStrict(t) ==
    LET c == call[t]
        outOfOrder == stateful /\ c.seq < state[c.identity]
    IN  /\ pc[t] = "sequence"
        /\ pc' = [pc EXCEPT ![t] = "done"]
        /\ verdict' = [verdict EXCEPT ![t] =
               IF outOfOrder THEN Refused("SequenceNumberOutOfOrder")
                             ELSE Valid]
        /\ state' = IF stateful /\ ~outOfOrder
                    THEN [state EXCEPT ![c.identity] = c.seq]
                    ELSE state
        /\ UNCHANGED <<clock, call, now_sec>>

(* Mutant: what has been accepted is not recorded.                         *)
CheckSequenceForgets(t) ==
    LET c == call[t]
        outOfOrder == stateful /\ c.seq <= state[c.identity]
    IN  /\ pc[t] = "sequence"
        /\ pc' = [pc EXCEPT ![t] = "done"]
        /\ verdict' = [verdict EXCEPT ![t] =
               IF outOfOrder THEN Refused("SequenceNumberOutOfOrder")
                             ELSE Valid]
        /\ UNCHANGED <<clock, state, call, now_sec>>

(* Under the Mutex: compare and insert in one step.                        *)
CheckSequence(t) ==
    LET c == call[t]
        outOfOrder == stateful /\ c.seq <= state[c.identity]
    IN  /\ pc[t] = "sequence"
        /\ pc' = [pc EXCEPT ![t] = "done"]
        /\ verdict' = [verdict EXCEPT ![t] =
               IF outOfOrder THEN Refused("SequenceNumberOutOfOrder")
                             ELSE Valid]
        /\ state' = IF stateful /\ ~outOfOrder
                    THEN [state EXCEPT ![c.identity] = c.seq]
                    ELSE state
        /\ UNCHANGED <<clock, call, now_sec>>

Tick ==
    /\ clock < MaxClock
    /\ clock' = clock + 1
    /\ UNCHANGED <<state, pc, call, now_sec, verdict>>

Next ==
    \/ \E t \in Thread : CheckFormat(t)
    \/ \E t \in Thread : CheckAttestation(t)
    \/ \E t \in Thread : CheckTimestamps(t)
    \/ \E t \in Thread : CheckBindings(t)
    \/ \E t \in Thread : CheckSequence(t)
    \/ Tick

Spec == Init /\ [][Next]_vars

-----------------------------------------------------------------------------
(* Properties.                                                             *)

ErrorName ==
    {"none", "ReceiptTooLarge", "InvalidPcrLength", "MalformedReceipt",
     "InvalidProtectedHeader", "UnsupportedAlgorithm",
     "AlgorithmInUnprotectedHeader", "InvalidContentType",
     "UnsupportedAttestationType", "InvalidCoseSignature",
     "InvalidAttestationDocument", "InvalidTimestamp of skew",
     "InvalidTimestamp of age", "InvalidTimestamp of alignment",
     "TimestampSkewExceeded", "ExpiredReceipt",
     "AttestationDocTimestampMismatch", "PcrMismatch",
     "PubkeyBindingMismatch", "ReportDataMismatch", "NonceMismatch",
     "ModelHashMismatch", "InputHashMismatch", "OutputHashMismatch",
     "SequenceNumberOutOfOrder"}

TypeOK ==
    /\ clock \in 0..MaxClock
    /\ state \in [Identity -> Nat \cup {NoSeq}]
    /\ pc \in [Thread -> {"idle", "attestation", "time", "bindings",
                          "sequence", "done"}]
    /\ call \in [Thread -> CallType]
    /\ now_sec \in [Thread -> 0..MaxClock]
    /\ verdict \in [Thread -> [ret : {"pass", "valid", "Err", "invalid"},
                               error : ErrorName]]

Accepted == {t \in Thread : pc[t] = "done" /\ verdict[t] = Valid}

(* What a receipt must be to deserve acceptance at time now, said without  *)
(* the order of the checks: docs/SPEC.md section 3, with the window the    *)
(* code applies to attestation-timestamp.                                  *)
Conforms(c, now) ==
    /\ c.cose /\ c.payload /\ c.claims /\ c.document
    /\ c.size \in 0..max_receipt_size /\ c.pcrLen = PcrLength
    /\ c.alg = "EdDSA" /\ c.ctype = "cwt"
    /\ c.uCtype = "none" /\ ~c.uAlg /\ ~c.uOther /\ ~c.crit
    /\ c.attType = 3 /\ c.signature
    /\ c.chain \cap trusted_roots # {}
    /\ {c.pcr0, c.pubkey, c.userData, c.docNonce} = {"match"}
    /\ c.claimNonce /\ c.model /\ c.input /\ c.output
    /\ c.claimTs \in (now - max_receipt_age)..now
    /\ doc_sec(c) \in (now - max_clock_skew)..(now + max_clock_skew)
    /\ doc_sec(c) \in (c.claimTs - AlignmentLimit)..(c.claimTs + AlignmentLimit)

(* verify() accepts exactly the conforming receipts, apart from those that *)
(* only the sequence check refuses: no order of faults, and no combination *)
(* of extreme timestamps, gets through or is refused by mistake.           *)
AcceptsExactlyConforming ==
    \A t \in Thread : pc[t] = "done" =>
        (verdict[t] \in {Valid, Refused("SequenceNumberOutOfOrder")}
            <=> Conforms(call[t], now_sec[t]))

(* Of two calls with the same identity and sequence at most one is         *)
(* accepted, however threads interleave.                                   *)
AcceptedOnce ==
    stateful =>
        \A t, u \in Accepted :
            t # u /\ call[t].identity = call[u].identity
                => call[t].seq # call[u].seq

(* Only the age subtraction can leave i64: the skew is taken between two   *)
(* non-negative numbers, and once the age is in its window the alignment   *)
(* is a small number.  Abs never meets i64::MIN.                           *)
OverflowOnlyInAge ==
    \A t \in Thread :
        /\ verdict[t].error \notin {"InvalidTimestamp of skew",
                                    "InvalidTimestamp of alignment"}
        /\ pc[t] \in {"bindings", "sequence"} =>
               /\ now_sec[t] - doc_sec(call[t]) # IMin
               /\ doc_sec(call[t]) - call[t].claimTs # IMin

(* Together the three time checks make the window of the attestation       *)
(* document one-sided: it may be old, but never more than AlignmentLimit   *)
(* in the verifier's future.                                               *)
DocumentWindow ==
    \A t \in Accepted :
        now_sec[t] - doc_sec(call[t]) \in -AlignmentLimit..max_clock_skew

(* docs/SPEC.md section 3, step 6: "attestation-timestamp (6007) is within *)
(* +-5 minutes of the verifier's system clock": a receipt is not refused   *)
(* as expired when its timestamp is inside that window.                    *)
TimestampTolerance ==
    \A t \in Thread :
        pc[t] = "done" /\ verdict[t] = Err("ExpiredReceipt")
            => Abs(now_sec[t] - call[t].claimTs) > max_clock_skew

=============================================================================
