---------------------------- MODULE VerifierProofs ----------------------------
(***************************************************************************)
(* Verifier::verify, for any calls, threads, roots and configuration, and  *)
(* for machine integers of any width.                                      *)
(***************************************************************************)
EXTENDS Verifier, WellFoundedInduction, TLAPS

(* A set of natural numbers that is not empty has a least element.         *)
LEMMA LeastElement ==
    ASSUME NEW T, T \subseteq Nat, T # {}
    PROVE  Min(T) \in T /\ \A y \in T : Min(T) <= y
<1> DEFINE less == {ss \in Nat \X Nat : ss[1] < ss[2]}
<1>1. IsWellFoundedOn(less, Nat)
  BY NatLessThanWellFounded DEF OpToRel
<1>2. PICK x \in T : \A y \in T : ~ (<<y, x>> \in less)
  BY <1>1, WFMin
<1>3. ASSUME NEW y \in T PROVE x <= y
  <2>1. <<y, x>> \in Nat \X Nat
    OBVIOUS
  <2>2. ~(y < x)
    BY <1>2, <2>1
  <2> QED
    BY <2>2
<1> QED
  BY <1>3 DEF Min

(* The early returns of a list of faults: what comes back is the verdict   *)
(* of a fault that is there and has none before it.                        *)
LEMMA EarlyReturn ==
    ASSUME NEW n \in Nat, NEW faults, DOMAIN faults = 1..n
    PROVE  \/ FirstFault(faults) = Pass /\ \A i \in 1..n : ~faults[i][1]
           \/ \E i \in 1..n : /\ faults[i][1]
                              /\ FirstFault(faults) = faults[i][2]
                              /\ \A j \in 1..n : j < i => ~faults[j][1]
<1> DEFINE found == {i \in DOMAIN faults : faults[i][1]}
<1>1. found \subseteq Nat
  OBVIOUS
<1>2. CASE found = {}
  BY <1>2 DEF FirstFault
<1>3. CASE found # {}
  <2>1. PICK k \in found : k = Min(found) /\ \A y \in found : k <= y
    BY <1>1, <1>3, LeastElement
  <2>2. FirstFault(faults) = faults[k][2]
    BY <1>3, <2>1 DEF FirstFault
  <2>3. ASSUME NEW j \in 1..n, j < k PROVE ~faults[j][1]
    <3>1. j \in found => k <= j
      BY <2>1
    <3>2. k \in Nat
      BY <1>1, <2>1
    <3>3. j \notin found
      BY <2>3, <3>1, <3>2
    <3> QED
      BY <3>3
  <2>4. k \in 1..n /\ faults[k][1]
    OBVIOUS
  <2> HIDE DEF found
  <2> QED
    BY <2>2, <2>3, <2>4
<1> QED
  BY <1>2, <1>3

(* What a receipt must be to pass each of the lists.                       *)
FormatOK(c) ==
    /\ c.cose /\ c.payload /\ c.claims
    /\ c.size <= max_receipt_size /\ c.pcrLen = PcrLength
    /\ c.alg = "EdDSA" /\ c.ctype = "cwt"
    /\ c.uCtype = "none" /\ ~c.uAlg /\ ~c.uOther /\ ~c.crit

AttestationOK(c) ==
    /\ c.attType = 3 /\ c.signature /\ c.document
    /\ c.chain \cap trusted_roots # {}

TimeOK(c, now) ==
    /\ c.claimTs \in (now - max_receipt_age)..now
    /\ doc_sec(c) \in (now - max_clock_skew)..(now + max_clock_skew)
    /\ doc_sec(c) \in (c.claimTs - AlignmentLimit)..(c.claimTs + AlignmentLimit)

BindingOK(c) ==
    /\ {c.pcr0, c.pubkey, c.userData, c.docNonce} = {"match"}
    /\ c.claimNonce /\ c.model /\ c.input /\ c.output

(* The verdicts of the lists are refusals other than the sequence check's. *)
(* Two of them, of the list about time, are not plain.                     *)
Overflow == {"InvalidTimestamp of skew", "InvalidTimestamp of alignment"}
EarlyError == ErrorName \ {"none", "SequenceNumberOutOfOrder"}
EarlyVerdict == [ret : {"Err", "invalid"}, error : EarlyError]
PlainVerdict == [ret : {"Err", "invalid"}, error : EarlyError \ Overflow]

LEMMA EarlyVerdicts ==
    /\ \A e \in EarlyError : Err(e) \in EarlyVerdict /\ Refused(e) \in EarlyVerdict
    /\ \A e \in EarlyError \ Overflow :
           Err(e) \in PlainVerdict /\ Refused(e) \in PlainVerdict
  BY DEF EarlyVerdict, PlainVerdict, Err, Refused

(* A receipt passes the list, or is turned away with one of its verdicts.  *)
LEMMA FormatVerdict ==
    ASSUME NEW c \in CallType
    PROVE  \/ FirstFault(FormatFaults(c)) = Pass /\ FormatOK(c)
           \/ FirstFault(FormatFaults(c)) \in PlainVerdict /\ ~FormatOK(c)
<1> DEFINE f == FormatFaults(c)
<1> SUFFICES \/ FirstFault(f) = Pass /\ FormatOK(c)
             \/ FirstFault(f) \in PlainVerdict /\ ~FormatOK(c)
  OBVIOUS
<1>1. DOMAIN f = 1..11
  BY DEF FormatFaults
<1>2. \A i \in 1..11 : f[i][2] \in PlainVerdict
  <2>1. f[1][2] = Err("ReceiptTooLarge") /\ f[2][2] = Err("InvalidPcrLength")
    BY DEF FormatFaults
  <2>2. f[3][2] = Refused("MalformedReceipt") /\ f[10][2] = f[3][2]
        /\ f[11][2] = f[3][2]
    BY DEF FormatFaults
  <2>3. f[4][2] = Err("InvalidProtectedHeader") /\ f[7][2] = f[4][2]
        /\ f[8][2] = f[4][2]
    BY DEF FormatFaults
  <2>4. /\ f[5][2] = Err("UnsupportedAlgorithm")
        /\ f[6][2] = Err("AlgorithmInUnprotectedHeader")
        /\ f[9][2] = Err("InvalidContentType")
    BY DEF FormatFaults
  <2> HIDE DEF f
  <2>5. \A i \in {1, 2, 3, 4, 5, 6, 7, 8, 9, 10, 11} : f[i][2] \in PlainVerdict
    BY <2>1, <2>2, <2>3, <2>4, EarlyVerdicts DEF ErrorName, EarlyError, Overflow
  <2> QED
    BY <2>5
<1>3. /\ f[1][1] <=> c.size > max_receipt_size
      /\ f[2][1] <=> c.pcrLen # PcrLength
      /\ f[3][1] <=> ~c.cose
      /\ f[4][1] <=> c.alg = "none"
      /\ f[5][1] <=> c.alg # "EdDSA"
      /\ f[6][1] <=> c.uAlg
      /\ f[7][1] <=> c.crit
      /\ f[8][1] <=> UnprotectedNonEmpty(c)
      /\ f[9][1] <=> c.ctype # "cwt"
      /\ f[10][1] <=> ~c.payload
      /\ f[11][1] <=> ~c.claims
  BY DEF FormatFaults
<1> HIDE DEF f
<1>4. (\A i \in 1..11 : ~f[i][1]) <=> FormatOK(c)
  <2>1. c.size \in Nat
    BY DEF CallType
  <2>2. (\A i \in 1..11 : ~f[i][1]) <=>
           (\A i \in {1, 2, 3, 4, 5, 6, 7, 8, 9, 10, 11} : ~f[i][1])
    OBVIOUS
  <2> QED
    BY <1>3, <2>1, <2>2, SizesAssumption DEF FormatOK, UnprotectedNonEmpty
<1>5. \/ FirstFault(f) = Pass /\ \A i \in 1..11 : ~f[i][1]
      \/ \E i \in 1..11 : f[i][1] /\ FirstFault(f) = f[i][2]
  BY <1>1, EarlyReturn
<1> QED
  BY <1>2, <1>4, <1>5

LEMMA AttestationVerdict ==
    ASSUME NEW c \in CallType
    PROVE  \/ FirstFault(AttestationFaults(c)) = Pass /\ AttestationOK(c)
           \/ FirstFault(AttestationFaults(c)) \in PlainVerdict /\ ~AttestationOK(c)
<1> DEFINE f == AttestationFaults(c)
<1> SUFFICES \/ FirstFault(f) = Pass /\ AttestationOK(c)
             \/ FirstFault(f) \in PlainVerdict /\ ~AttestationOK(c)
  OBVIOUS
<1>1. DOMAIN f = 1..4
  BY DEF AttestationFaults
<1>2. /\ f[1][2] = Refused("UnsupportedAttestationType")
      /\ f[2][2] = Refused("InvalidCoseSignature")
      /\ f[3][2] = Refused("InvalidAttestationDocument") /\ f[4][2] = f[3][2]
  BY DEF AttestationFaults
<1>3. /\ f[1][1] <=> c.attType # 3
      /\ f[2][1] <=> ~c.signature
      /\ f[3][1] <=> ~c.document
      /\ f[4][1] <=> ~\E root \in trusted_roots : root \in c.chain
  BY DEF AttestationFaults
<1> HIDE DEF f
<1>4. \A i \in 1..4 : f[i][2] \in PlainVerdict
  <2>1. \A i \in {1, 2, 3, 4} : f[i][2] \in PlainVerdict
    BY <1>2, EarlyVerdicts DEF ErrorName, EarlyError, Overflow
  <2> QED
    BY <2>1
<1>5. (\A i \in 1..4 : ~f[i][1]) <=> AttestationOK(c)
  <2>1. (\A i \in 1..4 : ~f[i][1]) <=> (\A i \in {1, 2, 3, 4} : ~f[i][1])
    OBVIOUS
  <2> QED
    BY <1>3, <2>1 DEF AttestationOK
<1>6. \/ FirstFault(f) = Pass /\ \A i \in 1..4 : ~f[i][1]
      \/ \E i \in 1..4 : f[i][1] /\ FirstFault(f) = f[i][2]
  BY <1>1, EarlyReturn
<1> QED
  BY <1>4, <1>5, <1>6

LEMMA BindingVerdict ==
    ASSUME NEW c \in CallType
    PROVE  \/ FirstFault(BindingFaults(c)) = Pass /\ BindingOK(c)
           \/ FirstFault(BindingFaults(c)) \in PlainVerdict /\ ~BindingOK(c)
<1> DEFINE f == BindingFaults(c)
<1> SUFFICES \/ FirstFault(f) = Pass /\ BindingOK(c)
             \/ FirstFault(f) \in PlainVerdict /\ ~BindingOK(c)
  OBVIOUS
<1>1. DOMAIN f = 1..7
  BY DEF BindingFaults
<1>2. /\ f[1][2] = Refused("PcrMismatch")
      /\ f[2][2] = Refused("PubkeyBindingMismatch")
      /\ f[3][2] = Refused("ReportDataMismatch")
      /\ f[4][2] = Refused("NonceMismatch")
      /\ f[5][2] = Refused("ModelHashMismatch")
      /\ f[6][2] = Refused("InputHashMismatch")
      /\ f[7][2] = Refused("OutputHashMismatch")
  BY DEF BindingFaults
<1>3. /\ f[1][1] <=> c.pcr0 # "match"
      /\ f[2][1] <=> c.pubkey # "match"
      /\ f[3][1] <=> c.userData # "match"
      /\ f[4][1] <=> ~(c.docNonce = "match" /\ c.claimNonce)
      /\ f[5][1] <=> ~c.model
      /\ f[6][1] <=> ~c.input
      /\ f[7][1] <=> ~c.output
  BY DEF BindingFaults
<1> HIDE DEF f
<1>4. \A i \in 1..7 : f[i][2] \in PlainVerdict
  <2>1. \A i \in {1, 2, 3, 4, 5, 6, 7} : f[i][2] \in PlainVerdict
    BY <1>2, EarlyVerdicts DEF ErrorName, EarlyError, Overflow
  <2> QED
    BY <2>1
<1>5. (\A i \in 1..7 : ~f[i][1]) <=> BindingOK(c)
  <2>1. (\A i \in 1..7 : ~f[i][1]) <=> (\A i \in {1, 2, 3, 4, 5, 6, 7} : ~f[i][1])
    OBVIOUS
  <2> QED
    BY <1>3, <2>1 DEF BindingOK
<1>6. \/ FirstFault(f) = Pass /\ \A i \in 1..7 : ~f[i][1]
      \/ \E i \in 1..7 : f[i][1] /\ FirstFault(f) = f[i][2]
  BY <1>1, EarlyReturn
<1> QED
  BY <1>4, <1>5, <1>6

-----------------------------------------------------------------------------
(* Time.                                                                   *)

(* A u64 of milliseconds is an i64 of seconds: at least two milliseconds   *)
(* make a second.                                                          *)
LEMMA DocSec ==
    ASSUME NEW c \in CallType
    PROVE  doc_sec(c) \in 0..IMax
<1>1. c.docMs \in 0..UMax /\ UMax \in Nat /\ IMax \in Nat
  BY WidthAssumption DEF CallType, UMax
<1>2. c.docMs \in Nat /\ MsPerSec \in Nat /\ MsPerSec >= 2
  BY <1>1, WidthAssumption
<1> DEFINE d == doc_sec(c)
<1>3. d \in Nat /\ d * MsPerSec <= c.docMs
  BY <1>2 DEF doc_sec
<1>4. d * 2 <= d * MsPerSec
  <2> HIDE DEF d
  <2> QED BY <1>2, <1>3
<1>5. d * 2 <= UMax
  <2>1. d * MsPerSec \in Nat
    <3> HIDE DEF d
    <3> QED BY <1>2, <1>3
  <2> HIDE DEF d
  <2> DEFINE q == d * MsPerSec
  <2>2. q \in Nat /\ q <= c.docMs /\ d * 2 <= q
    BY <1>3, <1>4, <2>1
  <2> HIDE DEF q
  <2> QED BY <1>1, <1>3, <2>2
<1> HIDE DEF d
<1>6. d <= IMax
  BY <1>1, <1>3, <1>5 DEF UMax
<1> QED BY <1>1, <1>3, <1>6 DEF d

(* The entries of the list, with the differences named.                    *)
LEMMA TimeEntries ==
    ASSUME NEW c \in CallType, NEW now \in 0..MaxClock
    PROVE  LET f == TimestampFaults(c, now)
           IN  /\ DOMAIN f = 1..6
               /\ f[1][2] = Err("InvalidTimestamp of skew")
               /\ f[2][2] = Refused("TimestampSkewExceeded")
               /\ f[3][2] = Err("InvalidTimestamp of age")
               /\ f[4][2] = Err("ExpiredReceipt")
               /\ f[5][2] = Err("InvalidTimestamp of alignment")
               /\ f[6][2] = Refused("AttestationDocTimestampMismatch")
               /\ f[1][1] <=> ~InI64(now - doc_sec(c))
               /\ f[2][1] <=> Abs(now - doc_sec(c)) > max_clock_skew
               /\ f[3][1] <=> ~InI64(now - c.claimTs)
               /\ f[4][1] <=> \/ now - c.claimTs < 0
                              \/ now - c.claimTs > max_receipt_age
               /\ f[5][1] <=> ~InI64(doc_sec(c) - c.claimTs)
               /\ f[6][1] <=> Abs(doc_sec(c) - c.claimTs) > AlignmentLimit
<1> DEFINE f == TimestampFaults(c, now)
<1>1. DOMAIN f = 1..6
  BY DEF TimestampFaults
<1>2. /\ f[1][2] = Err("InvalidTimestamp of skew")
      /\ f[2][2] = Refused("TimestampSkewExceeded")
      /\ f[3][2] = Err("InvalidTimestamp of age")
  BY DEF TimestampFaults
<1>3. /\ f[4][2] = Err("ExpiredReceipt")
      /\ f[5][2] = Err("InvalidTimestamp of alignment")
      /\ f[6][2] = Refused("AttestationDocTimestampMismatch")
  BY DEF TimestampFaults
<1>4. /\ f[1][1] <=> ~InI64(now - doc_sec(c))
      /\ f[2][1] <=> Abs(now - doc_sec(c)) > max_clock_skew
  BY DEF TimestampFaults
<1>5. /\ f[3][1] <=> ~InI64(now - c.claimTs)
      /\ f[4][1] <=> now - c.claimTs < 0 \/ now - c.claimTs > max_receipt_age
  BY DEF TimestampFaults
<1>6. /\ f[5][1] <=> ~InI64(doc_sec(c) - c.claimTs)
      /\ f[6][1] <=> Abs(doc_sec(c) - c.claimTs) > AlignmentLimit
  BY DEF TimestampFaults
<1> HIDE DEF f
<1>7. f = TimestampFaults(c, now)
  BY DEF f
<1> QED
  BY <1>1, <1>2, <1>3, <1>4, <1>5, <1>6, <1>7

(* The numbers the three differences are made of.                          *)
LEMMA TimeNumbers ==
    ASSUME NEW c \in CallType, NEW now \in 0..MaxClock
    PROVE  /\ now \in Nat /\ now <= IMax
           /\ doc_sec(c) \in Nat /\ doc_sec(c) <= IMax
           /\ c.claimTs \in Int /\ IMax \in Nat
           /\ max_clock_skew \in Nat /\ max_clock_skew <= IMax
           /\ max_receipt_age \in Nat /\ max_receipt_age <= IMax
           /\ AlignmentLimit \in Nat /\ AlignmentLimit <= IMax
<1>1. c.claimTs \in IMin..IMax
  BY DEF CallType
<1>2. c.claimTs \in Int
  BY <1>1, WidthAssumption DEF IMin
<1> QED
  BY <1>2, DocSec, WidthAssumption

(* checked_sub and the three comparisons together say TimeOK.              *)
LEMMA TimeVerdict ==
    ASSUME NEW c \in CallType, NEW now \in 0..MaxClock
    PROVE  \/ FirstFault(TimestampFaults(c, now)) = Pass /\ TimeOK(c, now)
           \/ FirstFault(TimestampFaults(c, now)) \in EarlyVerdict /\ ~TimeOK(c, now)
<1> DEFINE f == TimestampFaults(c, now)
           d == doc_sec(c)
<1> SUFFICES \/ FirstFault(f) = Pass /\ TimeOK(c, now)
             \/ FirstFault(f) \in EarlyVerdict /\ ~TimeOK(c, now)
  OBVIOUS
<1>1. /\ DOMAIN f = 1..6
      /\ f[1][2] = Err("InvalidTimestamp of skew")
      /\ f[2][2] = Refused("TimestampSkewExceeded")
      /\ f[3][2] = Err("InvalidTimestamp of age")
      /\ f[4][2] = Err("ExpiredReceipt")
      /\ f[5][2] = Err("InvalidTimestamp of alignment")
      /\ f[6][2] = Refused("AttestationDocTimestampMismatch")
  BY TimeEntries
<1>2. /\ f[1][1] <=> ~InI64(now - d)
      /\ f[2][1] <=> Abs(now - d) > max_clock_skew
      /\ f[3][1] <=> ~InI64(now - c.claimTs)
      /\ f[4][1] <=> now - c.claimTs < 0 \/ now - c.claimTs > max_receipt_age
      /\ f[5][1] <=> ~InI64(d - c.claimTs)
      /\ f[6][1] <=> Abs(d - c.claimTs) > AlignmentLimit
  BY TimeEntries
<1>3. /\ now \in Nat /\ d \in Nat /\ c.claimTs \in Int /\ IMax \in Nat
      /\ max_clock_skew \in Nat /\ max_clock_skew <= IMax
      /\ max_receipt_age \in Nat /\ max_receipt_age <= IMax
      /\ AlignmentLimit \in Nat /\ AlignmentLimit <= IMax
  BY TimeNumbers
<1>4. TimeOK(c, now) <=> /\ now - c.claimTs >= 0 /\ now - c.claimTs <= max_receipt_age
                         /\ Abs(now - d) <= max_clock_skew
                         /\ Abs(d - c.claimTs) <= AlignmentLimit
  BY <1>3 DEF TimeOK, Abs
<1> HIDE DEF f, d
<1>5. \A i \in 1..6 : f[i][2] \in EarlyVerdict
  <2>1. \A i \in {1, 2, 3, 4, 5, 6} : f[i][2] \in EarlyVerdict
    BY <1>1, EarlyVerdicts DEF ErrorName, EarlyError
  <2> QED
    BY <2>1
<1>6. (\A i \in 1..6 : ~f[i][1]) <=> TimeOK(c, now)
  <2>1. (\A i \in 1..6 : ~f[i][1]) <=> (\A i \in {1, 2, 3, 4, 5, 6} : ~f[i][1])
    OBVIOUS
  <2>2. TimeOK(c, now) => /\ InI64(now - d) /\ InI64(now - c.claimTs)
                          /\ InI64(d - c.claimTs)
    BY <1>3, <1>4 DEF InI64, IMin, Abs
  <2>3. /\ Abs(now - d) \in Int /\ Abs(d - c.claimTs) \in Int
        /\ now - c.claimTs \in Int
    BY <1>3 DEF Abs
  <2> QED
    BY <1>2, <1>3, <1>4, <2>1, <2>2, <2>3
<1>7. \/ FirstFault(f) = Pass /\ \A i \in 1..6 : ~f[i][1]
      \/ \E i \in 1..6 : f[i][1] /\ FirstFault(f) = f[i][2]
  BY <1>1, EarlyReturn
<1> QED
  BY <1>5, <1>6, <1>7

(* The two limits of a configuration, added up, are an i64.                *)
LimitsFit == max_clock_skew + max_receipt_age <= IMax

(* The skew is a difference of two numbers from 0 to IMax; when the        *)
(* alignment is computed, skew and age are in their windows.               *)
LEMMA NoOverflow ==
    ASSUME LimitsFit, NEW c \in CallType, NEW now \in 0..MaxClock
    PROVE  \/ FirstFault(TimestampFaults(c, now)) = Pass
           \/ FirstFault(TimestampFaults(c, now)) \in PlainVerdict
<1> DEFINE f == TimestampFaults(c, now)
           d == doc_sec(c)
<1> SUFFICES FirstFault(f) = Pass \/ FirstFault(f) \in PlainVerdict
  OBVIOUS
<1>1. /\ DOMAIN f = 1..6
      /\ f[2][2] = Refused("TimestampSkewExceeded")
      /\ f[3][2] = Err("InvalidTimestamp of age")
      /\ f[4][2] = Err("ExpiredReceipt")
      /\ f[6][2] = Refused("AttestationDocTimestampMismatch")
  BY TimeEntries
<1>2. /\ f[1][1] <=> ~InI64(now - d)
      /\ f[2][1] <=> Abs(now - d) > max_clock_skew
      /\ f[4][1] <=> now - c.claimTs < 0 \/ now - c.claimTs > max_receipt_age
      /\ f[5][1] <=> ~InI64(d - c.claimTs)
  BY TimeEntries
<1>3. /\ now \in Nat /\ now <= IMax /\ d \in Nat /\ d <= IMax
      /\ c.claimTs \in Int /\ IMax \in Nat
      /\ max_clock_skew \in Nat /\ max_receipt_age \in Nat
  BY TimeNumbers
<1> HIDE DEF f, d
<1>4. ~f[1][1]
  BY <1>2, <1>3 DEF InI64, IMin
<1>5. ~f[2][1] /\ ~f[4][1] => ~f[5][1]
  <2> SUFFICES ASSUME ~f[2][1], ~f[4][1] PROVE InI64(d - c.claimTs)
    BY <1>2
  <2>1. now - d <= max_clock_skew /\ d - now <= max_clock_skew
    BY <1>2, <1>3 DEF Abs
  <2>2. now - c.claimTs >= 0 /\ now - c.claimTs <= max_receipt_age
    BY <1>2, <1>3
  <2> QED
    BY <1>3, <2>1, <2>2 DEF InI64, IMin, LimitsFit
<1>6. CASE FirstFault(f) = Pass
  BY <1>6
<1>7. CASE \E i \in 1..6 : /\ f[i][1] /\ FirstFault(f) = f[i][2]
                           /\ \A j \in 1..6 : j < i => ~f[j][1]
  <2>1. PICK i \in 1..6 : /\ f[i][1] /\ FirstFault(f) = f[i][2]
                          /\ \A j \in 1..6 : j < i => ~f[j][1]
    BY <1>7
  <2>2. i # 1 /\ i # 5
    BY <1>4, <1>5, <2>1
  <2>3. i \in {2, 3, 4, 6}
    BY <2>2
  <2> QED
    BY <1>1, <2>1, <2>3, EarlyVerdicts DEF ErrorName, EarlyError, Overflow
<1> QED
  BY <1>1, <1>6, <1>7, EarlyReturn

-----------------------------------------------------------------------------
(* The threads.                                                            *)

Middle == {"attestation", "time", "bindings", "sequence"}

(* What a call has been found to be when its thread is at a stage.         *)
PassedUpTo(stage, c, now) ==
    /\ FormatOK(c)
    /\ stage # "attestation" => AttestationOK(c)
    /\ stage \in {"bindings", "sequence"} => TimeOK(c, now)
    /\ stage = "sequence" => BindingOK(c)

AllOK(c, now) ==
    FormatOK(c) /\ AttestationOK(c) /\ TimeOK(c, now) /\ BindingOK(c)

LEMMA ConformsParts ==
    ASSUME NEW c \in CallType, NEW now
    PROVE  AllOK(c, now) <=> Conforms(c, now)
<1>1. c.size \in 0..max_receipt_size <=> c.size <= max_receipt_size
  BY SizesAssumption DEF CallType
<1> QED
  BY <1>1 DEF AllOK, Conforms, FormatOK, AttestationOK, TimeOK, BindingOK

LastVerdict == {Valid, Refused("SequenceNumberOutOfOrder")}

StageInv ==
    \A t \in Thread :
        /\ pc[t] \in Middle => PassedUpTo(pc[t], call[t], now_sec[t])
        /\ pc[t] = "done" =>
               \/ verdict[t] \in LastVerdict /\ AllOK(call[t], now_sec[t])
               \/ verdict[t] \in EarlyVerdict /\ ~AllOK(call[t], now_sec[t])

(* The map holds at least what was accepted.                               *)
MapInv ==
    stateful => \A t \in Accepted : call[t].seq <= state[call[t].identity]

VerifierInv == TypeOK /\ StageInv /\ MapInv /\ AcceptedOnce

VerdictType ==
    [ret : {"pass", "valid", "Err", "invalid"}, error : ErrorName]

LEMMA Verdicts ==
    /\ Pass \in VerdictType /\ Valid \in VerdictType
    /\ Refused("SequenceNumberOutOfOrder") \in VerdictType
    /\ EarlyVerdict \subseteq VerdictType
    /\ PlainVerdict \subseteq EarlyVerdict
    /\ Pass # Valid /\ Pass \notin EarlyVerdict /\ Valid \notin EarlyVerdict
    /\ Refused("SequenceNumberOutOfOrder") \notin EarlyVerdict
    /\ Refused("SequenceNumberOutOfOrder") # Valid
    /\ \A v \in PlainVerdict : v.error \notin Overflow
    /\ \A v \in LastVerdict \cup {Pass} : v.error \notin Overflow
<1>1. /\ "none" \in ErrorName /\ "SequenceNumberOutOfOrder" \in ErrorName
      /\ EarlyError \subseteq ErrorName
      /\ "none" \notin EarlyError /\ "SequenceNumberOutOfOrder" \notin EarlyError
      /\ "none" \notin Overflow /\ "SequenceNumberOutOfOrder" \notin Overflow
  BY DEF EarlyError, ErrorName, Overflow
<1>2. /\ Pass \in VerdictType /\ Valid \in VerdictType
      /\ Refused("SequenceNumberOutOfOrder") \in VerdictType
      /\ Pass # Valid /\ Refused("SequenceNumberOutOfOrder") # Valid
  BY <1>1 DEF Pass, Valid, Refused, VerdictType
<1>3. EarlyVerdict \subseteq VerdictType /\ PlainVerdict \subseteq EarlyVerdict
  BY <1>1 DEF VerdictType, EarlyVerdict, PlainVerdict
<1>4. /\ Pass \notin EarlyVerdict /\ Valid \notin EarlyVerdict
      /\ Refused("SequenceNumberOutOfOrder") \notin EarlyVerdict
  BY <1>1 DEF Pass, Valid, Refused, EarlyVerdict
<1>5. /\ \A v \in PlainVerdict : v.error \notin Overflow
      /\ \A v \in LastVerdict \cup {Pass} : v.error \notin Overflow
  BY <1>1 DEF PlainVerdict, LastVerdict, Pass, Valid, Refused
<1> QED
  BY <1>2, <1>3, <1>4, <1>5

(* A thread that passes a list, or is turned away by it.                   *)
LEMMA ProceedStep ==
    ASSUME VerifierInv, NEW t \in Thread, pc[t] # "done",
           NEW faults, NEW next \in Middle, Proceed(t, faults, next),
           UNCHANGED <<clock, state, call>>,
           now_sec' \in [Thread -> 0..MaxClock],
           \A u \in Thread : u # t => now_sec'[u] = now_sec[u],
           \/ /\ FirstFault(faults) = Pass
              /\ PassedUpTo(next, call[t], now_sec'[t])
           \/ /\ FirstFault(faults) \in EarlyVerdict
              /\ ~AllOK(call[t], now_sec'[t])
    PROVE  VerifierInv'
<1> DEFINE v == FirstFault(faults)
<1>1. /\ pc' = [pc EXCEPT ![t] = IF v = Pass THEN next ELSE "done"]
      /\ verdict' = [verdict EXCEPT ![t] = v]
      /\ \/ v = Pass /\ PassedUpTo(next, call[t], now_sec'[t])
         \/ v \in EarlyVerdict /\ ~AllOK(call[t], now_sec'[t])
  BY DEF Proceed
<1> HIDE DEF v
<1>2. v \in VerdictType /\ v # Valid /\ (v = Pass \/ v \in EarlyVerdict)
  BY <1>1, Verdicts
<1>3. TypeOK'
  BY <1>1, <1>2 DEF VerifierInv, TypeOK, Middle, VerdictType
<1>4. \A u \in Thread : u # t => pc'[u] = pc[u] /\ verdict'[u] = verdict[u]
  BY <1>1 DEF VerifierInv, TypeOK
<1>5. verdict'[t] = v /\ pc'[t] = IF v = Pass THEN next ELSE "done"
  BY <1>1 DEF VerifierInv, TypeOK
<1>6. StageInv'
  <2> SUFFICES ASSUME NEW u \in Thread
               PROVE  /\ pc'[u] \in Middle => PassedUpTo(pc'[u], call[u], now_sec'[u])
                      /\ pc'[u] = "done" =>
                             \/ /\ verdict'[u] \in LastVerdict
                                /\ AllOK(call[u], now_sec'[u])
                             \/ /\ verdict'[u] \in EarlyVerdict
                                /\ ~AllOK(call[u], now_sec'[u])
    BY DEF StageInv
  <2>1. CASE u # t
    BY <1>4, <2>1 DEF VerifierInv, StageInv
  <2>2. CASE u = t
    BY <1>1, <1>5, <2>2, Verdicts DEF Middle
  <2> QED
    BY <2>1, <2>2
<1>7. Accepted' = Accepted
  <2>1. t \notin Accepted /\ t \notin Accepted'
    BY <1>2, <1>5 DEF Accepted
  <2> QED
    BY <1>4, <2>1 DEF Accepted
<1>8. MapInv' /\ AcceptedOnce'
  BY <1>7 DEF VerifierInv, MapInv, AcceptedOnce
<1> QED
  BY <1>3, <1>6, <1>8 DEF VerifierInv

LEMMA SequenceStep ==
    ASSUME VerifierInv, NEW t \in Thread, CheckSequence(t)
    PROVE  VerifierInv'
<1> DEFINE c == call[t]
           late == stateful /\ c.seq <= state[c.identity]
           v == IF late THEN Refused("SequenceNumberOutOfOrder") ELSE Valid
<1>1. /\ pc[t] = "sequence" /\ pc' = [pc EXCEPT ![t] = "done"]
      /\ verdict' = [verdict EXCEPT ![t] = v]
      /\ state' = IF stateful /\ ~late THEN [state EXCEPT ![c.identity] = c.seq]
                                       ELSE state
      /\ UNCHANGED <<clock, call, now_sec>>
  BY DEF CheckSequence
<1>2. call \in [Thread -> CallType] /\ c \in CallType
  BY DEF VerifierInv, TypeOK
<1>3. \A u \in Thread : call[u].identity \in Identity /\ call[u].seq \in Nat
  BY <1>2 DEF CallType
<1>4. state \in [Identity -> Nat \cup {NoSeq}]
  BY DEF VerifierInv, TypeOK
<1>5. v \in LastVerdict /\ (v = Valid <=> ~late) /\ v \in VerdictType
  BY Verdicts DEF LastVerdict
<1> HIDE DEF v
<1>6. TypeOK'
  <2>1. state' \in [Identity -> Nat \cup {NoSeq}]
    BY <1>1, <1>3, <1>4
  <2> QED
    BY <1>1, <1>5, <2>1 DEF VerifierInv, TypeOK, VerdictType
<1>7. /\ \A u \in Thread : u # t => pc'[u] = pc[u] /\ verdict'[u] = verdict[u]
      /\ pc'[t] = "done" /\ verdict'[t] = v
  BY <1>1 DEF VerifierInv, TypeOK
<1>8. StageInv'
  <2>1. AllOK(c, now_sec[t])
    BY <1>1 DEF VerifierInv, StageInv, PassedUpTo, AllOK, Middle
  <2> QED
    BY <1>1, <1>5, <1>7, <2>1 DEF VerifierInv, StageInv, Middle
<1>9. t \notin Accepted /\ Accepted' = IF late THEN Accepted ELSE Accepted \cup {t}
  BY <1>1, <1>5, <1>7 DEF Accepted
<1>10. stateful => \A i \in Identity : state[i] <= state'[i]
  BY <1>1, <1>3, <1>4 DEF NoSeq
<1>11. stateful /\ ~late => state'[c.identity] = c.seq /\ c.seq > state[c.identity]
  BY <1>1, <1>3, <1>4 DEF NoSeq
<1>12. MapInv'
  <2> SUFFICES ASSUME stateful, NEW u \in Accepted'
               PROVE  call[u].seq <= state'[call[u].identity]
    BY <1>1 DEF MapInv
  <2>1. CASE u \in Accepted
    <3>1. call[u].seq <= state[call[u].identity] /\ u \in Thread
      BY <2>1 DEF VerifierInv, MapInv, Accepted
    <3>2. state[call[u].identity] \in Int /\ state'[call[u].identity] \in Int
      BY <1>3, <1>4, <1>6, <3>1 DEF TypeOK, NoSeq
    <3>3. state[call[u].identity] <= state'[call[u].identity]
      BY <1>3, <1>10, <3>1
    <3> QED
      BY <1>3, <3>1, <3>2, <3>3
  <2>2. CASE u = t /\ ~late
    BY <1>3, <1>11, <2>2
  <2> QED
    BY <1>9, <2>1, <2>2
<1>13. AcceptedOnce'
  <2> SUFFICES ASSUME stateful, NEW u \in Accepted', NEW w \in Accepted', u # w,
                      call[u].identity = call[w].identity
               PROVE  call[u].seq # call[w].seq
    BY <1>1 DEF AcceptedOnce
  <2>1. ASSUME ~late, NEW x \in Accepted, call[x].identity = c.identity
        PROVE  call[x].seq # c.seq
    <3>1. call[x].seq <= state[c.identity] /\ x \in Thread
      BY <2>1 DEF VerifierInv, MapInv, Accepted
    <3>2. state[c.identity] \in Int
      BY <1>3, <1>4 DEF NoSeq
    <3>3. c.seq > state[c.identity]
      BY <1>11, <2>1
    <3> QED
      BY <1>3, <3>1, <3>2, <3>3
  <2>2. CASE u \in Accepted /\ w \in Accepted
    BY <2>2 DEF VerifierInv, AcceptedOnce
  <2> QED
    BY <1>9, <2>1, <2>2
<1> QED
  BY <1>6, <1>8, <1>12, <1>13 DEF VerifierInv

LEMMA VerifierNext == VerifierInv /\ [Next]_vars => VerifierInv'
<1> SUFFICES ASSUME VerifierInv, [Next]_vars PROVE VerifierInv'
  OBVIOUS
<1>0. /\ call \in [Thread -> CallType] /\ now_sec \in [Thread -> 0..MaxClock]
      /\ clock \in 0..MaxClock
  BY DEF VerifierInv, TypeOK
<1>1. CASE UNCHANGED vars
  BY <1>1 DEF vars, VerifierInv, TypeOK, StageInv, MapInv, AcceptedOnce, Accepted
<1>2. CASE Tick
  <2>1. TypeOK'
    BY <1>2, WidthAssumption DEF Tick, VerifierInv, TypeOK
  <2> QED
    BY <1>2, <2>1 DEF Tick, VerifierInv, StageInv, MapInv, AcceptedOnce, Accepted
<1>3. ASSUME NEW t \in Thread, CheckFormat(t) PROVE VerifierInv'
  <2>1. call[t] \in CallType
    BY <1>0
  <2>2. FirstFault(FormatFaults(call[t])) = Pass =>
            PassedUpTo("attestation", call[t], now_sec[t])
    BY <2>1, FormatVerdict, Verdicts DEF PassedUpTo
  <2>3. \/ FirstFault(FormatFaults(call[t])) = Pass
        \/ /\ FirstFault(FormatFaults(call[t])) \in EarlyVerdict
           /\ ~AllOK(call[t], now_sec[t])
    BY <2>1, FormatVerdict, Verdicts DEF AllOK
  <2> QED
    BY <1>0, <1>3, <2>2, <2>3, ProceedStep DEF CheckFormat, Middle
<1>4. ASSUME NEW t \in Thread, CheckAttestation(t) PROVE VerifierInv'
  <2>1. call[t] \in CallType /\ pc[t] = "attestation"
    BY <1>0, <1>4 DEF CheckAttestation
  <2>2. FirstFault(AttestationFaults(call[t])) = Pass =>
            PassedUpTo("time", call[t], now_sec[t])
    BY <2>1, AttestationVerdict, Verdicts
       DEF PassedUpTo, VerifierInv, StageInv, Middle
  <2>3. \/ FirstFault(AttestationFaults(call[t])) = Pass
        \/ /\ FirstFault(AttestationFaults(call[t])) \in EarlyVerdict
           /\ ~AllOK(call[t], now_sec[t])
    BY <2>1, AttestationVerdict, Verdicts DEF AllOK
  <2> QED
    BY <1>0, <1>4, <2>2, <2>3, ProceedStep DEF CheckAttestation, Middle
<1>5. ASSUME NEW t \in Thread, CheckTimestamps(t) PROVE VerifierInv'
  <2>1. call[t] \in CallType /\ pc[t] = "time"
    BY <1>0, <1>5 DEF CheckTimestamps
  <2>2. FirstFault(TimestampFaults(call[t], clock)) = Pass =>
            PassedUpTo("bindings", call[t], clock)
    BY <1>0, <2>1, TimeVerdict, Verdicts
       DEF PassedUpTo, VerifierInv, StageInv, Middle
  <2>3. \/ FirstFault(TimestampFaults(call[t], clock)) = Pass
        \/ /\ FirstFault(TimestampFaults(call[t], clock)) \in EarlyVerdict
           /\ ~AllOK(call[t], clock)
    BY <1>0, <2>1, TimeVerdict DEF AllOK
  <2>4. /\ now_sec' \in [Thread -> 0..MaxClock] /\ now_sec'[t] = clock
        /\ \A u \in Thread : u # t => now_sec'[u] = now_sec[u]
    BY <1>0, <1>5 DEF CheckTimestamps
  <2> QED
    BY <1>5, <2>2, <2>3, <2>4, ProceedStep DEF CheckTimestamps, Middle
<1>6. ASSUME NEW t \in Thread, CheckBindings(t) PROVE VerifierInv'
  <2>1. call[t] \in CallType /\ pc[t] = "bindings"
    BY <1>0, <1>6 DEF CheckBindings
  <2>2. FirstFault(BindingFaults(call[t])) = Pass =>
            PassedUpTo("sequence", call[t], now_sec[t])
    BY <2>1, BindingVerdict, Verdicts
       DEF PassedUpTo, VerifierInv, StageInv, Middle
  <2>3. \/ FirstFault(BindingFaults(call[t])) = Pass
        \/ /\ FirstFault(BindingFaults(call[t])) \in EarlyVerdict
           /\ ~AllOK(call[t], now_sec[t])
    BY <2>1, BindingVerdict, Verdicts DEF AllOK
  <2> QED
    BY <1>0, <1>6, <2>2, <2>3, ProceedStep DEF CheckBindings, Middle
<1> QED
  BY <1>1, <1>2, <1>3, <1>4, <1>5, <1>6, SequenceStep DEF Next

LEMMA VerifierInvariant == Spec => []VerifierInv
<1>1. Init => VerifierInv
  <2> SUFFICES ASSUME Init PROVE VerifierInv
    OBVIOUS
  <2>1. TypeOK
    <3>1. call \in [Thread -> CallType]
      BY BatchAssumption, CallAssumption DEF Init
    <3>2. 0 \in 0..MaxClock
      BY WidthAssumption
    <3> QED
      BY <3>1, <3>2, Verdicts DEF Init, TypeOK, VerdictType
  <2>2. StageInv /\ MapInv /\ AcceptedOnce
    BY DEF Init, StageInv, Middle, MapInv, AcceptedOnce, Accepted
  <2> QED
    BY <2>1, <2>2 DEF VerifierInv
<1> QED
  BY <1>1, VerifierNext, PTL DEF Spec

(* Every call ends in a verdict of the code's: one of its named errors, or *)
(* valid; and the replay map holds sequence numbers only.                  *)
THEOREM VerifierTypeCorrect == Spec => []TypeOK
<1>1. VerifierInv => TypeOK
  BY DEF VerifierInv
<1> QED
  BY <1>1, VerifierInvariant, PTL

(* However threads interleave, of two calls with one identity and sequence *)
(* a stateful verifier accepts at most one.                                *)
THEOREM VerifierAcceptsOnce == Spec => []AcceptedOnce
<1>1. VerifierInv => AcceptedOnce
  BY DEF VerifierInv
<1> QED
  BY <1>1, VerifierInvariant, PTL

(* verify() accepts exactly the conforming receipts, apart from those that *)
(* only the sequence check refuses.                                        *)
THEOREM VerifierExact == Spec => []AcceptsExactlyConforming
<1>1. VerifierInv => AcceptsExactlyConforming
  <2> SUFFICES ASSUME VerifierInv, NEW t \in Thread, pc[t] = "done"
               PROVE  verdict[t] \in LastVerdict <=> Conforms(call[t], now_sec[t])
    BY DEF AcceptsExactlyConforming, LastVerdict
  <2>1. call[t] \in CallType
    BY DEF VerifierInv, TypeOK
  <2>2. AllOK(call[t], now_sec[t]) <=> Conforms(call[t], now_sec[t])
    BY <2>1, ConformsParts
  <2>3. verdict[t] \in EarlyVerdict => verdict[t] \notin LastVerdict
    BY Verdicts DEF LastVerdict
  <2> QED
    BY <2>2, <2>3 DEF VerifierInv, StageInv
<1> QED
  BY <1>1, VerifierInvariant, PTL

(* An accepted document may be old, but is never more than the alignment   *)
(* limit in the verifier's future.                                         *)
THEOREM DocumentsInWindow == Spec => []DocumentWindow
<1>1. VerifierInv => DocumentWindow
  <2> SUFFICES ASSUME VerifierInv, NEW t \in Accepted
               PROVE  now_sec[t] - doc_sec(call[t])
                          \in -AlignmentLimit..max_clock_skew
    BY DEF DocumentWindow
  <2>1. t \in Thread /\ call[t] \in CallType /\ now_sec[t] \in 0..MaxClock
    BY DEF VerifierInv, TypeOK, Accepted
  <2>2. TimeOK(call[t], now_sec[t])
    BY Verdicts DEF VerifierInv, StageInv, Accepted, AllOK
  <2>3. /\ now_sec[t] \in Nat /\ doc_sec(call[t]) \in Nat
        /\ call[t].claimTs \in Int /\ max_clock_skew \in Nat
        /\ max_receipt_age \in Nat /\ AlignmentLimit \in Nat
    BY <2>1, TimeNumbers
  <2> QED
    BY <2>2, <2>3 DEF TimeOK
<1> QED
  BY <1>1, VerifierInvariant, PTL

(* If the two limits of the configuration fit an i64 together, only the    *)
(* age can overflow, and abs() never meets i64::MIN.                       *)
THEOREM OnlyAgeOverflows ==
    ASSUME LimitsFit
    PROVE  Spec => []OverflowOnlyInAge
<1> DEFINE NoneOverflown == \A t \in Thread : verdict[t].error \notin Overflow
<1>1. Init => NoneOverflown
  BY Verdicts DEF Init
<1>2. ASSUME VerifierInv, NoneOverflown, [Next]_vars PROVE NoneOverflown'
  <2>0. /\ verdict \in [Thread -> VerdictType] /\ clock \in 0..MaxClock
        /\ call \in [Thread -> CallType]
    BY <1>2 DEF VerifierInv, TypeOK, VerdictType
  <2>1. ASSUME NEW t \in Thread, NEW v, v.error \notin Overflow,
               verdict' = [verdict EXCEPT ![t] = v]
        PROVE  NoneOverflown'
    BY <1>2, <2>0, <2>1
  <2>2. ASSUME NEW t \in Thread, NEW faults, NEW next, Proceed(t, faults, next),
               FirstFault(faults) = Pass \/ FirstFault(faults) \in PlainVerdict
        PROVE  NoneOverflown'
    <3>1. FirstFault(faults).error \notin Overflow
      BY <2>2, Verdicts
    <3> QED
      BY <2>1, <2>2, <3>1 DEF Proceed
  <2>3. ASSUME NEW t \in Thread, CheckFormat(t) PROVE NoneOverflown'
    BY <2>0, <2>2, <2>3, FormatVerdict DEF CheckFormat
  <2>4. ASSUME NEW t \in Thread, CheckAttestation(t) PROVE NoneOverflown'
    BY <2>0, <2>2, <2>4, AttestationVerdict DEF CheckAttestation
  <2>5. ASSUME NEW t \in Thread, CheckTimestamps(t) PROVE NoneOverflown'
    BY <2>0, <2>2, <2>5, LimitsFit, NoOverflow DEF CheckTimestamps
  <2>6. ASSUME NEW t \in Thread, CheckBindings(t) PROVE NoneOverflown'
    BY <2>0, <2>2, <2>6, BindingVerdict DEF CheckBindings
  <2>7. ASSUME NEW t \in Thread, CheckSequence(t) PROVE NoneOverflown'
    <3>1. PICK v \in LastVerdict : verdict' = [verdict EXCEPT ![t] = v]
      BY <2>7 DEF CheckSequence, LastVerdict
    <3>2. v.error \notin Overflow
      BY <3>1, Verdicts
    <3> QED
      BY <2>1, <3>1, <3>2
  <2> QED
    BY <1>2, <2>3, <2>4, <2>5, <2>6, <2>7 DEF Next, vars, Tick
<1>3. VerifierInv /\ NoneOverflown => OverflowOnlyInAge
  <2> SUFFICES ASSUME VerifierInv, NoneOverflown, NEW t \in Thread,
                      pc[t] \in {"bindings", "sequence"}
               PROVE  /\ now_sec[t] - doc_sec(call[t]) # IMin
                      /\ doc_sec(call[t]) - call[t].claimTs # IMin
    BY DEF OverflowOnlyInAge, Overflow
  <2>1. call[t] \in CallType /\ now_sec[t] \in 0..MaxClock
    BY DEF VerifierInv, TypeOK
  <2>2. TimeOK(call[t], now_sec[t])
    BY DEF VerifierInv, StageInv, PassedUpTo, Middle
  <2>3. /\ now_sec[t] \in Nat /\ doc_sec(call[t]) \in Nat
        /\ doc_sec(call[t]) <= IMax /\ IMax \in Nat
        /\ call[t].claimTs \in Int
        /\ AlignmentLimit \in Nat /\ AlignmentLimit <= IMax
    BY <2>1, TimeNumbers
  <2> QED
    BY <2>2, <2>3 DEF TimeOK, IMin
<1> QED
  BY <1>1, <1>2, <1>3, VerifierInvariant, PTL DEF Spec

=============================================================================
