---------------------------- MODULE ChatProxyProofs ----------------------------
(***************************************************************************)
(* The chat demo, for any number of requests and slots: what its handlers  *)
(* do to the generator is what tasks that share a generator do, so what    *)
(* ReceiptGeneratorProofs shows of it holds in the demo; no path out of a  *)
(* handler loses or invents a permit; and the inline verifier refuses an   *)
(* own receipt only for its order or for the time, and is a ledger.        *)
(***************************************************************************)
EXTENDS ChatProxy, ReceiptGeneratorProofs, FiniteSetTheorems

(* A step of the demo is a step of the generator, or leaves it alone.      *)
LEMMA ChatStepsGenerator == [ChatNext]_chatVars => [Next]_vars
<1> SUFFICES ASSUME [ChatNext]_chatVars PROVE [Next]_vars
  OBVIOUS
<1>1. CASE UNCHANGED chatVars
  BY <1>1 DEF chatVars
<1>2. CASE ClockTick
  BY <1>2 DEF ClockTick, Next
<1>3. ASSUME NEW t \in Task, HandlerStep(t) PROVE [Next]_vars
  <2>1. CASE GenerateReceipt(t)
    BY <2>1 DEF GenerateReceipt, CallStep, Next
  <2>2. CASE SignReceipt(t)
    BY <2>2 DEF SignReceipt, CallStep, Next
  <2> QED
    BY <1>3, <2>1, <2>2
       DEF HandlerStep, StartFails, SpawnChild, InferenceFails,
           FinishInference, ReceiptFails, VerifyInline, AnswerRequest
<1>4. ASSUME NEW t \in Task, DisconnectReceipt(t) PROVE [Next]_vars
  BY <1>4 DEF DisconnectReceipt, Next
<1> QED
  BY <1>1, <1>2, <1>3, <1>4
     DEF ChatNext, RefuseRequest, InferenceBusy, AcquirePermit, ChildExits,
         DisconnectInference, DisconnectVerify

(* The demo drives its generator as the tasks of ReceiptGenerator do.      *)
THEOREM ChatUsesGenerator == ChatSpec => Spec
<1>1. ChatInit => Init
  BY DEF ChatInit
<1> QED
  BY <1>1, ChatStepsGenerator, PTL DEF ChatSpec, Spec

(* In the demo, too, receipts come out in sequence order ...               *)
THEOREM ChatReceiptsInOrder == ChatSpec => []CompletionOrder
  BY ChatUsesGenerator, ReceiptsInOrder, PTL

(* ... no sequence number gets lost ...                                    *)
THEOREM ChatNumbersAccountedFor == ChatSpec => []NothingLost
  BY ChatUsesGenerator, NumbersAccountedFor, PTL

(* ... the times of receipts follow their numbers ...                      *)
THEOREM ChatTimesInOrder == ChatSpec => []TimesFollowSequence
  BY ChatUsesGenerator, TimesInOrder, PTL

(* ... and the end of the counter is final.                                *)
THEOREM ChatCounterEnds == ChatSpec => ExhaustionIsTerminal
  BY ChatUsesGenerator, CounterEnds, PTL

-----------------------------------------------------------------------------
(* Permits.                                                                *)

ChatInv ==
    /\ stage \in [Task -> Stage]
    /\ answer \in [Task -> Status]
    /\ child \in [Task -> {"none", "running", "exited"}]
    /\ permits \in Nat
    /\ \A t \in Task : /\ stage[t] \in {"idle", "start"} => child[t] = "none"
                       /\ stage[t] = "receipt" => child[t] = "exited"
    /\ Capacity

LEMMA InferringFinite == IsFiniteSet(Inferring)
  BY TaskAssumption, FS_Subset DEF Inferring

(* A handler that gets a permit is one more at its inference.              *)
LEMMA Enters ==
    ASSUME ChatInv, NEW t \in Task, stage[t] = "idle",
           stage' = [stage EXCEPT ![t] = "start"]
    PROVE  Cardinality(Inferring') = Cardinality(Inferring) + 1
<1>1. t \notin Inferring /\ Inferring' = Inferring \cup {t}
  BY DEF ChatInv, Stage, Inferring
<1> QED
  BY <1>1, InferringFinite, FS_AddElement, FS_CardinalityType

(* A handler that leaves its inference, for whatever stage, is one less.   *)
LEMMA Leaves ==
    ASSUME ChatInv, NEW t \in Task, stage[t] \in {"start", "inference"},
           NEW s \in {"receipt", "done"}, stage' = [stage EXCEPT ![t] = s]
    PROVE  Cardinality(Inferring') = Cardinality(Inferring) - 1
<1>1. t \in Inferring /\ Inferring' = Inferring \ {t}
  BY DEF ChatInv, Stage, Inferring
<1> QED
  BY <1>1, InferringFinite, FS_RemoveElement, FS_CardinalityType

(* Any other step keeps the requests at their inference the same.          *)
LEMMA Stays ==
    ASSUME ChatInv, NEW t \in Task, NEW s \in Stage,
           stage[t] \in {"start", "inference"} <=> s \in {"start", "inference"},
           stage' = [stage EXCEPT ![t] = s]
    PROVE  Inferring' = Inferring
  BY DEF ChatInv, Stage, Inferring

(* A handler moves from where it holds no permit to where it holds none.   *)
LEMMA MoveStep ==
    ASSUME ChatInv, NEW t \in Task, stage[t] \in {"idle", "receipt"},
           NEW status \in Status, Respond(t, status),
           UNCHANGED <<permits, child>>
    PROVE  ChatInv'
<1>1. Inferring' = Inferring
  BY Stays DEF Respond, Stage
<1> QED
  BY <1>1 DEF ChatInv, Capacity, Respond, Stage

(* A handler gives its permit back on its way out of the inference.        *)
LEMMA LeaveStep ==
    ASSUME ChatInv, NEW t \in Task, stage[t] \in {"start", "inference"},
           child[t] # "running" \/ answer'[t] = "lost",
           \/ \E status \in Status : Respond(t, status)
           \/ Goto(t, "receipt") /\ child[t] = "exited",
           permits' = permits + 1, UNCHANGED child
    PROVE  ChatInv'
<1>1. Cardinality(Inferring') = Cardinality(Inferring) - 1
  BY Leaves DEF Respond, Goto
<1>2. Cardinality(Inferring) \in Nat
  BY InferringFinite, FS_CardinalityType
<1>3. permits' + Cardinality(Inferring') = Slots
  BY <1>1, <1>2, SlotsAssumption DEF ChatInv, Capacity
<1> QED
  BY <1>3 DEF ChatInv, Capacity, Respond, Goto, Stage

LEMMA AcquireStep ==
    ASSUME ChatInv, NEW t \in Task, NEW header, AcquirePermit(t, header)
    PROVE  ChatInv'
<1> USE DEF AcquirePermit, Goto
<1>1. Cardinality(Inferring') = Cardinality(Inferring) + 1
  BY Enters
<1>2. Cardinality(Inferring) \in Nat
  BY InferringFinite, FS_CardinalityType
<1>3. permits' \in Nat /\ permits' + Cardinality(Inferring') = Slots
  BY <1>1, <1>2, SlotsAssumption DEF ChatInv, Capacity
<1> QED
  BY <1>3 DEF ChatInv, Capacity, Stage

LEMMA SpawnStep ==
    ASSUME ChatInv, NEW t \in Task, SpawnChild(t)
    PROVE  ChatInv'
<1>1. Inferring' = Inferring
  BY Stays DEF SpawnChild, Goto, Stage
<1> QED
  BY <1>1 DEF ChatInv, Capacity, SpawnChild, Goto, Stage

LEMMA ExitStep ==
    ASSUME ChatInv, NEW t \in Task, ChildExits(t)
    PROVE  ChatInv'
<1>1. Inferring' = Inferring
  BY DEF ChildExits, Inferring
<1> QED
  BY <1>1 DEF ChatInv, Capacity, ChildExits

(* A step that leaves the handlers where they are.                         *)
LEMMA StillStep ==
    ASSUME ChatInv, UNCHANGED <<stage, answer, permits, child>>
    PROVE  ChatInv'
<1>1. Inferring' = Inferring
  BY DEF Inferring
<1> QED
  BY <1>1 DEF ChatInv, Capacity

LEMMA ChatInvNext == ChatInv /\ [ChatNext]_chatVars => ChatInv'
<1> SUFFICES ASSUME ChatInv, [ChatNext]_chatVars PROVE ChatInv'
  OBVIOUS
<1>1. CASE UNCHANGED chatVars \/ ClockTick
  BY <1>1, StillStep DEF chatVars, handlerVars, ClockTick
<1>2. ASSUME NEW t \in Task, HandlerStep(t) PROVE ChatInv'
  <2>1. CASE StartFails(t)
    BY <2>1, LeaveStep DEF StartFails, Status, ChatInv
  <2>2. CASE InferenceFails(t)
    BY <2>2, LeaveStep DEF InferenceFails, Status
  <2>3. CASE FinishInference(t)
    BY <2>3, LeaveStep DEF FinishInference
  <2>4. CASE GenerateReceipt(t) \/ SignReceipt(t) \/ VerifyInline(t)
    BY <2>4, StillStep
       DEF GenerateReceipt, SignReceipt, VerifyInline, handlerVars
  <2>5. CASE ReceiptFails(t) \/ AnswerRequest(t)
    BY <2>5, MoveStep DEF ReceiptFails, AnswerRequest, Status
  <2> QED
    BY <1>2, <2>1, <2>2, <2>3, <2>4, <2>5, SpawnStep DEF HandlerStep
<1>3. ASSUME NEW t \in Task, NEW wellFormed \in BOOLEAN, NEW header \in Header,
             \/ RefuseRequest(t, wellFormed, header)
             \/ InferenceBusy(t, header)
      PROVE  ChatInv'
  BY <1>3, MoveStep DEF RefuseRequest, InferenceBusy, Status
<1>4. ASSUME NEW t \in Task,
             DisconnectInference(t) \/ DisconnectReceipt(t) \/ DisconnectVerify(t)
      PROVE  ChatInv'
  <2>1. CASE DisconnectInference(t)
    <3>1. answer'[t] = "lost"
      BY <2>1 DEF DisconnectInference, Respond, ChatInv
    <3> QED
      BY <2>1, <3>1, LeaveStep DEF DisconnectInference, Status
  <2> QED
    BY <1>4, <2>1, MoveStep DEF DisconnectReceipt, DisconnectVerify, Status
<1> QED
  BY <1>1, <1>2, <1>3, <1>4, AcquireStep, ExitStep DEF ChatNext

LEMMA ChatInvariant == ChatSpec => []ChatInv
<1>1. ChatInit => ChatInv
  <2> SUFFICES ASSUME ChatInit PROVE ChatInv
    OBVIOUS
  <2>1. Inferring = {}
    BY DEF ChatInit, Inferring
  <2>2. permits + Cardinality(Inferring) = Slots
    BY <2>1, FS_EmptySet, SlotsAssumption DEF ChatInit
  <2> QED
    BY <2>2, SlotsAssumption DEF ChatInit, ChatInv, Capacity, Stage, Status
<1> QED
  BY <1>1, ChatInvNext, PTL DEF ChatSpec

(* Every permit is free or belongs to a request at its inference, and only *)
(* a child whose client went away runs without its handler.                *)
THEOREM PermitsAccountedFor == ChatSpec => []Capacity
<1>1. ChatInv => Capacity
  BY DEF ChatInv
<1> QED
  BY <1>1, ChatInvariant, PTL

(* A request is turned away as busy only while every slot is taken by an   *)
(* inference.                                                              *)
THEOREM BusyIsHonest == ChatSpec => BusyOnlyWhenInferring
<1> DEFINE Honest == \A t \in Task : answer'[t] = "busy" /\ answer[t] = "none" =>
                         Cardinality(Inferring) = Slots
<1>1. ChatInv /\ [ChatNext]_chatVars => [Honest]_chatVars
  <2> SUFFICES ASSUME ChatInv, ChatNext,
                      NEW u \in Task, answer'[u] = "busy", answer[u] = "none"
               PROVE  Cardinality(Inferring) = Slots
    OBVIOUS
  <2>1. Cardinality(Inferring) \in Nat
    BY InferringFinite, FS_CardinalityType
  <2>2. ASSUME NEW t \in Task, NEW header \in Header, InferenceBusy(t, header)
        PROVE  Cardinality(Inferring) = Slots
    BY <2>1, <2>2, SlotsAssumption DEF InferenceBusy, ChatInv, Capacity
  <2>3. ASSUME NEW t \in Task, NEW status \in Status \ {"busy"},
               Respond(t, status)
        PROVE  FALSE
    BY <2>3 DEF Respond, ChatInv
  <2>4. CASE UNCHANGED answer
    BY <2>4
  <2> QED
    BY <2>2, <2>3, <2>4
       DEF ChatNext, HandlerStep, RefuseRequest, AcquirePermit, StartFails,
           SpawnChild, InferenceFails, FinishInference, GenerateReceipt,
           SignReceipt, ReceiptFails, VerifyInline, AnswerRequest, ChildExits,
           DisconnectInference, DisconnectReceipt, DisconnectVerify, ClockTick,
           Goto, Status, handlerVars
<1>2. BusyOnlyWhenInferring <=> [][Honest]_chatVars
  BY DEF BusyOnlyWhenInferring
<1> QED
  BY <1>1, <1>2, ChatInvariant, PTL DEF ChatSpec

-----------------------------------------------------------------------------
(* Inline verification.  The verifier is an instance of Verifier whose     *)
(* calls are the receipts of the demo's own generator.                     *)

(* Milliseconds and seconds: a document's time survives the conversion,    *)
(* and the machine integers are wide enough for every time of the clock.   *)
LEMMA SecondsOfMilliseconds ==
    ASSUME NEW d \in 0..MaxClock
    PROVE  /\ d * MsPerSec \in 0..V!UMax
           /\ (d * MsPerSec) \div MsPerSec = d
           /\ \A m \in -MaxClock..MaxClock : V!InI64(m)
<1>0. d \in Nat /\ MaxClock \in Nat /\ MsPerSec \in Nat /\ MsPerSec >= 2
      /\ d <= MaxClock
  BY ClockAssumption, LimitsAssumption
<1>1. d * MsPerSec \in Nat /\ d * MsPerSec <= MsPerSec * (MaxClock + 1)
  BY <1>0
<1>2. MaxClock < MsPerSec * (MaxClock + 1) /\ MsPerSec * (MaxClock + 1) \in Nat
  BY <1>0
<1>3. (d * MsPerSec) \div MsPerSec = d
  BY <1>0
<1> QED
  BY <1>0, <1>1, <1>2, <1>3 DEF V!UMax, V!InI64, V!IMin

(* A list of faults none of which is there is passed.                      *)
LEMMA NoFault ==
    ASSUME NEW n \in Nat, NEW faults, DOMAIN faults = 1..n,
           \A i \in 1..n : ~faults[i][1]
    PROVE  V!FirstFault(faults) = V!Pass
  BY DEF V!FirstFault

(* A fault that is there and has none before it is the verdict.            *)
LEMMA OneFault ==
    ASSUME NEW n \in Nat, NEW faults, DOMAIN faults = 1..n,
           NEW i \in 1..n, faults[i][1],
           \A j \in 1..n : j < i => ~faults[j][1]
    PROVE  V!FirstFault(faults) = faults[i][2]
<1> DEFINE found == {k \in DOMAIN faults : faults[k][1]}
<1>1. i \in found /\ \A k \in found : i <= k
  OBVIOUS
<1>2. found \subseteq Nat
  OBVIOUS
<1>3. V!Min(found) = i
  <2> HIDE DEF found
  <2>1. \A x \in found : (\A y \in found : x <= y) => x = i
    BY <1>1, <1>2
  <2> QED
    BY <1>1, <2>1, Zenon DEF V!Min
<1> QED
  BY <1>1, <1>3 DEF V!FirstFault

LEMMA InlineCallTyped ==
    ASSUME NEW r \in IssuedReceipt
    PROVE  InlineCall(r) \in V!CallType /\ OwnCall \in V!CallType
<1>1. /\ r.docTime \in 0..MaxClock /\ r.claimTime \in 0..MaxClock
      /\ r.seq \in Nat
  BY DEF IssuedReceipt
<1>2. /\ r.docTime * MsPerSec \in 0..V!UMax /\ 0 \in 0..V!UMax
      /\ r.claimTime \in V!IMin..(MsPerSec * (MaxClock + 1))
      /\ 0 \in V!IMin..(MsPerSec * (MaxClock + 1))
  <2>1. 0 * MsPerSec = 0 /\ 0 \in 0..MaxClock
    BY ClockAssumption, LimitsAssumption
  <2>2. r.claimTime \in -MaxClock..MaxClock /\ 0 \in -MaxClock..MaxClock
    BY <1>1, ClockAssumption
  <2> QED
    BY <1>1, <2>1, <2>2, SecondsOfMilliseconds DEF V!InI64
<1>3. OwnCall \in V!CallType
  BY <1>2 DEF OwnCall, V!CallType, V!Match, V!ContentType
<1>4. ASSUME NEW c \in V!CallType, NEW m \in 0..V!UMax
      PROVE  [c EXCEPT !.docMs = m] \in V!CallType
  BY DEF V!CallType
<1>5. ASSUME NEW c \in V!CallType,
             NEW ts \in V!IMin..(MsPerSec * (MaxClock + 1))
      PROVE  [c EXCEPT !.claimTs = ts] \in V!CallType
  BY DEF V!CallType
<1>6. ASSUME NEW c \in V!CallType, NEW q \in Nat
      PROVE  [c EXCEPT !.seq = q] \in V!CallType
  BY DEF V!CallType
<1> QED
  BY <1>1, <1>2, <1>3, <1>4, <1>5, <1>6, Zenon DEF InlineCall

LEMMA InlineCallSeq ==
    ASSUME NEW r
    PROVE  InlineCall(r).seq = r.seq /\ InlineCall(r).identity = Enclave
  BY DEF InlineCall, OwnCall

(* An own receipt has no fault in the lists that do not look at the time.  *)
LEMMA OwnReceiptPasses ==
    ASSUME NEW r
    PROVE  /\ V!FirstFault(V!FormatFaults(InlineCall(r))) = V!Pass
           /\ V!FirstFault(V!AttestationFaults(InlineCall(r))) = V!Pass
           /\ V!FirstFault(V!BindingFaults(InlineCall(r))) = V!Pass
<1> DEFINE c == InlineCall(r)
<1>1. /\ c.size = 1 /\ c.pcrLen = 48 /\ c.cose /\ c.alg = "EdDSA"
      /\ ~c.uAlg /\ ~c.crit /\ ~c.uOther /\ c.ctype = "cwt"
      /\ c.uCtype = "none" /\ c.payload /\ c.claims
  BY DEF InlineCall, OwnCall
<1>2. /\ c.attType = 3 /\ c.signature /\ c.document /\ c.chain = {Enclave}
      /\ c.pcr0 = "match" /\ c.pubkey = "match" /\ c.userData = "match"
      /\ c.docNonce = "match" /\ c.claimNonce
      /\ c.model /\ c.input /\ c.output
  BY DEF InlineCall, OwnCall
<1> HIDE DEF c
<1>3. V!FirstFault(V!FormatFaults(c)) = V!Pass
  <2> DEFINE f == V!FormatFaults(c)
  <2>1. DOMAIN f = 1..11
    BY DEF V!FormatFaults
  <2>2. \A i \in 1..11 : ~f[i][1]
    <3>1. /\ f[1][1] <=> c.size > 1
          /\ f[2][1] <=> c.pcrLen # 48
          /\ f[3][1] <=> ~c.cose
          /\ f[4][1] <=> c.alg = "none"
          /\ f[5][1] <=> c.alg # "EdDSA"
          /\ f[6][1] <=> c.uAlg
          /\ f[7][1] <=> c.crit
          /\ f[8][1] <=> V!UnprotectedNonEmpty(c)
          /\ f[9][1] <=> c.ctype # "cwt"
          /\ f[10][1] <=> ~c.payload
          /\ f[11][1] <=> ~c.claims
      BY DEF V!FormatFaults
    <3> HIDE DEF f
    <3>2. \A i \in {1, 2, 3, 4, 5, 6, 7, 8, 9, 10, 11} : ~f[i][1]
      BY <1>1, <3>1 DEF V!UnprotectedNonEmpty
    <3> QED
      BY <3>2
  <2> HIDE DEF f
  <2>3. V!FirstFault(f) = V!Pass
    BY <2>1, <2>2, NoFault
  <2> QED
    BY <2>3 DEF f
<1>4. V!FirstFault(V!AttestationFaults(c)) = V!Pass
  <2> DEFINE f == V!AttestationFaults(c)
  <2>1. DOMAIN f = 1..4
    BY DEF V!AttestationFaults
  <2>2. \A i \in 1..4 : ~f[i][1]
    <3>1. /\ f[1][1] <=> c.attType # 3
          /\ f[2][1] <=> ~c.signature
          /\ f[3][1] <=> ~c.document
          /\ f[4][1] <=> ~\E root \in {Enclave} : root \in c.chain
      BY DEF V!AttestationFaults
    <3> HIDE DEF f
    <3>2. \A i \in {1, 2, 3, 4} : ~f[i][1]
      BY <1>2, <3>1
    <3> QED
      BY <3>2
  <2> HIDE DEF f
  <2>3. V!FirstFault(f) = V!Pass
    BY <2>1, <2>2, NoFault
  <2> QED
    BY <2>3 DEF f
<1>5. V!FirstFault(V!BindingFaults(c)) = V!Pass
  <2> DEFINE f == V!BindingFaults(c)
  <2>1. DOMAIN f = 1..7
    BY DEF V!BindingFaults
  <2>2. \A i \in 1..7 : ~f[i][1]
    <3>1. /\ f[1][1] <=> c.pcr0 # "match"
          /\ f[2][1] <=> c.pubkey # "match"
          /\ f[3][1] <=> c.userData # "match"
          /\ f[4][1] <=> ~(c.docNonce = "match" /\ c.claimNonce)
          /\ f[5][1] <=> ~c.model
          /\ f[6][1] <=> ~c.input
          /\ f[7][1] <=> ~c.output
      BY DEF V!BindingFaults
    <3> HIDE DEF f
    <3>2. \A i \in {1, 2, 3, 4, 5, 6, 7} : ~f[i][1]
      BY <1>2, <3>1
    <3> QED
      BY <3>2
  <2> HIDE DEF f
  <2>3. V!FirstFault(f) = V!Pass
    BY <2>1, <2>2, NoFault
  <2> QED
    BY <2>3 DEF f
<1> QED
  BY <1>3, <1>4, <1>5 DEF c

(* The entries of the list about times.                                    *)
LEMMA InlineTimeEntries ==
    ASSUME NEW c, NEW now
    PROVE  LET f == V!TimestampFaults(c, now)
           IN  /\ DOMAIN f = 1..6
               /\ f[1][1] <=> ~V!InI64(now - V!doc_sec(c))
               /\ f[2][1] <=> V!Abs(now - V!doc_sec(c)) > max_clock_skew
               /\ f[3][1] <=> ~V!InI64(now - c.claimTs)
               /\ f[4][1] <=> \/ now - c.claimTs < 0
                              \/ now - c.claimTs > max_receipt_age
               /\ f[5][1] <=> ~V!InI64(V!doc_sec(c) - c.claimTs)
               /\ f[6][1] <=> V!Abs(V!doc_sec(c) - c.claimTs) > AlignmentLimit
               /\ f[2][2] = V!Refused("TimestampSkewExceeded")
               /\ f[6][2] = V!Refused("AttestationDocTimestampMismatch")
<1> DEFINE f == V!TimestampFaults(c, now)
<1>1. DOMAIN f = 1..6
  BY DEF V!TimestampFaults
<1>2. /\ f[1][1] <=> ~V!InI64(now - V!doc_sec(c))
      /\ f[2][1] <=> V!Abs(now - V!doc_sec(c)) > max_clock_skew
      /\ f[3][1] <=> ~V!InI64(now - c.claimTs)
  BY DEF V!TimestampFaults
<1>3. /\ f[4][1] <=> now - c.claimTs < 0 \/ now - c.claimTs > max_receipt_age
      /\ f[5][1] <=> ~V!InI64(V!doc_sec(c) - c.claimTs)
      /\ f[6][1] <=> V!Abs(V!doc_sec(c) - c.claimTs) > AlignmentLimit
  BY DEF V!TimestampFaults
<1>4. /\ f[2][2] = V!Refused("TimestampSkewExceeded")
      /\ f[6][2] = V!Refused("AttestationDocTimestampMismatch")
  BY DEF V!TimestampFaults
<1> HIDE DEF f
<1>5. f = V!TimestampFaults(c, now)
  BY DEF f
<1> QED
  BY <1>1, <1>2, <1>3, <1>4, <1>5

(* What the check of the times says of an own receipt: its document is too *)
(* old, or its claims are too far from it, or it passes.  The age cannot   *)
(* be what is wrong: claims are no older than their document.              *)
LEMMA OwnReceiptTimes ==
    ASSUME NEW r \in IssuedReceipt, NEW now \in 0..MaxClock,
           r.docTime <= r.claimTime, r.claimTime <= now,
           NEW c, c = InlineCall(r),
           NEW v, v = V!FirstFault(V!TimestampFaults(c, now))
    PROVE  \/ v = V!Pass
           \/ /\ v = V!Refused("TimestampSkewExceeded")
              /\ now - V!doc_sec(c) > max_clock_skew
           \/ /\ v = V!Refused("AttestationDocTimestampMismatch")
              /\ c.claimTs - V!doc_sec(c) > AlignmentLimit
<1> DEFINE f == V!TimestampFaults(c, now)
           doc == V!doc_sec(c)
<1>1. /\ r.docTime \in 0..MaxClock /\ r.claimTime \in 0..MaxClock
  BY DEF IssuedReceipt
<1>2. doc = r.docTime /\ c.claimTs = r.claimTime
  <2>1. c.docMs = r.docTime * MsPerSec /\ c.claimTs = r.claimTime
    BY DEF InlineCall, OwnCall
  <2> QED
    BY <1>1, <2>1, SecondsOfMilliseconds DEF V!doc_sec
<1>3. DOMAIN f = 1..6
  BY InlineTimeEntries
<1>4. /\ f[1][1] <=> ~V!InI64(now - doc)
      /\ f[2][1] <=> V!Abs(now - doc) > max_clock_skew
      /\ f[3][1] <=> ~V!InI64(now - c.claimTs)
      /\ f[4][1] <=> \/ now - c.claimTs < 0
                     \/ now - c.claimTs > max_receipt_age
      /\ f[5][1] <=> ~V!InI64(doc - c.claimTs)
      /\ f[6][1] <=> V!Abs(doc - c.claimTs) > AlignmentLimit
      /\ f[2][2] = V!Refused("TimestampSkewExceeded")
      /\ f[6][2] = V!Refused("AttestationDocTimestampMismatch")
  BY InlineTimeEntries
<1> HIDE DEF f, doc
<1>5. ~f[1][1] /\ ~f[3][1] /\ ~f[5][1]
  <2>1. {now - doc, now - c.claimTs, doc - c.claimTs} \subseteq -MaxClock..MaxClock
    BY <1>1, <1>2, ClockAssumption
  <2> QED
    BY <1>4, <2>1, SecondsOfMilliseconds, <1>1
<1>6. /\ f[2][1] <=> now - doc > max_clock_skew
      /\ f[6][1] <=> c.claimTs - doc > AlignmentLimit
  BY <1>1, <1>2, <1>4, ClockAssumption, LimitsAssumption DEF V!Abs
<1>7. ~f[2][1] => ~f[4][1]
  BY <1>1, <1>2, <1>4, <1>6, ClockAssumption, LimitsAssumption
<1>8. v = V!FirstFault(f)
  BY DEF f
<1>9. CASE f[2][1]
  <2>1. \A j \in 1..6 : j < 2 => ~f[j][1]
    BY <1>5
  <2>2. v = f[2][2]
    BY <1>3, <1>8, <1>9, <2>1, OneFault, 6 \in Nat, 2 \in 1..6
  <2> QED
    BY <1>4, <1>6, <1>9, <2>2 DEF doc
<1>10. CASE ~f[2][1] /\ f[6][1]
  <2>1. \A j \in 1..6 : j < 6 => ~f[j][1]
    BY <1>5, <1>7, <1>10
  <2>2. v = f[6][2]
    BY <1>3, <1>8, <1>10, <2>1, OneFault, 6 \in Nat, 6 \in 1..6
  <2> QED
    BY <1>4, <1>6, <1>10, <2>2 DEF doc
<1>11. CASE ~f[2][1] /\ ~f[6][1]
  <2>1. \A j \in 1..6 : ~f[j][1]
    BY <1>5, <1>7, <1>11
  <2> QED
    BY <1>3, <1>8, <2>1, NoFault
<1> QED
  BY <1>9, <1>10, <1>11

-----------------------------------------------------------------------------
(* The invariant of inline verification.                                   *)

(* What verify() can have said of an own receipt.                          *)
InlineVerdict ==
    {V!Pass, V!Valid} \cup
    {V!Refused(e) : e \in {"SequenceNumberOutOfOrder", "TimestampSkewExceeded",
                           "AttestationDocTimestampMismatch"}}

InlineTypes ==
    /\ call \in [Task -> V!CallType]
    /\ replay \in [{Enclave} -> Nat \cup {V!NoSeq}]
    /\ vpc \in [Task -> {"idle", "attestation", "time", "bindings",
                         "sequence", "done"}]
    /\ now_sec \in [Task -> 0..MaxClock]
    /\ verdict \in [Task -> InlineVerdict]

(* What a handler verifies is the receipt it was given, and it has one     *)
(* only when its generate_receipt returned.                                *)
Provenance ==
    \A t \in Task :
        /\ result[t] = "Ok" =>
               /\ pc[t] = "done"
               /\ \E n \in 1..Len(issued) : call[t] = InlineCall(issued[n])
        /\ result[t] # "Ok" => vpc[t] = "idle"
        /\ vpc[t] # "done" => verdict[t] = V!Pass

(* No two handlers have the same receipt.                                  *)
OwnReceipts ==
    \A t, u \in Task :
        result[t] = "Ok" /\ result[u] = "Ok" /\ t # u
            => call[t].seq # call[u].seq

(* The replay map holds the newest sequence that was found valid.          *)
HighWater ==
    /\ replay[Enclave] # V!NoSeq =>
           \E u \in Task : verdict[u] = V!Valid /\ call[u].seq = replay[Enclave]
    /\ Stateful => \A u \in Task : verdict[u] = V!Valid =>
                       call[u].seq <= replay[Enclave]

InlineInv ==
    InlineTypes /\ Provenance /\ OwnReceipts /\ HighWater
    /\ InlineRefusalExplained

LEMMA VerdictsDiffer ==
    /\ V!Pass # V!Valid
    /\ \A e : V!Refused(e) # V!Pass /\ V!Refused(e) # V!Valid
  BY DEF V!Pass, V!Valid, V!Refused

(* A receipt the generator has handed out, and when it was made.           *)
LEMMA IssuedTimes ==
    ASSUME GeneratorInv, NEW n \in 1..Len(issued)
    PROVE  /\ issued[n] \in IssuedReceipt
           /\ issued[n].docTime <= issued[n].claimTime
           /\ issued[n].claimTime <= clock
  BY DEF GeneratorInv, TypeOK, TimesFollowSequence, Younger

LEMMA InlineInit == ChatInit => InlineInv
<1> SUFFICES ASSUME ChatInit PROVE InlineInv
  OBVIOUS
<1>1. 0 \in 0..MaxClock
  BY ClockAssumption
<1>2. OwnCall \in V!CallType
  <2>1. [seq |-> 0, docTime |-> 0, claimTime |-> 0] \in IssuedReceipt
    BY <1>1 DEF IssuedReceipt
  <2> QED
    BY <2>1, InlineCallTyped
<1>3. InlineTypes
  BY <1>1, <1>2 DEF ChatInit, InlineTypes, InlineVerdict
<1>4. Provenance /\ OwnReceipts /\ InlineRefusalExplained
  BY DEF ChatInit, Init, Provenance, OwnReceipts, InlineRefusalExplained
<1>5. HighWater
  BY VerdictsDiffer DEF ChatInit, HighWater
<1> QED
  BY <1>3, <1>4, <1>5 DEF InlineInv

(* A step that touches neither the calls nor the verifier.                 *)
LEMMA InlineStill ==
    ASSUME InlineInv, UNCHANGED <<call, verifierVars>>,
           \A t \in Task : /\ result[t] = "Ok" <=> result'[t] = "Ok"
                           /\ result[t] = "Ok" => pc'[t] = pc[t],
           issued' = issued
    PROVE  InlineInv'
<1>1. InlineTypes' /\ HighWater'
  BY DEF InlineInv, InlineTypes, HighWater, verifierVars
<1>2. Provenance' /\ OwnReceipts'
  BY DEF InlineInv, Provenance, OwnReceipts, verifierVars
<1>3. InlineRefusalExplained'
  BY DEF InlineInv, InlineRefusalExplained, RefusalExplained, verifierVars
<1> QED
  BY <1>1, <1>2, <1>3 DEF InlineInv

(* The generator steps of a call that does not return Ok.                  *)
LEMMA InlineGenerate ==
    ASSUME InlineInv, GeneratorInv, NEW t \in Task,
           GenerateReceipt(t) \/ DisconnectReceipt(t)
    PROVE  InlineInv'
<1> USE DEF InlineInv, Provenance, GeneratorInv, TypeOK
<1>1. UNCHANGED <<call, verifierVars>>
  BY DEF GenerateReceipt, DisconnectReceipt, handlerVars
<1>2. result[t] # "Ok" /\ result'[t] # "Ok" /\ issued' = issued
      /\ \A u \in Task : u # t => result'[u] = result[u] /\ pc'[u] = pc[u]
  BY DEF GenerateReceipt, DisconnectReceipt, Cancel, Lock, Attest, AttestFails,
         Allocate, AllocateFails, SignFails, Return
<1> QED
  BY <1>1, <1>2, InlineStill

(* The new receipt is its handler's own, and newer than all before it.     *)
LEMMA InlineSign ==
    ASSUME InlineInv, GeneratorInv, NEW t \in Task, SignReceipt(t)
    PROVE  InlineInv'
<1> DEFINE r == [seq |-> seq[t], docTime |-> docTime[t], claimTime |-> clock]
           k == Len(issued) + 1
<1>1. /\ pc[t] = "sign" /\ issued' = Append(issued, r)
      /\ pc' = [pc EXCEPT ![t] = "done"]
      /\ result' = [result EXCEPT ![t] = "Ok"]
      /\ call' = [call EXCEPT ![t] = InlineCall(issued'[Len(issued')])]
      /\ UNCHANGED verifierVars
  BY DEF SignReceipt, Sign, Return
<1>2. /\ pc \in [Task -> {"lock", "attest", "allocate", "sign", "done"}]
      /\ DOMAIN result = Task /\ issued \in Seq(IssuedReceipt)
      /\ r \in IssuedReceipt /\ DOMAIN call = Task
  BY DEF GeneratorInv, TypeOK, IssuedReceipt, InlineInv, InlineTypes
<1> HIDE DEF r
<1>3. /\ Len(issued') = k /\ issued'[k] = r
      /\ \A n \in 1..Len(issued) : n \in 1..k /\ issued'[n] = issued[n]
  BY <1>1, <1>2
<1>4. /\ result[t] # "Ok" /\ vpc[t] = "idle" /\ verdict[t] = V!Pass
      /\ verdict[t] # V!Valid
  BY <1>1, VerdictsDiffer DEF InlineInv, Provenance
<1>5. /\ call'[t] = InlineCall(r) /\ result'[t] = "Ok" /\ pc'[t] = "done"
      /\ \A u \in Task : u # t => /\ call'[u] = call[u] /\ pc'[u] = pc[u]
                                  /\ result'[u] = result[u]
  BY <1>1, <1>2, <1>3
<1>6. InlineTypes'
  <2>1. InlineCall(r) \in V!CallType
    BY <1>2, InlineCallTyped
  <2>2. call' \in [Task -> V!CallType]
    BY <1>1, <1>3, <2>1 DEF InlineInv, InlineTypes
  <2> QED
    BY <1>1, <2>2 DEF InlineInv, InlineTypes, verifierVars
<1>7. Provenance'
  <2>1. ASSUME NEW u \in Task, result'[u] = "Ok"
        PROVE  /\ pc'[u] = "done"
               /\ \E n \in 1..Len(issued') : call'[u] = InlineCall(issued'[n])
    <3>1. CASE u = t
      <4>1. k \in 1..Len(issued')
        BY <1>2, <1>3
      <4> QED
        BY <1>3, <1>5, <3>1, <4>1
    <3>2. CASE u # t
      <4>1. pc[u] = "done"
            /\ \E n \in 1..Len(issued) : call[u] = InlineCall(issued[n])
        BY <1>5, <2>1, <3>2 DEF InlineInv, Provenance
      <4> QED
        BY <1>3, <1>5, <3>2, <4>1
    <3> QED
      BY <3>1, <3>2
  <2> QED
    BY <1>1, <1>4, <1>5, <2>1 DEF InlineInv, Provenance, verifierVars
<1>8. OwnReceipts'
  <2>1. ASSUME NEW u \in Task, u # t, result[u] = "Ok"
        PROVE  call'[u].seq # call'[t].seq
    <3>1. PICK n \in 1..Len(issued) : call[u] = InlineCall(issued[n])
      BY <2>1 DEF InlineInv, Provenance
    <3>2. issued[n].seq < seq[t] /\ issued[n].seq \in Nat /\ seq[t] \in Nat
      BY <1>1, IssuedFields DEF GeneratorInv, Newest, TypeOK
    <3>3. call'[u].seq = issued[n].seq /\ call'[t].seq = seq[t]
      <4>1. r.seq = seq[t]
        BY DEF r
      <4>2. InlineCall(r).seq = r.seq /\ InlineCall(issued[n]).seq = issued[n].seq
        BY InlineCallSeq
      <4> QED
        BY <1>5, <2>1, <3>1, <4>1, <4>2
    <3> QED
      BY <3>2, <3>3
  <2> QED
    BY <1>5, <2>1 DEF InlineInv, OwnReceipts
<1>9. HighWater'
  BY <1>1, <1>4, <1>5 DEF InlineInv, HighWater, verifierVars
<1>10. InlineRefusalExplained'
  BY <1>1, <1>4, <1>5
     DEF InlineInv, InlineRefusalExplained, RefusalExplained, verifierVars
<1> QED
  BY <1>6, <1>7, <1>8, <1>9, <1>10 DEF InlineInv

(* A stage of verify() at the end of which t has verdict v.                *)
LEMMA InlineProceed ==
    ASSUME InlineInv, NEW t \in Task, result[t] = "Ok", vpc[t] # "done",
           NEW p \in {"attestation", "time", "bindings", "sequence", "done"},
           NEW v \in InlineVerdict \ {V!Valid},
           p # "done" => v = V!Pass,
           vpc' = [vpc EXCEPT ![t] = p],
           verdict' = [verdict EXCEPT ![t] = v],
           NEW now \in 0..MaxClock, now_sec' = [now_sec EXCEPT ![t] = now],
           p = "done" =>
               \/ /\ v = V!Refused("SequenceNumberOutOfOrder")
                  /\ \E u \in Task : verdict[u] = V!Valid
                                     /\ call[u].seq > call[t].seq
               \/ /\ v = V!Refused("TimestampSkewExceeded")
                  /\ now - V!doc_sec(call[t]) > max_clock_skew
               \/ /\ v = V!Refused("AttestationDocTimestampMismatch")
                  /\ call[t].claimTs - V!doc_sec(call[t]) > AlignmentLimit,
           UNCHANGED <<vars, call, replay>>
    PROVE  InlineInv'
<1>0. UNCHANGED <<pc, result, issued>>
  BY DEF vars
<1>1. InlineTypes'
  BY DEF InlineInv, InlineTypes
<1>2. verdict[t] = V!Pass /\ verdict[t] # V!Valid
  BY VerdictsDiffer DEF InlineInv, Provenance
<1>3. /\ vpc'[t] = p /\ verdict'[t] = v /\ now_sec'[t] = now
      /\ \A u \in Task : u # t => /\ vpc'[u] = vpc[u]
                                  /\ verdict'[u] = verdict[u]
                                  /\ now_sec'[u] = now_sec[u]
  BY DEF InlineInv, InlineTypes
<1>4. \A u \in Task : verdict'[u] = V!Valid <=> verdict[u] = V!Valid
  BY <1>2, <1>3
<1>5. Provenance' /\ OwnReceipts'
  BY <1>0, <1>3 DEF InlineInv, Provenance, OwnReceipts
<1>6. HighWater'
  BY <1>4 DEF InlineInv, HighWater
<1>7. InlineRefusalExplained'
  <2> SUFFICES ASSUME NEW u \in Task, vpc'[u] = "done"
               PROVE  RefusalExplained(u)'
    BY DEF InlineRefusalExplained
  <2>1. CASE u = t
    BY <1>3, <1>4, <2>1 DEF RefusalExplained
  <2>2. CASE u # t
    BY <1>3, <1>4, <2>2
       DEF InlineInv, InlineRefusalExplained, RefusalExplained
  <2> QED
    BY <2>1, <2>2
<1> QED
  BY <1>1, <1>5, <1>6, <1>7 DEF InlineInv

(* Each stage of the inline verify().                                      *)
LEMMA InlineVerifyStep ==
    ASSUME InlineInv, GeneratorInv, NEW t \in Task, VerifyInline(t)
    PROVE  InlineInv'
<1>1. result[t] = "Ok" /\ UNCHANGED <<vars, call>>
  BY DEF VerifyInline, handlerVars
<1>2. PICK n \in 1..Len(issued) : call[t] = InlineCall(issued[n])
  BY <1>1 DEF InlineInv, Provenance
<1>3. /\ V!FirstFault(V!FormatFaults(call[t])) = V!Pass
      /\ V!FirstFault(V!AttestationFaults(call[t])) = V!Pass
      /\ V!FirstFault(V!BindingFaults(call[t])) = V!Pass
  BY <1>2, OwnReceiptPasses
<1>4. /\ clock \in 0..MaxClock /\ now_sec[t] \in 0..MaxClock
      /\ now_sec \in [Task -> 0..MaxClock]
      /\ verdict \in [Task -> InlineVerdict]
      /\ V!Pass \in InlineVerdict \ {V!Valid}
  BY VerdictsDiffer
     DEF GeneratorInv, TypeOK, InlineInv, InlineTypes, InlineVerdict
<1>5. CASE V!CheckFormat(t) \/ V!CheckAttestation(t) \/ V!CheckBindings(t)
  <2>1. \E p \in {"attestation", "time", "sequence"} :
            vpc' = [vpc EXCEPT ![t] = p]
    BY <1>3, <1>5
       DEF V!CheckFormat, V!CheckAttestation, V!CheckBindings, V!Proceed
  <2>2. /\ verdict' = [verdict EXCEPT ![t] = V!Pass]
        /\ now_sec' = [now_sec EXCEPT ![t] = now_sec[t]]
        /\ vpc[t] # "done" /\ UNCHANGED replay
    BY <1>3, <1>4, <1>5
       DEF V!CheckFormat, V!CheckAttestation, V!CheckBindings, V!Proceed
  <2> QED
    BY <1>1, <1>4, <2>1, <2>2, InlineProceed
<1>6. CASE V!CheckTimestamps(t)
  <2> DEFINE v == V!FirstFault(V!TimestampFaults(call[t], clock))
  <2>1. /\ vpc[t] = "time" /\ UNCHANGED replay
        /\ now_sec' = [now_sec EXCEPT ![t] = clock]
        /\ vpc' = [vpc EXCEPT ![t] = IF v = V!Pass THEN "bindings" ELSE "done"]
        /\ verdict' = [verdict EXCEPT ![t] = v]
    BY <1>6 DEF V!CheckTimestamps, V!Proceed
  <2>2. \/ v = V!Pass
        \/ /\ v = V!Refused("TimestampSkewExceeded")
           /\ clock - V!doc_sec(call[t]) > max_clock_skew
        \/ /\ v = V!Refused("AttestationDocTimestampMismatch")
           /\ call[t].claimTs - V!doc_sec(call[t]) > AlignmentLimit
    BY <1>2, <1>4, IssuedTimes, OwnReceiptTimes
  <2> HIDE DEF v
  <2>3. v \in InlineVerdict \ {V!Valid}
    BY <1>4, <2>2, VerdictsDiffer DEF InlineVerdict
  <2>4. CASE v = V!Pass
    BY <1>1, <1>4, <2>1, <2>3, <2>4, InlineProceed
  <2>5. CASE v # V!Pass
    BY <1>1, <1>4, <2>1, <2>2, <2>3, <2>5, InlineProceed
  <2> QED
    BY <2>4, <2>5
<1>7. CASE V!CheckSequence(t)
  <2> DEFINE q == call[t].seq
  <2>1. /\ call[t].identity = Enclave /\ q \in Nat
        /\ replay \in [{Enclave} -> Nat \cup {V!NoSeq}]
        /\ verdict[t] = V!Pass /\ vpc[t] = "sequence" /\ UNCHANGED now_sec
        /\ vpc' = [vpc EXCEPT ![t] = "done"]
    <3>1. issued[n].seq \in Nat
      BY IssuedFields DEF GeneratorInv
    <3> QED
      BY <1>2, <1>7, <3>1, InlineCallSeq
         DEF V!CheckSequence, InlineInv, InlineTypes, Provenance
  <2>2. \A u \in Task : verdict[u] = V!Valid =>
            call[u].seq # q /\ call[u].seq \in Nat
    <3> SUFFICES ASSUME NEW u \in Task, verdict[u] = V!Valid
                 PROVE  call[u].seq # q /\ call[u].seq \in Nat
      OBVIOUS
    <3>1. result[u] = "Ok" /\ u # t
      BY <2>1, VerdictsDiffer DEF InlineInv, Provenance
    <3>2. call[u] \in V!CallType
      BY DEF InlineInv, InlineTypes
    <3> QED
      BY <1>1, <3>1, <3>2 DEF InlineInv, OwnReceipts, V!CallType
  <2>3. CASE Stateful /\ q <= replay[Enclave]
    <3>1. /\ verdict' = [verdict EXCEPT ![t] =
                            V!Refused("SequenceNumberOutOfOrder")]
          /\ UNCHANGED replay
          /\ now_sec' = [now_sec EXCEPT ![t] = now_sec[t]]
      BY <1>4, <1>7, <2>1, <2>3 DEF V!CheckSequence
    <3>2. replay[Enclave] # V!NoSeq
      BY <2>1, <2>3 DEF V!NoSeq
    <3>3. \E u \in Task : verdict[u] = V!Valid /\ call[u].seq > q
      BY <2>1, <2>2, <2>3, <3>2 DEF InlineInv, HighWater
    <3>4. V!Refused("SequenceNumberOutOfOrder") \in InlineVerdict \ {V!Valid}
      BY VerdictsDiffer DEF InlineVerdict
    <3> QED
      BY <1>1, <1>4, <2>1, <3>1, <3>3, <3>4, InlineProceed
  <2>4. CASE ~(Stateful /\ q <= replay[Enclave])
    <3>1. /\ verdict' = [verdict EXCEPT ![t] = V!Valid]
          /\ replay' = IF Stateful THEN [replay EXCEPT ![Enclave] = q]
                                   ELSE replay
      BY <1>7, <2>1, <2>4 DEF V!CheckSequence
    <3>2. /\ verdict'[t] = V!Valid
          /\ \A u \in Task : u # t => verdict'[u] = verdict[u]
          /\ vpc'[t] = "done" /\ \A u \in Task : u # t => vpc'[u] = vpc[u]
      BY <1>4, <2>1, <3>1 DEF InlineInv, InlineTypes
    <3>3. InlineTypes'
      <4>1. V!Valid \in InlineVerdict
        BY DEF InlineVerdict
      <4> QED
        BY <1>1, <2>1, <3>1, <4>1 DEF InlineInv, InlineTypes
    <3>4. Provenance' /\ OwnReceipts'
      BY <1>1, <2>1, <3>2 DEF InlineInv, Provenance, OwnReceipts, vars
    <3>5. HighWater'
      <4>1. CASE ~Stateful
        <5>1. \A u \in Task : verdict[u] = V!Valid => verdict'[u] = V!Valid
          BY <3>2
        <5> QED
          BY <1>1, <3>1, <4>1, <5>1 DEF InlineInv, HighWater
      <4>2. CASE Stateful
        <5>1. replay'[Enclave] = q /\ ~(q <= replay[Enclave])
          BY <2>1, <2>4, <3>1, <4>2
        <5>2. ASSUME NEW u \in Task, verdict'[u] = V!Valid
              PROVE  call[u].seq <= q
          <6>1. CASE u = t
            BY <2>1, <6>1
          <6>2. CASE u # t
            <7>1. verdict[u] = V!Valid
              BY <3>2, <5>2, <6>2
            <7>2. call[u].seq \in Nat /\ call[u].seq <= replay[Enclave]
              BY <2>2, <4>2, <7>1 DEF InlineInv, HighWater
            <7>3. replay[Enclave] \in Int
              BY <2>1 DEF V!NoSeq
            <7> QED
              BY <2>1, <5>1, <7>2, <7>3
          <6> QED
            BY <6>1, <6>2
        <5> QED
          BY <1>1, <3>2, <5>1, <5>2 DEF HighWater
      <4> QED
        BY <4>1, <4>2
    <3>6. InlineRefusalExplained'
      BY <1>1, <2>1, <3>2
         DEF InlineInv, InlineRefusalExplained, RefusalExplained
    <3> QED
      BY <3>3, <3>4, <3>5, <3>6 DEF InlineInv
  <2> QED
    BY <2>3, <2>4
<1> QED
  BY <1>5, <1>6, <1>7 DEF VerifyInline

LEMMA InlineNext ==
    ASSUME InlineInv, GeneratorInv, [ChatNext]_chatVars
    PROVE  InlineInv'
<1>1. ASSUME UNCHANGED <<vars, call, verifierVars>> PROVE InlineInv'
  BY <1>1, InlineStill DEF vars
<1>2. CASE UNCHANGED chatVars
  BY <1>1, <1>2 DEF chatVars, handlerVars
<1>3. CASE ClockTick
  BY <1>3, InlineStill DEF ClockTick, Tick, handlerVars
<1>4. ASSUME NEW t \in Task, HandlerStep(t) PROVE InlineInv'
  <2>1. CASE GenerateReceipt(t) \/ SignReceipt(t) \/ VerifyInline(t)
    BY <2>1, InlineGenerate, InlineSign, InlineVerifyStep
  <2> QED
    BY <1>1, <1>4, <2>1
       DEF HandlerStep, StartFails, SpawnChild, InferenceFails,
           FinishInference, ReceiptFails, AnswerRequest
<1>5. ASSUME NEW t \in Task, DisconnectReceipt(t) PROVE InlineInv'
  BY <1>5, InlineGenerate
<1> QED
  BY <1>1, <1>2, <1>3, <1>4, <1>5
     DEF ChatNext, RefuseRequest, InferenceBusy, AcquirePermit, ChildExits,
         DisconnectInference, DisconnectVerify

LEMMA InlineInvariant == ChatSpec => [](InlineInv /\ GeneratorInv)
<1>1. ChatSpec => []GeneratorInv
  BY ChatUsesGenerator, GeneratorInvariant, PTL
<1>2. InlineInv /\ GeneratorInv /\ [ChatNext]_chatVars => InlineInv'
  BY InlineNext
<1> QED
  BY <1>1, <1>2, InlineInit, PTL DEF ChatSpec

(* A receipt the demo has just made is refused by its own verifier only    *)
(* because a later one overtook it or because time passed; verify() never  *)
(* returns Err.  For any number of requests, any clock and any limits with *)
(* a skew no larger than the age; stateful or not.                         *)
THEOREM InlineRefusalsExplained == ChatSpec => []InlineRefusalExplained
<1>1. InlineInv => InlineRefusalExplained
  BY DEF InlineInv
<1> QED
  BY <1>1, InlineInvariant, PTL

(* Every variable of the demo, of its generator and of its verifier keeps  *)
(* its type; a permit more than there are slots never appears.             *)
THEOREM ChatTypeCorrect == ChatSpec => []ChatTypeOK
<1>1. ChatInv /\ InlineInv /\ GeneratorInv => ChatTypeOK
  <2> SUFFICES ASSUME ChatInv, InlineInv, GeneratorInv PROVE ChatTypeOK
    OBVIOUS
  <2>1. permits \in 0..Slots
    <3>1. Cardinality(Inferring) \in Nat
      BY InferringFinite, FS_CardinalityType
    <3> QED
      BY <3>1, SlotsAssumption DEF ChatInv, Capacity
  <2> QED
    BY <2>1 DEF ChatTypeOK, ChatInv, InlineInv, InlineTypes, GeneratorInv
<1> QED
  BY <1>1, ChatInvariant, InlineInvariant, PTL

-----------------------------------------------------------------------------
(* The ledger of what the inline verifier accepts.                         *)

(* A stage of verify() finds no receipt valid, or it finds t's valid, and  *)
(* then the sequence of t was above the one in the replay map.             *)
LEMMA InlineAcceptance ==
    ASSUME InlineInv, GeneratorInv, NEW t \in Task, VerifyInline(t)
    PROVE  \/ \A u \in Task : verdict'[u] = V!Valid <=> verdict[u] = V!Valid
           \/ /\ verdict' = [verdict EXCEPT ![t] = V!Valid]
              /\ verdict[t] = V!Pass
              /\ Stateful => ~(call[t].seq <= replay[Enclave])
<1>1. PICK n \in 1..Len(issued) : call[t] = InlineCall(issued[n])
  BY DEF VerifyInline, InlineInv, Provenance
<1>2. ASSUME NEW v, v # V!Valid, verdict' = [verdict EXCEPT ![t] = v],
             vpc[t] # "done"
      PROVE  \A u \in Task : verdict'[u] = V!Valid <=> verdict[u] = V!Valid
  BY <1>2, VerdictsDiffer DEF InlineInv, InlineTypes, Provenance
<1>3. CASE V!CheckFormat(t) \/ V!CheckAttestation(t) \/ V!CheckBindings(t)
  <2>1. verdict' = [verdict EXCEPT ![t] = V!Pass] /\ vpc[t] # "done"
    BY <1>1, <1>3, OwnReceiptPasses
       DEF V!CheckFormat, V!CheckAttestation, V!CheckBindings, V!Proceed
  <2> QED
    BY <1>2, <2>1, VerdictsDiffer
<1>4. CASE V!CheckTimestamps(t)
  <2> DEFINE v == V!FirstFault(V!TimestampFaults(call[t], clock))
  <2>1. vpc[t] # "done" /\ verdict' = [verdict EXCEPT ![t] = v]
    BY <1>4 DEF V!CheckTimestamps, V!Proceed
  <2>2. clock \in 0..MaxClock
    BY DEF GeneratorInv, TypeOK
  <2>3. v # V!Valid
    BY <1>1, <2>2, IssuedTimes, OwnReceiptTimes, VerdictsDiffer
  <2> HIDE DEF v
  <2> QED
    BY <1>2, <2>1, <2>3
<1>5. CASE V!CheckSequence(t)
  <2>1. call[t].identity = Enclave /\ vpc[t] # "done" /\ verdict[t] = V!Pass
    BY <1>1, <1>5, InlineCallSeq DEF V!CheckSequence, InlineInv, Provenance
  <2>2. CASE Stateful /\ call[t].seq <= replay[Enclave]
    <3>1. verdict' = [verdict EXCEPT ![t] =
                          V!Refused("SequenceNumberOutOfOrder")]
      BY <1>5, <2>1, <2>2 DEF V!CheckSequence
    <3> QED
      BY <1>2, <2>1, <3>1, VerdictsDiffer
  <2>3. CASE ~(Stateful /\ call[t].seq <= replay[Enclave])
    BY <1>5, <2>1, <2>3 DEF V!CheckSequence
  <2> QED
    BY <2>2, <2>3
<1> QED
  BY <1>3, <1>4, <1>5 DEF VerifyInline

(* The ledger's entry for an accepted request.                             *)
InlineEntry(t) ==
    [req |-> t, identity |-> Enclave, seq |-> call[t].seq, nonce |-> t]

(* The ledger stays when the accepted requests and their calls do.         *)
LEMMA LedgerStill ==
    ASSUME \A u \in Task : verdict'[u] = V!Valid <=> verdict[u] = V!Valid,
           \A u \in Task : verdict[u] = V!Valid => call'[u] = call[u]
    PROVE  acceptedInline' = acceptedInline
<1>1. \A u \in {w \in Task : verdict[w] = V!Valid} : call'[u] = call[u]
  OBVIOUS
<1>2. {w \in Task : verdict'[w] = V!Valid} = {w \in Task : verdict[w] = V!Valid}
  OBVIOUS
<1> QED
  BY <1>1, <1>2 DEF acceptedInline

(* Finding a receipt valid is accepting it: what was accepted before has a *)
(* smaller sequence, and came from another request.                        *)
LEMMA LedgerAccepts ==
    ASSUME Stateful, InlineInv, NEW t \in Task, verdict[t] = V!Pass,
           verdict' = [verdict EXCEPT ![t] = V!Valid], call' = call,
           ~(call[t].seq <= replay[Enclave])
    PROVE  Ledger!Next
<1> DEFINE e == InlineEntry(t)
<1>1. /\ verdict'[t] = V!Valid /\ verdict[t] # V!Valid
      /\ \A u \in Task : u # t => verdict'[u] = verdict[u]
  BY VerdictsDiffer DEF InlineInv, InlineTypes
<1>2. \A u \in Task : call[u].seq \in Nat
  BY DEF InlineInv, InlineTypes, V!CallType
<1>3. {w \in Task : verdict'[w] = V!Valid} =
          {w \in Task : verdict[w] = V!Valid} \cup {t}
  BY <1>1
<1>4. acceptedInline' = acceptedInline \cup {e}
  BY <1>3 DEF acceptedInline, InlineEntry
<1>5. e \in [req : Task, identity : {Enclave}, seq : Nat, nonce : Task]
  BY <1>2 DEF InlineEntry
<1>6. ASSUME NEW a \in acceptedInline
      PROVE  a.seq < e.seq /\ a.nonce # e.nonce
  <2>1. PICK u \in Task : verdict[u] = V!Valid /\ a = InlineEntry(u)
    BY DEF acceptedInline, InlineEntry
  <2>2. u # t /\ call[u].seq <= replay[Enclave]
    BY <1>1, <2>1 DEF InlineInv, HighWater
  <2>3. replay[Enclave] \in Int
    BY DEF InlineInv, InlineTypes, V!NoSeq
  <2>4. call[u].seq < call[t].seq
    BY <1>2, <2>2, <2>3
  <2> QED
    BY <2>1, <2>2, <2>4 DEF InlineEntry
<1> HIDE DEF e
<1>7. e \in acceptedInline'
  BY <1>4
<1> QED
  BY <1>4, <1>5, <1>6, <1>7 DEF Ledger!Next, Ledger!Accept

(* A step of the demo is a step of the ledger, or leaves it alone.         *)
LEMMA LedgerSteps ==
    ASSUME Stateful, InlineInv, GeneratorInv, [ChatNext]_chatVars
    PROVE  Ledger!Next \/ acceptedInline' = acceptedInline
<1>1. ASSUME UNCHANGED <<call, verifierVars>>
      PROVE  acceptedInline' = acceptedInline
  BY <1>1, LedgerStill DEF verifierVars
<1>2. ASSUME NEW t \in Task, SignReceipt(t)
      PROVE  acceptedInline' = acceptedInline
  <2>1. verdict' = verdict /\ verdict[t] # V!Valid
    BY <1>2, VerdictsDiffer
       DEF SignReceipt, Sign, verifierVars, InlineInv, Provenance
  <2>2. \A u \in Task : u # t => call'[u] = call[u]
    BY <1>2 DEF SignReceipt, InlineInv, InlineTypes
  <2> QED
    BY <2>1, <2>2, LedgerStill
<1>3. ASSUME NEW t \in Task, VerifyInline(t)
      PROVE  Ledger!Next \/ acceptedInline' = acceptedInline
  <2>1. call' = call
    BY <1>3 DEF VerifyInline, handlerVars
  <2> QED
    BY <1>3, <2>1, InlineAcceptance, LedgerStill, LedgerAccepts
<1> QED
  BY <1>1, <1>2, <1>3
     DEF ChatNext, HandlerStep, StartFails, SpawnChild, InferenceFails,
         FinishInference, GenerateReceipt, ReceiptFails, AnswerRequest,
         RefuseRequest, InferenceBusy, AcquirePermit, ChildExits,
         DisconnectInference, DisconnectReceipt, DisconnectVerify, ClockTick,
         chatVars, handlerVars

(* What a stateful inline verifier finds valid is a ledger: receipts are   *)
(* accepted once and in the order of their sequence numbers, in whatever   *)
(* order handlers reach the verifier.                                      *)
THEOREM InlineIsLedger ==
    ASSUME Stateful
    PROVE  ChatSpec => InlineLedger
<1>1. ChatInit => Ledger!Init
  BY VerdictsDiffer DEF ChatInit, acceptedInline, Ledger!Init
<1>2. InlineInv /\ GeneratorInv /\ [ChatNext]_chatVars
          => [Ledger!Next]_acceptedInline
  BY LedgerSteps
<1> QED
  BY <1>1, <1>2, InlineInvariant, PTL DEF ChatSpec, InlineLedger, Ledger!Spec

=============================================================================
