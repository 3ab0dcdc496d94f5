------------------------------ MODULE ChatProxy ------------------------------
(***************************************************************************)
(* The chat demo (examples/01-chat-demo/src/lib.rs): HTTP handlers that    *)
(* run the model under a semaphore, sign a receipt with the one generator  *)
(* of the process, and may verify it with the one verifier of the process. *)
(*                                                                         *)
(* The module composes three others' worth of state: its own handlers and  *)
(* llama-cli children (crates/veriai-runtime/src/llama_cpp.rs), the        *)
(* generator it extends, and an instance of Verifier over its requests.    *)
(* A Task is one request.                                                  *)
(***************************************************************************)
EXTENDS ReceiptGenerator, FiniteSets

CONSTANTS
    Slots,             \* VERIAI_MAX_CONCURRENT_INFERENCES
    InlineVerify,      \* VERIAI_INLINE_VERIFY
    Stateful,          \* STATEFUL_VERIFICATION
    RequireNonce,      \* cfg!(feature = "real-hardware")
    Enclave,           \* the identity fingerprint of this process
    max_clock_skew, max_receipt_age,   \* VerifierConfig::default()
    AlignmentLimit,    \* 5 seconds between document and claims
    MsPerSec           \* 1000 milliseconds in a second

(* build_state refuses zero slots; the verifier's two limits are the same  *)
(* 300 seconds.                                                            *)
ASSUME TaskAssumption == IsFiniteSet(Task)
ASSUME SlotsAssumption == Slots \in Nat \ {0}
ASSUME FlagsAssumption == {InlineVerify, Stateful, RequireNonce} \subseteq BOOLEAN
ASSUME LimitsAssumption ==
    /\ max_clock_skew \in Nat /\ AlignmentLimit \in Nat
    /\ max_receipt_age \in Nat /\ max_clock_skew <= max_receipt_age
    /\ MsPerSec \in Nat /\ MsPerSec >= 2

VARIABLES
    stage,      \* Task -> where its handler is
    answer,     \* Task -> what the client got
    permits,    \* free permits of inference_slots
    child,      \* Task -> its llama-cli process
    call,       \* Task -> its receipt_bytes and what it verifies them with
    replay, vpc, now_sec, verdict    \* the verifier: see Verifier

handlerVars == <<stage, answer, permits, child, call>>
verifierVars == <<replay, vpc, now_sec, verdict>>
chatVars == <<vars, handlerVars, verifierVars>>

Stage == {"idle", "start", "inference", "receipt", "done"}
Status == {"none", "refused", "busy", "error", "ok", "lost"}

(* A call of verify() with the hashes and the nonce the receipt was made   *)
(* with, under the provider that attested it; the PCR0 and the root the    *)
(* demo is configured with are this enclave's.                             *)
OwnCall ==
    [size |-> 1, pcrLen |-> 48, cose |-> TRUE, alg |-> "EdDSA",
     uAlg |-> FALSE, crit |-> FALSE, uOther |-> FALSE, ctype |-> "cwt",
     uCtype |-> "none", payload |-> TRUE, claims |-> TRUE, attType |-> 3,
     signature |-> TRUE, document |-> TRUE, chain |-> {Enclave},
     docMs |-> 0, claimTs |-> 0,
     pcr0 |-> "match", pubkey |-> "match", userData |-> "match",
     docNonce |-> "match", claimNonce |-> TRUE, model |-> TRUE,
     input |-> TRUE, output |-> TRUE, identity |-> Enclave, seq |-> 0]

(* Mutant: the handler verifies a receipt of an earlier request.           *)
InlineCallStale(r) ==
    [OwnCall EXCEPT !.docMs = r.docTime * MsPerSec, !.claimTs = r.claimTime,
                    !.seq = FirstSeq]

(* The handler's call for the receipt r it was given: only the clock and   *)
(* the sequence can speak against it.                                      *)
InlineCall(r) ==
    [OwnCall EXCEPT !.docMs = r.docTime * MsPerSec, !.claimTs = r.claimTime,
                    !.seq = r.seq]

V == INSTANCE Verifier WITH
         Thread <- Task, Call <- {}, Batch <- {},
         Identity <- {Enclave}, Root <- {Enclave}, trusted_roots <- {Enclave},
         stateful <- Stateful, max_receipt_size <- 1, PcrLength <- 48,
         IMax <- MsPerSec * (MaxClock + 1),
         state <- replay, pc <- vpc

ChatInit ==
    /\ Init
    /\ stage = [t \in Task |-> "idle"]
    /\ answer = [t \in Task |-> "none"]
    /\ permits = Slots
    /\ child = [t \in Task |-> "none"]
    /\ call = [t \in Task |-> OwnCall]
    /\ replay = [i \in {Enclave} |-> V!NoSeq]
    /\ vpc = [t \in Task |-> "idle"]
    /\ now_sec = [t \in Task |-> 0]
    /\ verdict = [t \in Task |-> V!Pass]

-----------------------------------------------------------------------------
(* The handler, up to the end of the inference.                            *)

Goto(t, s) == stage' = [stage EXCEPT ![t] = s] /\ UNCHANGED answer

(* The handler returns.                                                    *)
Respond(t, status) ==
    /\ stage' = [stage EXCEPT ![t] = "done"]
    /\ answer' = [answer EXCEPT ![t] = status]

(* request_nonce_with_policy: without the header the demo makes up a nonce *)
(* of its own, and the production build refuses.                           *)
NonceAccepted(header) ==
    \/ header = "hex32"
    \/ header = "missing" /\ ~RequireNonce

(* The body does not parse, names no model or no message, has no canonical *)
(* form (the one 500 among 400s), or the nonce is not acceptable.          *)
RefuseRequest(t, wellFormed, header) ==
    /\ stage[t] = "idle"
    /\ ~(wellFormed /\ NonceAccepted(header))
    /\ Respond(t, "refused")
    /\ UNCHANGED <<vars, permits, child, call, verifierVars>>

(* try_acquire_owned does not wait: at capacity the answer is 429.         *)
InferenceBusy(t, header) ==
    /\ stage[t] = "idle" /\ NonceAccepted(header) /\ permits = 0
    /\ Respond(t, "busy")
    /\ UNCHANGED <<vars, permits, child, call, verifierVars>>

AcquirePermit(t, header) ==
    /\ stage[t] = "idle" /\ NonceAccepted(header) /\ permits > 0
    /\ permits' = permits - 1
    /\ Goto(t, "start")
    /\ UNCHANGED <<vars, child, call, verifierVars>>

(* The model file is missing, a message has no role, or the child does not *)
(* start.  The permit is dropped with the handler's locals.                *)
StartFails(t) ==
    /\ stage[t] = "start"
    /\ Respond(t, "error")
    /\ permits' = permits + 1
    /\ UNCHANGED <<vars, child, call, verifierVars>>

(* Command::output: the child runs, and the handler waits for it.          *)
SpawnChild(t) ==
    /\ stage[t] = "start"
    /\ child' = [child EXCEPT ![t] = "running"]
    /\ Goto(t, "inference")
    /\ UNCHANGED <<vars, permits, call, verifierVars>>

(* Nothing limits how long a child runs, and nothing kills it.             *)
ChildExits(t) ==
    /\ child[t] = "running"
    /\ child' = [child EXCEPT ![t] = "exited"]
    /\ UNCHANGED <<vars, stage, answer, permits, call, verifierVars>>

(* Mutant: the permit is forgotten on the way out.                         *)
InferenceFailsLeaking(t) ==
    /\ stage[t] = "inference" /\ child[t] = "exited"
    /\ Respond(t, "error")
    /\ UNCHANGED <<vars, permits, child, call, verifierVars>>

(* The child has exited with a failure, or with an output that is not      *)
(* UTF-8 or that extract_completion leaves nothing of.                     *)
InferenceFails(t) ==
    /\ stage[t] = "inference" /\ child[t] = "exited"
    /\ Respond(t, "error")
    /\ permits' = permits + 1
    /\ UNCHANGED <<vars, child, call, verifierVars>>

(* Mutant: the permit lives until the handler returns.                     *)
FinishInferenceKeeping(t) ==
    /\ stage[t] = "inference" /\ child[t] = "exited"
    /\ Goto(t, "receipt")
    /\ UNCHANGED <<vars, permits, child, call, verifierVars>>

(* generate returns, and drop(inference_permit).                           *)
FinishInference(t) ==
    /\ stage[t] = "inference" /\ child[t] = "exited"
    /\ permits' = permits + 1
    /\ Goto(t, "receipt")
    /\ UNCHANGED <<vars, child, call, verifierVars>>

-----------------------------------------------------------------------------
(* The receipt, its verification and the answer.                           *)

(* generate_receipt, up to the signature, or its failure.                  *)
GenerateReceipt(t) ==
    /\ stage[t] = "receipt"
    /\ \/ Lock(t)
       \/ Attest(t)
       \/ AttestFails(t)
       \/ Allocate(t)
       \/ AllocateFails(t)
       \/ SignFails(t)
    /\ UNCHANGED <<handlerVars, verifierVars>>

SignReceipt(t) ==
    /\ stage[t] = "receipt"
    /\ Sign(t)
    /\ call' = [call EXCEPT ![t] = InlineCall(issued'[Len(issued')])]
    /\ UNCHANGED <<stage, answer, permits, child, verifierVars>>

ReceiptFails(t) ==
    /\ stage[t] = "receipt" /\ pc[t] = "done" /\ result[t] # "Ok"
    /\ Respond(t, "error")
    /\ UNCHANGED <<vars, permits, child, call, verifierVars>>

(* verifier.verify(...).await, check by check.                             *)
VerifyInline(t) ==
    /\ stage[t] = "receipt" /\ result[t] = "Ok" /\ InlineVerify
    /\ UNCHANGED <<vars, handlerVars>>
    /\ \/ V!CheckFormat(t)
       \/ V!CheckAttestation(t)
       \/ V!CheckTimestamps(t)
       \/ V!CheckBindings(t)
       \/ V!CheckSequence(t)

(* Err is a 500; a receipt found invalid is still handed out, with 200.    *)
AnswerRequest(t) ==
    /\ stage[t] = "receipt" /\ result[t] = "Ok"
    /\ InlineVerify => vpc[t] = "done"
    /\ Respond(t, IF verdict[t].ret = "Err" THEN "error" ELSE "ok")
    /\ UNCHANGED <<vars, permits, child, call, verifierVars>>

-----------------------------------------------------------------------------
(* The client, and time.                                                   *)

(* The client goes away while the handler waits for the child: the future  *)
(* is dropped, and the permit with it.  kill_on_drop is not set, so the    *)
(* child runs on.                                                          *)
DisconnectInference(t) ==
    /\ stage[t] = "inference"
    /\ permits' = permits + 1
    /\ Respond(t, "lost")
    /\ UNCHANGED <<vars, child, call, verifierVars>>

(* ... or while it waits for the generator.                                *)
DisconnectReceipt(t) ==
    /\ stage[t] = "receipt"
    /\ Cancel(t)
    /\ Respond(t, "lost")
    /\ UNCHANGED <<permits, child, call, verifierVars>>

(* ... or while the provider checks the receipt's document, the one await  *)
(* of verify(): the sequence has not been looked at.                       *)
DisconnectVerify(t) ==
    /\ stage[t] = "receipt" /\ vpc[t] = "attestation"
    /\ Respond(t, "lost")
    /\ UNCHANGED <<vars, permits, child, call, verifierVars>>

ClockTick == Tick /\ UNCHANGED <<handlerVars, verifierVars>>

Header == {"hex32", "missing", "invalid"}

(* What the server itself does for a request it has accepted.              *)
HandlerStep(t) ==
    \/ StartFails(t)
    \/ SpawnChild(t)
    \/ InferenceFails(t)
    \/ FinishInference(t)
    \/ GenerateReceipt(t)
    \/ SignReceipt(t)
    \/ ReceiptFails(t)
    \/ VerifyInline(t)
    \/ AnswerRequest(t)

ChatNext ==
    \/ \E t \in Task, wellFormed \in BOOLEAN, header \in Header :
           RefuseRequest(t, wellFormed, header)
    \/ \E t \in Task, header \in Header : InferenceBusy(t, header)
    \/ \E t \in Task, header \in Header : AcquirePermit(t, header)
    \/ \E t \in Task : HandlerStep(t)
    \/ \E t \in Task : ChildExits(t)
    \/ \E t \in Task : DisconnectInference(t)
    \/ \E t \in Task : DisconnectReceipt(t)
    \/ \E t \in Task : DisconnectVerify(t)
    \/ ClockTick

ChatSpec == ChatInit /\ [][ChatNext]_chatVars

(* The executor does not stop while some handler can go on.  Nothing is    *)
(* assumed of children, which have no time limit, of clients, nor of which *)
(* of several handlers is next: each takes finitely many steps.            *)
ChatFairSpec == ChatSpec /\ WF_chatVars(\E t \in Task : HandlerStep(t))

-----------------------------------------------------------------------------
(* Properties.                                                             *)

ChatTypeOK ==
    /\ TypeOK
    /\ stage \in [Task -> Stage]
    /\ answer \in [Task -> Status]
    /\ permits \in 0..Slots
    /\ child \in [Task -> {"none", "running", "exited"}]
    /\ call \in [Task -> V!CallType]
    /\ replay \in [{Enclave} -> Nat \cup {V!NoSeq}]
    /\ vpc \in [Task -> {"idle", "attestation", "time", "bindings",
                         "sequence", "done"}]
    /\ now_sec \in [Task -> 0..MaxClock]

(* The requests that are at their inference.                               *)
Inferring == {t \in Task : stage[t] \in {"start", "inference"}}

(* Every permit is free or belongs to a request that is at its inference,  *)
(* on all paths out of it; and a child that runs without its handler was   *)
(* left behind by a client that went away.  Only such orphans can make     *)
(* more children run than there are slots.                                 *)
Capacity ==
    /\ permits + Cardinality(Inferring) = Slots
    /\ \A t \in Task : child[t] = "running" =>
           stage[t] = "inference" \/ answer[t] = "lost"

(* A request is turned away as busy only at a moment when every slot is    *)
(* taken by an inference: a request that waits for the generator, signs or *)
(* verifies takes none.                                                    *)
BusyOnlyWhenInferring ==
    [][\A t \in Task : answer'[t] = "busy" /\ answer[t] = "none" =>
           Cardinality(Inferring) = Slots]_chatVars

(* What verify() may have found of the receipt of request t.               *)
RefusalExplained(t) ==
    \/ verdict[t] = V!Valid
    \/ /\ verdict[t] = V!Refused("SequenceNumberOutOfOrder")
       /\ \E u \in Task : verdict[u] = V!Valid /\ call[u].seq > call[t].seq
    \/ /\ verdict[t] = V!Refused("TimestampSkewExceeded")
       /\ now_sec[t] - V!doc_sec(call[t]) > max_clock_skew
    \/ /\ verdict[t] = V!Refused("AttestationDocTimestampMismatch")
       /\ call[t].claimTs - V!doc_sec(call[t]) > AlignmentLimit

(* The receipt a handler has just made is its own, and passes inline       *)
(* verification unless a request with a later receipt overtook it on the   *)
(* way to the stateful verifier, or time passed: more than the skew since  *)
(* its document was made, or more than the alignment limit while it was    *)
(* being signed.  In particular verify() never returns Err: the            *)
(* verification_error answer cannot happen.                                *)
InlineRefusalExplained ==
    \A t \in Task : vpc[t] = "done" => RefusalExplained(t)

(* What a stateful inline verifier accepts is a ledger: see ReplayLedger.  *)
acceptedInline ==
    {[req |-> t, identity |-> Enclave, seq |-> call[t].seq, nonce |-> t] :
        t \in {u \in Task : verdict[u] = V!Valid}}

Ledger ==
    INSTANCE ReplayLedger WITH
        Entry <- [req : Task, identity : {Enclave}, seq : Nat, nonce : Task],
        OneTimeNonces <- TRUE,
        ledger <- acceptedInline

(* The receipts found valid inline come in increasing sequence order,      *)
(* although handlers reach the verifier in any order.                      *)
InlineLedger == Ledger!Spec

(* An inference that hangs holds up nobody else: a request that has its    *)
(* permit is started, and one whose inference is over is answered, so that *)
(* again and again only children and clients are left to wait for.  A lock *)
(* or a permit kept on some path out would leave a request behind.         *)
HungInferenceBlocksNobody ==
    []<>(\A t \in Task : stage[t] \notin {"start", "receipt"})

=============================================================================
