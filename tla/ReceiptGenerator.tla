--------------------------- MODULE ReceiptGenerator ---------------------------
(***************************************************************************)
(* ReceiptGenerator::generate_receipt (crates/veriai-core/src/receipt.rs): *)
(* tasks that share one generator inside the enclave.  generation_lock     *)
(* spans the whole call; the attestation comes first, then the sequence    *)
(* number, then the clock, then encoding and signing.                      *)
(***************************************************************************)
EXTENDS Integers, Sequences

CONSTANTS
    Task,        \* concurrent calls of generate_receipt
    FirstSeq,    \* where sequence_num stands: 0 for a new generator
    SeqMax,      \* u64::MAX
    MaxClock,    \* bound of the enclave's clock, in seconds
    NoTask       \* generation_lock is free

ASSUME NoTaskAssumption == NoTask \notin Task
ASSUME SeqAssumption == SeqMax \in Nat /\ FirstSeq \in 0..SeqMax
ASSUME ClockAssumption == MaxClock \in Nat

VARIABLES
    clock,           \* the enclave's clock
    generation_lock, \* holder of the tokio mutex
    sequence_num,    \* the AtomicU64
    pc,              \* Task -> where its call is
    docTime,         \* Task -> timestamp of its attestation document
    seq,             \* Task -> sequence number it allocated
    result,          \* Task -> how its call returned
    issued,          \* receipts in the order in which calls completed
    burned           \* sequence numbers allocated by calls that failed

vars == <<clock, generation_lock, sequence_num, pc, docTime, seq, result,
          issued, burned>>

Init ==
    /\ clock = 0
    /\ generation_lock = NoTask
    /\ sequence_num = FirstSeq
    /\ pc = [t \in Task |-> "lock"]
    /\ docTime = [t \in Task |-> 0]
    /\ seq = [t \in Task |-> 0]
    /\ result = [t \in Task |-> "pending"]
    /\ issued = <<>>
    /\ burned = {}

(* The call returns: its guard and its locals are dropped.                 *)
Return(t, how) ==
    /\ pc' = [pc EXCEPT ![t] = "done"]
    /\ result' = [result EXCEPT ![t] = how]
    /\ docTime' = [docTime EXCEPT ![t] = 0]
    /\ seq' = [seq EXCEPT ![t] = 0]
    /\ generation_lock' = IF generation_lock = t THEN NoTask
                                                 ELSE generation_lock

(* Mutant: generation_lock is not held across the call.                    *)
LockNotHeld(t) ==
    /\ pc[t] = "lock" /\ generation_lock = NoTask
    /\ pc' = [pc EXCEPT ![t] = "attest"]
    /\ UNCHANGED <<clock, generation_lock, sequence_num, docTime, seq, result,
                   issued, burned>>

Lock(t) ==
    /\ pc[t] = "lock" /\ generation_lock = NoTask
    /\ generation_lock' = t
    /\ pc' = [pc EXCEPT ![t] = "attest"]
    /\ UNCHANGED <<clock, sequence_num, docTime, seq, result, issued, burned>>

(* Mutant: the document of the generator's first call is used again.       *)
AttestCached(t) ==
    /\ pc[t] = "attest"
    /\ docTime' = [docTime EXCEPT ![t] =
                       IF issued = <<>> THEN clock ELSE issued[1].docTime]
    /\ pc' = [pc EXCEPT ![t] = "allocate"]
    /\ UNCHANGED <<clock, generation_lock, sequence_num, seq, result, issued,
                   burned>>

(* provider.generate: the document is stamped with the time of its making. *)
Attest(t) ==
    /\ pc[t] = "attest"
    /\ docTime' = [docTime EXCEPT ![t] = clock]
    /\ pc' = [pc EXCEPT ![t] = "allocate"]
    /\ UNCHANGED <<clock, generation_lock, sequence_num, seq, result, issued,
                   burned>>

(* Mutant: the error path keeps the guard.                                 *)
AttestFailsLeaking(t) ==
    /\ pc[t] = "attest"
    /\ pc' = [pc EXCEPT ![t] = "done"]
    /\ result' = [result EXCEPT ![t] = "Attestation"]
    /\ UNCHANGED <<clock, generation_lock, sequence_num, docTime, seq, issued,
                   burned>>

AttestFails(t) ==
    /\ pc[t] = "attest"
    /\ Return(t, "Attestation")
    /\ UNCHANGED <<clock, sequence_num, issued, burned>>

(* Mutant: fetch_add, which wraps.                                         *)
AllocateWrapping(t) ==
    /\ pc[t] = "allocate"
    /\ seq' = [seq EXCEPT ![t] = sequence_num]
    /\ sequence_num' = (sequence_num + 1) % (SeqMax + 1)
    /\ pc' = [pc EXCEPT ![t] = "sign"]
    /\ UNCHANGED <<clock, generation_lock, docTime, result, issued, burned>>

(* fetch_update with checked_add: the old value is the sequence number, so *)
(* u64::MAX itself is never handed out.                                    *)
Allocate(t) ==
    /\ pc[t] = "allocate" /\ sequence_num < SeqMax
    /\ seq' = [seq EXCEPT ![t] = sequence_num]
    /\ sequence_num' = sequence_num + 1
    /\ pc' = [pc EXCEPT ![t] = "sign"]
    /\ UNCHANGED <<clock, generation_lock, docTime, result, issued, burned>>

AllocateFails(t) ==
    /\ pc[t] = "allocate" /\ sequence_num = SeqMax
    /\ Return(t, "SequenceNumberExhausted")
    /\ UNCHANGED <<clock, sequence_num, issued, burned>>

(* The clock is read, the claims are encoded, wrapped and signed.          *)
Sign(t) ==
    /\ pc[t] = "sign"
    /\ issued' = Append(issued, [seq |-> seq[t], docTime |-> docTime[t],
                                 claimTime |-> clock])
    /\ Return(t, "Ok")
    /\ UNCHANGED <<clock, sequence_num, burned>>

(* A clock before 1970 (InvalidAttestationDocument) or an encoding error   *)
(* (MalformedReceipt): the number is spent.                                *)
SignFails(t) ==
    /\ pc[t] = "sign"
    /\ burned' = burned \cup {seq[t]}
    /\ Return(t, "Unsigned")
    /\ UNCHANGED <<clock, sequence_num, issued>>

(* Mutant: there is an await after the number has been allocated.          *)
CancelAnywhere(t) ==
    /\ pc[t] # "done"
    /\ Return(t, "Cancelled")
    /\ UNCHANGED <<clock, sequence_num, issued, burned>>

(* A caller gives up while it waits for the lock or for the NSM: dropping  *)
(* the future drops the guard.  There is no await after that.              *)
Cancel(t) ==
    /\ pc[t] \in {"lock", "attest"}
    /\ Return(t, "Cancelled")
    /\ UNCHANGED <<clock, sequence_num, issued, burned>>

Tick ==
    /\ clock < MaxClock
    /\ clock' = clock + 1
    /\ UNCHANGED <<generation_lock, sequence_num, pc, docTime, seq, result,
                   issued, burned>>

CallStep(t) ==
    \/ Lock(t)
    \/ Attest(t)
    \/ AttestFails(t)
    \/ Allocate(t)
    \/ AllocateFails(t)
    \/ Sign(t)
    \/ SignFails(t)

Next ==
    \/ \E t \in Task : CallStep(t)
    \/ \E t \in Task : Cancel(t)
    \/ Tick

Spec == Init /\ [][Next]_vars

-----------------------------------------------------------------------------
(* Properties.                                                             *)

IssuedReceipt ==
    [seq : Nat, docTime : 0..MaxClock, claimTime : 0..MaxClock]

TypeOK ==
    /\ clock \in 0..MaxClock
    /\ generation_lock \in Task \cup {NoTask}
    /\ sequence_num \in FirstSeq..SeqMax
    /\ pc \in [Task -> {"lock", "attest", "allocate", "sign", "done"}]
    /\ docTime \in [Task -> 0..MaxClock]
    /\ seq \in [Task -> Nat]
    /\ result \in [Task -> {"pending", "Ok", "Attestation", "Cancelled",
                            "SequenceNumberExhausted", "Unsigned"}]
    /\ issued \in Seq(IssuedReceipt)
    /\ burned \in SUBSET Nat

(* "Preserve completion-order monotonicity for callers sharing a           *)
(* generator": receipts complete in increasing sequence order, although    *)
(* allocation and signing are separate steps.                              *)
CompletionOrder ==
    \A m, n \in 1..Len(issued) : m < n => issued[m].seq < issued[n].seq

(* The numbers in receipts, and the number of the call that is signing.    *)
HandedOut == {issued[n].seq : n \in 1..Len(issued)}
Pending == {seq[t] : t \in {u \in Task : pc[u] = "sign"}}

(* Every number below the counter is accounted for once: it is in a        *)
(* receipt that was handed out, in the call that holds the lock, or was    *)
(* spent by a call that failed after allocating it.  A failed attestation  *)
(* or a cancelled call spends none.                                        *)
NothingLost ==
    /\ HandedOut \cup Pending \cup burned = FirstSeq..(sequence_num - 1)
    /\ HandedOut \cap Pending = {}
    /\ burned \cap (HandedOut \cup Pending) = {}

(* A receipt's attestation document is never younger than its claims, and  *)
(* both follow the order of the receipts: the documents' times grow with   *)
(* the sequence numbers.                                                   *)
TimesFollowSequence ==
    \A m, n \in 1..Len(issued) :
        /\ issued[n].docTime <= issued[n].claimTime
        /\ m < n => issued[m].claimTime <= issued[n].docTime

(* u64::MAX is never handed out, and reaching it is terminal: "Exhaustion  *)
(* is terminal rather than silently wrapping to zero".                     *)
ExhaustionIsTerminal ==
    [][/\ sequence_num' >= sequence_num
       /\ sequence_num = SeqMax /\ issued' # issued
              => issued'[Len(issued')].seq = SeqMax - 1]_vars

=============================================================================
