------------------------ MODULE ReceiptGeneratorProofs ------------------------
(***************************************************************************)
(* The receipt generator, for any number of tasks, any counter and any     *)
(* clock.                                                                  *)
(***************************************************************************)
EXTENDS ReceiptGenerator, TLAPS

(* From the attestation to its return a call holds generation_lock.        *)
Holder ==
    \A t \in Task :
        pc[t] \in {"attest", "allocate", "sign"} => generation_lock = t

(* A number that is being signed is the newest, and above all that were    *)
(* handed out.                                                             *)
Newest ==
    /\ \A n \in 1..Len(issued) : issued[n].seq < sequence_num
    /\ \A t \in Task : pc[t] = "sign" =>
           /\ seq[t] = sequence_num - 1 /\ seq[t] >= FirstSeq
           /\ \A n \in 1..Len(issued) : issued[n].seq < seq[t]

(* A document in the making is younger than every receipt handed out.      *)
Younger ==
    /\ \A n \in 1..Len(issued) : issued[n].claimTime <= clock
    /\ \A t \in Task : pc[t] \in {"allocate", "sign"} =>
           /\ docTime[t] <= clock
           /\ \A n \in 1..Len(issued) : issued[n].claimTime <= docTime[t]

GeneratorInv ==
    /\ TypeOK /\ Holder /\ Newest /\ Younger
    /\ CompletionOrder /\ NothingLost /\ TimesFollowSequence

(* At most one call is past the lock.                                      *)
LEMMA OneAtATime ==
    ASSUME Holder, NEW t \in Task, pc[t] \in {"attest", "allocate", "sign"},
           NEW u \in Task, pc[u] \in {"attest", "allocate", "sign"}
    PROVE  u = t
  BY DEF Holder

(* The fields of a receipt that was handed out are numbers.                *)
LEMMA IssuedFields ==
    ASSUME TypeOK, NEW n \in 1..Len(issued)
    PROVE  issued[n].seq \in Nat /\ issued[n].claimTime \in Nat
<1>1. issued[n] \in IssuedReceipt
  BY DEF TypeOK
<1>2. 0..MaxClock \subseteq Nat
  BY ClockAssumption
<1> QED
  BY <1>1, <1>2 DEF IssuedReceipt

LEMMA GeneratorInit == Init => GeneratorInv
<1> SUFFICES ASSUME Init PROVE GeneratorInv
  OBVIOUS
<1> USE DEF Init
<1>1. TypeOK
  BY SeqAssumption, ClockAssumption DEF TypeOK
<1>2. Holder /\ Newest /\ Younger /\ CompletionOrder /\ TimesFollowSequence
  BY DEF Holder, Newest, Younger, CompletionOrder, TimesFollowSequence
<1>3. NothingLost
  <2>1. HandedOut = {} /\ Pending = {} /\ burned = {}
    BY DEF HandedOut, Pending
  <2>2. FirstSeq..(sequence_num - 1) = {}
    BY SeqAssumption
  <2> QED
    BY <2>1, <2>2 DEF NothingLost
<1> QED
  BY <1>1, <1>2, <1>3 DEF GeneratorInv

-----------------------------------------------------------------------------

(* A call that goes on, or returns without a number of its own, leaves the *)
(* receipts and the numbers as they are.                                   *)
LEMMA QuietStep ==
    ASSUME GeneratorInv, NEW t \in Task, pc[t] # "sign", pc'[t] # "sign",
           TypeOK', Holder',
           \A u \in Task : u # t => /\ pc'[u] = pc[u] /\ seq'[u] = seq[u]
                                    /\ docTime'[u] = docTime[u],
           pc'[t] = "allocate" => docTime'[t] = clock,
           UNCHANGED <<clock, sequence_num, issued, burned>>
    PROVE  GeneratorInv'
<1> USE DEF GeneratorInv
<1>1. Newest'
  BY DEF Newest
<1>2. Younger'
  <2>1. clock \in Nat
    BY ClockAssumption DEF TypeOK
  <2>2. ASSUME NEW u \in Task, pc'[u] \in {"allocate", "sign"}
        PROVE  /\ docTime'[u] <= clock
               /\ \A n \in 1..Len(issued) : issued[n].claimTime <= docTime'[u]
    BY <2>1, <2>2 DEF Younger
  <2> QED
    BY <2>2 DEF Younger
<1>3. CompletionOrder' /\ TimesFollowSequence'
  BY DEF CompletionOrder, TimesFollowSequence
<1>4. NothingLost'
  <2>1. HandedOut' = HandedOut
    BY DEF HandedOut
  <2>2. Pending' = Pending
    BY DEF Pending
  <2> QED
    BY <2>1, <2>2 DEF NothingLost
<1> QED
  BY <1>1, <1>2, <1>3, <1>4

LEMMA LockStep ==
    ASSUME GeneratorInv, NEW t \in Task, Lock(t)
    PROVE  GeneratorInv'
<1>1. TypeOK'
  BY DEF Lock, GeneratorInv, TypeOK
<1>2. Holder'
  BY NoTaskAssumption DEF Lock, GeneratorInv, TypeOK, Holder
<1> QED
  BY <1>1, <1>2, QuietStep DEF Lock, GeneratorInv, TypeOK

LEMMA AttestStep ==
    ASSUME GeneratorInv, NEW t \in Task, Attest(t)
    PROVE  GeneratorInv'
<1>1. TypeOK'
  BY DEF Attest, GeneratorInv, TypeOK
<1>2. Holder'
  BY DEF Attest, GeneratorInv, TypeOK, Holder
<1> QED
  BY <1>1, <1>2, QuietStep DEF Attest, GeneratorInv, TypeOK

LEMMA ReturnStep ==
    ASSUME GeneratorInv, NEW t \in Task, pc[t] \in {"lock", "attest", "allocate"},
           NEW how \in {"Attestation", "Cancelled", "SequenceNumberExhausted"},
           Return(t, how), UNCHANGED <<clock, sequence_num, issued, burned>>
    PROVE  GeneratorInv'
<1>1. TypeOK'
  BY ClockAssumption DEF Return, GeneratorInv, TypeOK
<1>2. Holder'
  BY DEF Return, GeneratorInv, TypeOK, Holder
<1> QED
  BY <1>1, <1>2, QuietStep DEF Return, GeneratorInv, TypeOK

LEMMA AllocateStep ==
    ASSUME GeneratorInv, NEW t \in Task, Allocate(t)
    PROVE  GeneratorInv'
<1> USE DEF GeneratorInv, Allocate
<1>0. /\ sequence_num \in Nat /\ FirstSeq \in Nat /\ sequence_num >= FirstSeq
      /\ SeqMax \in Nat
  BY SeqAssumption DEF TypeOK
<1>1. TypeOK'
  BY <1>0 DEF TypeOK
<1>2. Holder'
  BY DEF TypeOK, Holder
<1>3. /\ pc'[t] = "sign" /\ seq'[t] = sequence_num
      /\ \A u \in Task : pc'[u] = "sign" => u = t
  BY OneAtATime DEF TypeOK
<1>4. \A n \in 1..Len(issued) : issued[n].seq \in Nat
  BY IssuedFields
<1>5. Newest'
  BY <1>0, <1>3, <1>4 DEF Newest
<1>6. Younger'
  BY <1>3 DEF Younger, TypeOK
<1>7. CompletionOrder' /\ TimesFollowSequence'
  BY DEF CompletionOrder, TimesFollowSequence
<1>8. NothingLost'
  <2>1. HandedOut' = HandedOut
    BY DEF HandedOut
  <2>2. Pending' = {sequence_num}
    BY <1>3 DEF Pending
  <2>3. Pending = {}
    BY OneAtATime DEF Pending
  <2>4. FirstSeq..(sequence_num' - 1)
            = (FirstSeq..(sequence_num - 1)) \cup {sequence_num}
    BY <1>0
  <2>5. sequence_num \notin FirstSeq..(sequence_num - 1)
    BY <1>0
  <2> QED
    BY <2>1, <2>2, <2>3, <2>4, <2>5 DEF NothingLost
<1> QED
  BY <1>1, <1>2, <1>5, <1>6, <1>7, <1>8

(* Signing ends a call whose number was the one pending.                   *)
LEMMA SignEnds ==
    ASSUME GeneratorInv, NEW t \in Task, pc[t] = "sign",
           NEW how \in {"Ok", "Unsigned"}, Return(t, how)
    PROVE  /\ Holder' /\ Pending = {seq[t]} /\ Pending' = {}
           /\ \A u \in Task :
                  pc'[u] \notin {"attest", "allocate", "sign"}
<1> USE DEF GeneratorInv, Return
<1>1. \A u \in Task : pc'[u] \notin {"attest", "allocate", "sign"}
  BY OneAtATime DEF TypeOK
<1>2. Holder'
  BY <1>1 DEF Holder
<1>3. Pending = {seq[t]}
  BY OneAtATime DEF Pending
<1>4. Pending' = {}
  BY <1>1 DEF Pending
<1> QED
  BY <1>1, <1>2, <1>3, <1>4

LEMMA SignStep ==
    ASSUME GeneratorInv, NEW t \in Task, Sign(t)
    PROVE  GeneratorInv'
<1> USE DEF GeneratorInv, Sign
<1> DEFINE e == [seq |-> seq[t], docTime |-> docTime[t], claimTime |-> clock]
           L == Len(issued)
<1>0. e \in IssuedReceipt /\ issued \in Seq(IssuedReceipt) /\ L \in Nat
  BY DEF TypeOK, IssuedReceipt
<1>1. /\ issued' \in Seq(IssuedReceipt) /\ Len(issued') = L + 1
      /\ \A n \in 1..L : issued'[n] = issued[n]
      /\ issued'[L + 1] = e
  BY <1>0
<1>2. TypeOK'
  BY <1>1, ClockAssumption DEF TypeOK, Return
<1>3. /\ Holder' /\ Pending = {seq[t]} /\ Pending' = {}
      /\ \A u \in Task : pc'[u] \notin {"attest", "allocate", "sign"}
  BY SignEnds
<1>4. /\ seq[t] \in Nat /\ sequence_num \in Nat /\ seq[t] < sequence_num
      /\ \A n \in 1..L : issued[n].seq < seq[t]
      /\ docTime[t] <= clock /\ \A n \in 1..L : issued[n].claimTime <= docTime[t]
      /\ docTime[t] \in Nat /\ clock \in Nat
  BY SeqAssumption, ClockAssumption DEF TypeOK, Newest, Younger
<1>5. \A n \in 1..(L + 1) : n \in 1..L \/ n = L + 1
  BY <1>0
<1> HIDE DEF L
<1>6. Newest'
  <2>1. ASSUME NEW n \in 1..(L + 1) PROVE issued'[n].seq < sequence_num
    <3>1. CASE n \in 1..L
      BY <1>1, <3>1 DEF Newest, L
    <3>2. CASE n = L + 1
      BY <1>1, <1>4, <3>2
    <3> QED
      BY <1>5, <3>1, <3>2
  <2>2. sequence_num' = sequence_num /\ Len(issued') = L + 1
    BY <1>1
  <2> QED
    BY <1>3, <2>1, <2>2 DEF Newest
<1>7. Younger'
  <2>1. ASSUME NEW n \in 1..(L + 1) PROVE issued'[n].claimTime <= clock
    <3>1. CASE n \in 1..L
      BY <1>1, <3>1 DEF Younger, L
    <3>2. CASE n = L + 1
      BY <1>1, <1>4, <3>2
    <3> QED
      BY <1>5, <3>1, <3>2
  <2>2. clock' = clock /\ Len(issued') = L + 1
    BY <1>1
  <2> QED
    BY <1>3, <2>1, <2>2 DEF Younger
<1>8. CompletionOrder'
  <2> SUFFICES ASSUME NEW m \in 1..(L + 1), NEW n \in 1..(L + 1), m < n
               PROVE  issued'[m].seq < issued'[n].seq
    BY <1>1 DEF CompletionOrder
  <2>1. m \in 1..L
    BY <1>0
  <2>2. CASE n \in 1..L
    BY <1>1, <2>1, <2>2 DEF CompletionOrder, L
  <2>3. CASE n = L + 1
    BY <1>1, <1>4, <2>1, <2>3
  <2> QED
    BY <1>5, <2>2, <2>3
<1>9. TimesFollowSequence'
  <2> SUFFICES ASSUME NEW m \in 1..(L + 1), NEW n \in 1..(L + 1)
               PROVE  /\ issued'[n].docTime <= issued'[n].claimTime
                      /\ m < n => issued'[m].claimTime <= issued'[n].docTime
    BY <1>1 DEF TimesFollowSequence
  <2>1. CASE n \in 1..L
    <3>1. m < n => m \in 1..L
      BY <2>1, <1>0
    <3> QED
      BY <1>1, <2>1, <3>1 DEF TimesFollowSequence, L
  <2>2. CASE n = L + 1
    <3>1. m < n => m \in 1..L
      BY <2>2, <1>0
    <3> QED
      BY <1>1, <1>4, <2>2, <3>1
  <2> QED
    BY <1>5, <2>1, <2>2
<1>10. NothingLost'
  <2>1. HandedOut' = HandedOut \cup {seq[t]}
    <3>1. ASSUME NEW x \in HandedOut' PROVE x \in HandedOut \cup {seq[t]}
      BY <1>1, <1>5, <3>1 DEF HandedOut, L
    <3>2. ASSUME NEW x \in HandedOut PROVE x \in HandedOut'
      BY <1>0, <1>1, <3>2 DEF HandedOut, L
    <3>3. seq[t] \in HandedOut'
      BY <1>0, <1>1 DEF HandedOut
    <3> QED
      BY <3>1, <3>2, <3>3
  <2>2. burned' = burned /\ sequence_num' = sequence_num
    OBVIOUS
  <2> QED
    BY <1>3, <2>1, <2>2 DEF NothingLost
<1> QED
  BY <1>2, <1>3, <1>6, <1>7, <1>8, <1>9, <1>10

LEMMA SignFailsStep ==
    ASSUME GeneratorInv, NEW t \in Task, SignFails(t)
    PROVE  GeneratorInv'
<1> USE DEF GeneratorInv, SignFails
<1>1. TypeOK'
  <2>1. seq[t] \in Nat
    BY DEF TypeOK
  <2>2. burned' \in SUBSET Nat
    BY <2>1 DEF TypeOK
  <2> QED
    BY <2>2, ClockAssumption DEF TypeOK, Return
<1>2. /\ Holder' /\ Pending = {seq[t]} /\ Pending' = {}
      /\ \A u \in Task : pc'[u] \notin {"attest", "allocate", "sign"}
  BY SignEnds
<1>3. Newest' /\ Younger' /\ CompletionOrder' /\ TimesFollowSequence'
  BY <1>2 DEF Newest, Younger, CompletionOrder, TimesFollowSequence
<1>4. HandedOut' = HandedOut
  BY DEF HandedOut
<1>5. NothingLost'
  BY <1>2, <1>4 DEF NothingLost
<1> QED
  BY <1>1, <1>2, <1>3, <1>5

LEMMA TickStep ==
    ASSUME GeneratorInv, Tick
    PROVE  GeneratorInv'
<1> USE DEF GeneratorInv, Tick
<1>1. TypeOK'
  BY ClockAssumption DEF TypeOK
<1>2. clock \in Nat /\ \A n \in 1..Len(issued) : issued[n].claimTime \in Nat
  BY IssuedFields, ClockAssumption DEF TypeOK
<1>3. Younger'
  BY <1>2, ClockAssumption DEF Younger, TypeOK
<1>4. Holder' /\ Newest' /\ CompletionOrder' /\ TimesFollowSequence'
  BY DEF Holder, Newest, CompletionOrder, TimesFollowSequence
<1>5. NothingLost'
  <2>1. HandedOut' = HandedOut
    BY DEF HandedOut
  <2>2. Pending' = Pending
    BY DEF Pending
  <2> QED
    BY <2>1, <2>2 DEF NothingLost
<1> QED
  BY <1>1, <1>3, <1>4, <1>5

LEMMA GeneratorNext ==
    ASSUME GeneratorInv, [Next]_vars
    PROVE  GeneratorInv'
<1>1. CASE UNCHANGED vars
  BY <1>1 DEF vars, GeneratorInv, TypeOK, Holder, Newest, Younger,
              CompletionOrder, NothingLost, HandedOut, Pending,
              TimesFollowSequence
<1>2. CASE Tick
  BY <1>2, TickStep
<1>3. ASSUME NEW t \in Task, CallStep(t) \/ Cancel(t)
      PROVE  GeneratorInv'
  <2>1. CASE AttestFails(t)
    BY <2>1, ReturnStep DEF AttestFails
  <2>2. CASE AllocateFails(t)
    BY <2>2, ReturnStep DEF AllocateFails
  <2>3. CASE Cancel(t)
    BY <2>3, ReturnStep DEF Cancel
  <2> QED
    BY <1>3, <2>1, <2>2, <2>3, LockStep, AttestStep, AllocateStep, SignStep,
       SignFailsStep DEF CallStep
<1> QED
  BY <1>1, <1>2, <1>3 DEF Next

LEMMA GeneratorInvariant == Spec => []GeneratorInv
<1>1. Init => GeneratorInv
  BY GeneratorInit
<1>2. GeneratorInv /\ [Next]_vars => GeneratorInv'
  BY GeneratorNext
<1> QED
  BY <1>1, <1>2, PTL DEF Spec

-----------------------------------------------------------------------------
(* Tasks that share a generator get their receipts in sequence order.      *)
THEOREM ReceiptsInOrder == Spec => []CompletionOrder
<1>1. GeneratorInv => CompletionOrder
  BY DEF GeneratorInv
<1> QED
  BY <1>1, GeneratorInvariant, PTL

(* Every number below the counter is in one receipt, in the call that      *)
(* holds the lock, or was spent by a call that failed.                     *)
THEOREM NumbersAccountedFor == Spec => []NothingLost
<1>1. GeneratorInv => NothingLost
  BY DEF GeneratorInv
<1> QED
  BY <1>1, GeneratorInvariant, PTL

(* The times in receipts grow with their sequence numbers, and no document *)
(* is younger than the claims it comes with.                               *)
THEOREM TimesInOrder == Spec => []TimesFollowSequence
<1>1. GeneratorInv => TimesFollowSequence
  BY DEF GeneratorInv
<1> QED
  BY <1>1, GeneratorInvariant, PTL

(* The counter never goes back, and at its limit only the number below it  *)
(* can still come out.                                                     *)
THEOREM CounterEnds == Spec => ExhaustionIsTerminal
<1> DEFINE Ends ==
        /\ sequence_num' >= sequence_num
        /\ sequence_num = SeqMax /\ issued' # issued
               => issued'[Len(issued')].seq = SeqMax - 1
<1>1. GeneratorInv /\ [Next]_vars => [Ends]_vars
  <2> SUFFICES ASSUME GeneratorInv, Next PROVE Ends
    OBVIOUS
  <2>1. sequence_num \in Nat
    BY SeqAssumption DEF GeneratorInv, TypeOK
  <2>2. CASE UNCHANGED <<sequence_num, issued>>
    BY <2>1, <2>2
  <2>3. ASSUME NEW t \in Task, Allocate(t)
        PROVE  Ends
    BY <2>1, <2>3 DEF Allocate
  <2>4. ASSUME NEW t \in Task, Sign(t)
        PROVE  Ends
    <3>1. seq[t] = sequence_num - 1 /\ sequence_num' = sequence_num
      BY <2>4 DEF Sign, GeneratorInv, Newest
    <3>2. issued \in Seq(IssuedReceipt)
      BY DEF GeneratorInv, TypeOK
    <3>3. issued'[Len(issued')].seq = seq[t]
      BY <2>4, <3>2 DEF Sign
    <3> QED
      BY <2>1, <3>1, <3>3
  <2> QED
    BY <2>2, <2>3, <2>4
       DEF Next, CallStep, Lock, Attest, AttestFails, AllocateFails, SignFails,
           Cancel, Tick
<1>2. ExhaustionIsTerminal <=> [][Ends]_vars
  BY DEF ExhaustionIsTerminal
<1> QED
  BY <1>1, <1>2, GeneratorInvariant, PTL DEF Spec

=============================================================================
