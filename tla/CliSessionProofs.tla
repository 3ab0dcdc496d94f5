--------------------------- MODULE CliSessionProofs ---------------------------
(***************************************************************************)
(* The session file of the command line, for any number of commands,       *)
(* identities and receipts.                                                *)
(***************************************************************************)
EXTENDS CliSession, TLAPS

(* Commands that are in the session together are exposed, and nobody is    *)
(* exposed before he is in it.                                             *)
Alone ==
    /\ \A c, d \in InSession : c # d => c \in exposed
    /\ \A c \in exposed : pc[c] \notin {"start", "load"}

(* How far a command has come is in its locals.                            *)
Progress ==
    \A c \in Command :
        /\ pc[c] \in {"create", "write"} =>
               c \in verified /\ mem[c][taken[c].identity] >= taken[c].seq
        /\ exit[c] = "ok" => pc[c] = "exited"

(* The file of a writer that is alone is torn.                             *)
WriterTears == exposed = {} /\ Writing # {} => file.kind = "torn"

SessionInv == TypeOK /\ Alone /\ Progress /\ WriterTears /\ AcceptedIsKept

(* What the parts of a step are made of.                                   *)
LEMMA MapTypes ==
    /\ EmptyMap \in Map
    /\ Torn \in [kind : {"absent", "torn", "saved"}, map : Map]
    /\ Absent \in [kind : {"absent", "torn", "saved"}, map : Map]
    /\ \A m \in Map : Saved(m) \in [kind : {"absent", "torn", "saved"}, map : Map]
    /\ \A m : Saved(m).kind = "saved" /\ Saved(m).map = m
    /\ Torn.kind = "torn" /\ Absent.kind = "absent"
  BY DEF EmptyMap, Map, Torn, Absent, Saved, NoSeq

(* Several writers leave a file of the same shape.                         *)
LEMMA MixtureTypes ==
    ASSUME TypeOK
    PROVE  Mixture \subseteq [kind : {"absent", "torn", "saved"}, map : Map]
<1> SUFFICES ASSUME NEW f \in Mixture
             PROVE  f \in [kind : {"absent", "torn", "saved"}, map : Map]
  OBVIOUS
<1>1. CASE f = Torn
  BY <1>1, MapTypes
<1>2. CASE \E m \in [Identity -> {mem[d][i] : d \in mixed, i \in Identity}] :
               f = Saved(m)
  <2>1. PICK m \in [Identity -> {mem[d][i] : d \in mixed, i \in Identity}] :
            f = Saved(m)
    BY <1>2
  <2>2. {mem[d][i] : d \in mixed, i \in Identity} \subseteq Nat \cup {NoSeq}
    BY DEF TypeOK, Map
  <2>3. m \in Map
    BY <2>1, <2>2 DEF Map
  <2> QED
    BY <2>1, <2>3, MapTypes
<1> QED
  BY <1>1, <1>2 DEF Mixture

LEMMA SessionInit == Init => SessionInv
<1> SUFFICES ASSUME Init PROVE SessionInv
  OBVIOUS
<1>1. TypeOK
  BY MapTypes, MockAssumption, ForeignAssumption DEF Init, TypeOK, ReceiptType
<1>2. Alone /\ Progress /\ WriterTears
  BY DEF Init, Alone, Progress, WriterTears, InSession, Writing
<1>3. AcceptedIsKept
  BY DEF Init, AcceptedIsKept, Accepted
<1> QED
  BY <1>1, <1>2, <1>3 DEF SessionInv

-----------------------------------------------------------------------------
(* Each kind of step preserves the invariant.                              *)

(* A command that only ends, without status 0 and without touching the     *)
(* file, takes nothing with it.                                            *)
LEMMA EndStep ==
    ASSUME SessionInv, NEW c \in Command,
           NEW status \in {"generated", "failed", "killed"},
           Exit(c, status), receipts' \subseteq ReceiptType,
           UNCHANGED <<file, taken, mem, verified, exposed, mixed>>
    PROVE  SessionInv'
<1> USE DEF SessionInv, Exit
<1>1. TypeOK'
  BY DEF TypeOK
<1>2. InSession' \subseteq InSession /\ Writing' \subseteq Writing
      /\ Accepted' \subseteq Accepted
  BY DEF TypeOK, InSession, Writing, Accepted
<1>3. Alone'
  BY <1>2 DEF Alone, TypeOK
<1>4. Progress'
  BY DEF Progress, TypeOK
<1>5. WriterTears'
  BY <1>2 DEF WriterTears
<1>6. AcceptedIsKept'
  BY <1>2 DEF AcceptedIsKept
<1> QED
  BY <1>1, <1>3, <1>4, <1>5, <1>6

(* Entering the session, with a map that holds what has been accepted.     *)
LEMMA EnterStep ==
    ASSUME SessionInv, NEW c \in Command, pc[c] = "load",
           Goto(c, "verify"),
           \/ exposed' = exposed /\ InSession = {}
           \/ exposed' = exposed \cup InSession \cup {c},
           NEW m \in Map, mem' = [mem EXCEPT ![c] = m],
           exposed' = {} => \A a \in Accepted :
               m[taken[a].identity] >= taken[a].seq,
           UNCHANGED <<receipts, file, taken, verified, mixed>>
    PROVE  SessionInv'
<1> USE DEF SessionInv, Goto
<1>1. TypeOK'
  BY DEF TypeOK, InSession
<1>2. /\ InSession' = InSession \cup {c} /\ Writing' = Writing
      /\ Accepted' = Accepted
  BY DEF TypeOK, InSession, Writing, Accepted
<1>3. Alone'
  BY <1>2 DEF Alone, TypeOK, InSession
<1>4. Progress'
  BY DEF Progress, TypeOK
<1>5. WriterTears'
  BY <1>2 DEF WriterTears
<1>6. AcceptedIsKept'
  <2> SUFFICES ASSUME exposed' = {}, NEW a \in Accepted
               PROVE  /\ file.kind # "absent"
                      /\ file.kind = "saved" =>
                             file.map[taken[a].identity] >= taken[a].seq
                      /\ \A d \in InSession' :
                             mem'[d][taken[a].identity] >= taken[a].seq
    BY <1>2 DEF AcceptedIsKept
  <2>1. exposed = {}
    OBVIOUS
  <2> QED
    BY <2>1, <1>2 DEF AcceptedIsKept, TypeOK, InSession
<1> QED
  BY <1>1, <1>3, <1>4, <1>5, <1>6

(* Leaving the session as its writer, with the file torn, complete, or     *)
(* mixed with that of others.                                              *)
LEMMA LeaveStep ==
    ASSUME SessionInv, NEW c \in Command, pc[c] = "write",
           NEW status \in {"ok", "failed", "killed"}, Exit(c, status),
           \/ c \notin mixed /\ file' = Saved(mem[c])
           \/ c \notin mixed /\ file' = Torn /\ status # "ok"
           \/ c \in mixed /\ file' \in Mixture,
           UNCHANGED <<receipts, taken, mem, verified, exposed, mixed>>
    PROVE  SessionInv'
<1> USE DEF SessionInv, Exit
<1>0. c \in InSession /\ c \in Writing
  BY DEF InSession, Writing
<1>1. TypeOK'
  <2>1. file' \in [kind : {"absent", "torn", "saved"}, map : Map]
    BY MapTypes, MixtureTypes DEF TypeOK
  <2> QED
    BY <2>1 DEF TypeOK, Progress
<1>2. /\ InSession' = InSession \ {c} /\ Writing' = Writing \ {c}
      /\ Accepted' \subseteq Accepted \cup {c}
  BY DEF TypeOK, InSession, Writing, Accepted
<1>3. Alone'
  BY <1>0, <1>2 DEF Alone, TypeOK
<1>4. Progress'
  BY DEF Progress, TypeOK
<1>5. exposed = {} => InSession' = {} /\ c \notin mixed
  BY <1>0, <1>2 DEF Alone, TypeOK
<1>6. WriterTears'
  <2>1. Writing' \subseteq InSession'
    BY DEF Writing, InSession
  <2> QED
    BY <1>5, <2>1 DEF WriterTears
<1>7. AcceptedIsKept'
  <2> SUFFICES ASSUME exposed = {}, NEW a \in Accepted'
               PROVE  /\ file'.kind # "absent"
                      /\ file'.kind = "saved" =>
                             file'.map[taken[a].identity] >= taken[a].seq
    BY <1>5 DEF AcceptedIsKept
  <2>1. CASE file' = Torn
    BY <2>1, MapTypes
  <2>2. CASE file' = Saved(mem[c])
    <3>1. mem[c][taken[a].identity] >= taken[a].seq
      BY <1>0, <1>2 DEF AcceptedIsKept, Progress
    <3> QED
      BY <2>2, <3>1, MapTypes
  <2> QED
    BY <1>5, <2>1, <2>2
<1> QED
  BY <1>1, <1>3, <1>4, <1>6, <1>7

LEMMA ReadInputsStep ==
    ASSUME SessionInv, NEW c \in Command, NEW r \in receipts, ReadInputs(c, r)
    PROVE  SessionInv'
<1> USE DEF SessionInv, ReadInputs, Goto
<1>1. TypeOK'
  BY DEF TypeOK
<1>2. /\ InSession' = InSession /\ Writing' = Writing /\ Accepted' = Accepted
      /\ c \notin Accepted /\ c \notin InSession
  BY DEF TypeOK, InSession, Writing, Accepted, Progress
<1>3. Alone' /\ WriterTears'
  BY <1>2 DEF Alone, TypeOK, WriterTears
<1>4. Progress'
  BY DEF Progress, TypeOK
<1>5. \A a \in Accepted : taken'[a] = taken[a]
  BY <1>2 DEF TypeOK, Accepted
<1>6. AcceptedIsKept'
  BY <1>2, <1>5 DEF AcceptedIsKept
<1> QED
  BY <1>1, <1>3, <1>4, <1>6

LEMMA VerifyPassesStep ==
    ASSUME SessionInv, NEW c \in Command, VerifyPasses(c)
    PROVE  SessionInv'
<1> USE DEF SessionInv, VerifyPasses, Goto
<1>0. /\ taken[c] \in ReceiptType /\ mem[c] \in Map
      /\ taken[c].identity \in Identity /\ taken[c].seq \in Nat
  BY DEF TypeOK, ReceiptType
<1>1. /\ mem'[c] = [mem[c] EXCEPT ![taken[c].identity] = taken[c].seq]
      /\ mem'[c] \in Map /\ mem' \in [Command -> Map]
      /\ \A d \in Command : d # c => mem'[d] = mem[d]
  BY <1>0 DEF TypeOK, Map
<1>2. TypeOK'
  BY <1>1 DEF TypeOK
<1>3. /\ InSession' = InSession /\ Writing' = Writing /\ Accepted' = Accepted
      /\ c \in InSession
  BY DEF TypeOK, InSession, Writing, Accepted
<1>4. Alone' /\ WriterTears'
  BY <1>3 DEF Alone, TypeOK, WriterTears
<1>5. mem'[c][taken[c].identity] = taken[c].seq
  BY <1>0, <1>1 DEF Map
<1>6. Progress'
  BY <1>0, <1>1, <1>5 DEF Progress, TypeOK
<1>7. AcceptedIsKept'
  <2> SUFFICES ASSUME exposed = {}, NEW a \in Accepted, NEW d \in InSession
               PROVE  mem'[d][taken[a].identity] >= taken[a].seq
    BY <1>3 DEF AcceptedIsKept
  <2>1. /\ mem[d][taken[a].identity] >= taken[a].seq
        /\ taken[a].identity \in Identity /\ taken[a].seq \in Nat
        /\ d \in Command
    BY DEF AcceptedIsKept, TypeOK, ReceiptType, Accepted, InSession
  <2>2. CASE d # c
    BY <2>1, <2>2, <1>1
  <2>3. CASE d = c /\ taken[a].identity # taken[c].identity
    BY <2>1, <2>3, <1>0, <1>1 DEF Map
  <2>4. CASE d = c /\ taken[a].identity = taken[c].identity
    <3>1. mem[c][taken[c].identity] \in Int
      BY <1>0 DEF Map, NoSeq
    <3> QED
      BY <2>1, <2>4, <1>0, <1>5, <3>1
  <2> QED
    BY <2>2, <2>3, <2>4
<1> QED
  BY <1>2, <1>4, <1>6, <1>7

LEMMA CreateFileStep ==
    ASSUME SessionInv, NEW c \in Command, CreateFile(c)
    PROVE  SessionInv'
<1> USE DEF SessionInv, CreateFile, Goto
<1>1. /\ InSession' = InSession /\ Writing' = Writing \cup {c}
      /\ Accepted' = Accepted /\ c \in InSession /\ c \notin Writing
      /\ Writing \subseteq InSession
  BY DEF TypeOK, InSession, Writing, Accepted
<1>2. mixed' \subseteq exposed
  BY <1>1 DEF Alone, TypeOK
<1>3. TypeOK'
  BY <1>2, MapTypes DEF TypeOK
<1>4. Alone'
  BY <1>1 DEF Alone, TypeOK
<1>5. Progress'
  BY DEF Progress, TypeOK
<1>6. WriterTears' /\ AcceptedIsKept'
  BY <1>1, MapTypes DEF WriterTears, AcceptedIsKept
<1> QED
  BY <1>3, <1>4, <1>5, <1>6

LEMMA SessionNext ==
    ASSUME SessionInv, [Next]_vars
    PROVE  SessionInv'
<1>1. CASE UNCHANGED vars
  BY <1>1 DEF vars, SessionInv, TypeOK, Alone, Progress, WriterTears,
              AcceptedIsKept, InSession, Writing, Accepted
<1>2. ASSUME NEW c \in Command, Generate(c)
      PROVE  SessionInv'
  <2>1. receipts' \subseteq ReceiptType
    BY <1>2, MockAssumption DEF Generate, SessionInv, TypeOK, ReceiptType
  <2> QED
    BY <1>2, <2>1, EndStep DEF Generate
<1>3. ASSUME NEW c \in Command,
             ReadInputsFails(c) \/ LoadSessionFails(c) \/ VerifyFails(c)
                 \/ CreateFails(c) \/ (Kill(c) /\ pc[c] # "write")
      PROVE  SessionInv'
  <2>1. /\ Exit(c, "failed") \/ Exit(c, "killed")
        /\ UNCHANGED <<receipts, file, taken, mem, verified, exposed, mixed>>
    BY <1>3 DEF ReadInputsFails, LoadSessionFails, VerifyFails, CreateFails, Kill
  <2>2. receipts' \subseteq ReceiptType
    BY <2>1 DEF SessionInv, TypeOK
  <2> QED
    BY <2>1, <2>2, EndStep
<1>4. ASSUME NEW c \in Command, NEW r \in receipts, ReadInputs(c, r)
      PROVE  SessionInv'
  BY <1>4, ReadInputsStep
<1>5. ASSUME NEW c \in Command, NewSession(c) \/ OverlookSession(c)
      PROVE  SessionInv'
  <2> DEFINE m == mem[c]
  <2>1. m \in Map /\ mem' = [mem EXCEPT ![c] = m]
    BY <1>5 DEF NewSession, OverlookSession, SessionInv, TypeOK
  <2>2. \/ exposed' = exposed /\ InSession = {}
        \/ exposed' = exposed \cup InSession \cup {c}
    BY <1>5 DEF NewSession, OverlookSession, Enter
  <2>3. exposed' = {} => \A a \in Accepted :
            m[taken[a].identity] >= taken[a].seq
    BY <1>5, <2>2 DEF NewSession, OverlookSession, Enter, SessionInv,
                      AcceptedIsKept
  <2>4. /\ pc[c] = "load" /\ Goto(c, "verify")
        /\ UNCHANGED <<receipts, file, taken, verified, mixed>>
    BY <1>5 DEF NewSession, OverlookSession, Enter
  <2> HIDE DEF m
  <2> QED
    BY <2>1, <2>2, <2>3, <2>4, EnterStep
<1>6. ASSUME NEW c \in Command, LoadSession(c)
      PROVE  SessionInv'
  <2> DEFINE m == file.map
  <2>1. m \in Map /\ mem' = [mem EXCEPT ![c] = m]
    BY <1>6 DEF LoadSession, SessionInv, TypeOK
  <2>2. \/ exposed' = exposed /\ InSession = {}
        \/ exposed' = exposed \cup InSession \cup {c}
    BY <1>6 DEF LoadSession, Enter
  <2>3. exposed' = {} => \A a \in Accepted :
            m[taken[a].identity] >= taken[a].seq
    BY <1>6, <2>2 DEF LoadSession, Enter, SessionInv, AcceptedIsKept
  <2>4. /\ pc[c] = "load" /\ Goto(c, "verify")
        /\ UNCHANGED <<receipts, file, taken, verified, mixed>>
    BY <1>6 DEF LoadSession, Enter
  <2> HIDE DEF m
  <2> QED
    BY <2>1, <2>2, <2>3, <2>4, EnterStep
<1>7. ASSUME NEW c \in Command, VerifyPasses(c)
      PROVE  SessionInv'
  BY <1>7, VerifyPassesStep
<1>8. ASSUME NEW c \in Command, CreateFile(c)
      PROVE  SessionInv'
  BY <1>8, CreateFileStep
<1>9. ASSUME NEW c \in Command,
             WriteSession(c) \/ WriteSessionFails(c)
                 \/ (Kill(c) /\ pc[c] = "write")
      PROVE  SessionInv'
  <2>1. CASE WriteSession(c)
    BY <2>1, LeaveStep DEF WriteSession
  <2>2. CASE WriteSessionFails(c)
    BY <2>2, LeaveStep DEF WriteSessionFails
  <2>3. CASE Kill(c) /\ pc[c] = "write"
    BY <2>3, LeaveStep DEF Kill
  <2> QED
    BY <1>9, <2>1, <2>2, <2>3
<1> QED
  BY <1>1, <1>2, <1>3, <1>4, <1>5, <1>6, <1>7, <1>8, <1>9 DEF Next

LEMMA SessionInvariant == Spec => []SessionInv
<1>1. Init => SessionInv
  BY SessionInit
<1>2. SessionInv /\ [Next]_vars => SessionInv'
  BY SessionNext
<1> QED
  BY <1>1, <1>2, PTL DEF Spec

-----------------------------------------------------------------------------
(* The state of the commands is well typed, and exit status 0 follows      *)
(* VERIFIED.                                                               *)
THEOREM SessionTypeCorrect == Spec => []TypeOK
<1>1. SessionInv => TypeOK
  BY DEF SessionInv
<1> QED
  BY <1>1, SessionInvariant, PTL

(* Among commands that take turns, no accepted sequence is lost: to no     *)
(* crash, and to no call of the save that fails.                           *)
THEOREM SessionKeepsAccepted == Spec => []AcceptedIsKept
<1>1. SessionInv => AcceptedIsKept
  BY DEF SessionInv
<1> QED
  BY <1>1, SessionInvariant, PTL

(* Among commands that take turns, VERIFIED is never printed for a         *)
(* sequence that was accepted, nor for one below it.                       *)
THEOREM SessionVerifiesNew == Spec => VerifiedIsNew
<1> DEFINE New ==
        \A d \in verified' \ verified, a \in Accepted :
           exposed = {} /\ taken[a].identity = taken[d].identity
               => taken[a].seq < taken[d].seq
<1>1. SessionInv /\ [Next]_vars => [New]_vars
  <2> SUFFICES ASSUME SessionInv, Next,
                      NEW d \in verified' \ verified, NEW a \in Accepted,
                      exposed = {}, taken[a].identity = taken[d].identity
               PROVE  taken[a].seq < taken[d].seq
    BY DEF New
  <2>1. d \in Command /\ VerifyPasses(d)
    BY DEF Next, Generate, ReadInputs, ReadInputsFails, NewSession,
           OverlookSession, LoadSession, LoadSessionFails, VerifyFails,
           VerifyPasses, CreateFails, CreateFile, WriteSession,
           WriteSessionFails, Kill
  <2>2. d \in InSession /\ taken[d].seq > mem[d][taken[d].identity]
    BY <2>1 DEF VerifyPasses, InSession
  <2>3. mem[d][taken[a].identity] >= taken[a].seq
    BY <2>2 DEF SessionInv, AcceptedIsKept
  <2>4. /\ taken[a].seq \in Int /\ taken[d].seq \in Int
        /\ mem[d][taken[d].identity] \in Int
    BY <2>1 DEF SessionInv, TypeOK, ReceiptType, Map, NoSeq, Accepted
  <2> QED
    BY <2>2, <2>3, <2>4
<1>2. VerifiedIsNew <=> [][New]_vars
  BY DEF VerifiedIsNew
<1> QED
  BY <1>1, <1>2, SessionInvariant, PTL DEF Spec

(* A torn file that nobody works on stops the session.                     *)
THEOREM TornSessionStops == Spec => TornIsTerminal
<1> DEFINE Stops ==
        (file.kind = "torn" /\ InSession = {} /\ exposed' = exposed)
            => file' = file /\ InSession' = {}
<1>1. SessionInv /\ [Next]_vars => [Stops]_vars
  <2> SUFFICES ASSUME SessionInv, Next, file.kind = "torn", InSession = {},
                      exposed' = exposed
               PROVE  file' = file /\ InSession' = {}
    BY DEF Stops
  <2>0. \A c \in Command : pc[c] \notin {"verify", "create", "write"}
    BY DEF InSession
  <2>1. PICK c \in Command :
            /\ UNCHANGED file
            /\ \/ \E status : Exit(c, status)
               \/ Goto(c, "load")
    <3>1. ASSUME NEW c \in Command, OverlookSession(c)
          PROVE  FALSE
      BY <3>1 DEF OverlookSession, SessionInv, Alone
    <3> QED
      BY <2>0, <3>1
         DEF Next, Generate, ReadInputs, ReadInputsFails, NewSession,
             LoadSession, LoadSessionFails, VerifyFails,
             VerifyPasses, CreateFails, CreateFile, WriteSession,
             WriteSessionFails, Kill
  <2>2. \A d \in Command : pc'[d] \notin {"verify", "create", "write"}
    BY <2>0, <2>1 DEF Exit, Goto, SessionInv, TypeOK
  <2> QED
    BY <2>1, <2>2 DEF InSession
<1>2. TornIsTerminal <=> [][Stops]_vars
  BY DEF TornIsTerminal
<1> QED
  BY <1>1, <1>2, SessionInvariant, PTL DEF Spec

=============================================================================
