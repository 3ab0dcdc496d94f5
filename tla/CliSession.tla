------------------------------ MODULE CliSession ------------------------------
(***************************************************************************)
(* The command line (crates/veriai-cli/src/main.rs): processes that        *)
(* generate receipts, and processes that verify them against one session   *)
(* file (verify --stateful).  The file is read, checked against and        *)
(* rewritten in place, without a lock, a rename or a recovery.             *)
(*                                                                         *)
(* A Command is one run of the program; it makes or takes one receipt.     *)
(* inspect, and verify without --stateful, leave no trace.                 *)
(***************************************************************************)
EXTENDS Integers

CONSTANTS
    Command,       \* runs of the program
    Identity,      \* enclave identity fingerprints
    Mock,          \* the fingerprint of the CLI's own provider
    Foreign,       \* receipts made elsewhere: [identity, seq, maker]
    Elsewhere      \* the maker of those

NoSeq == -1
ReceiptType == [identity : Identity, seq : Nat, maker : Command \cup {Elsewhere}]

ASSUME MockAssumption == Mock \in Identity
ASSUME ForeignAssumption == Foreign \subseteq ReceiptType

VARIABLES
    receipts,   \* the receipt files there are
    file,       \* the session file
    pc,         \* Command -> where it is
    taken,      \* Command -> the receipt it verifies
    mem,        \* Command -> the replay map of its verifier
    verified,   \* the commands that have printed VERIFIED
    exit,       \* Command -> its exit status
    exposed,    \* the commands that were not alone with the session file
    mixed       \* the commands whose writes were not alone in the file

vars == <<receipts, file, pc, taken, mem, verified, exit, exposed, mixed>>

Map == [Identity -> Nat \cup {NoSeq}]
EmptyMap == [i \in Identity |-> NoSeq]

(* A file that was truncated and not completed is JSON to nobody.          *)
Absent == [kind |-> "absent", map |-> EmptyMap]
Torn == [kind |-> "torn", map |-> EmptyMap]
Saved(m) == [kind |-> "saved", map |-> m]

Init ==
    /\ receipts = Foreign
    /\ file = Absent
    /\ pc = [c \in Command |-> "start"]
    /\ taken = [c \in Command |-> [identity |-> Mock, seq |-> 0,
                                   maker |-> Elsewhere]]
    /\ mem = [c \in Command |-> EmptyMap]
    /\ verified = {}
    /\ exit = [c \in Command |-> "none"]
    /\ exposed = {}
    /\ mixed = {}

Goto(c, label) == pc' = [pc EXCEPT ![c] = label] /\ UNCHANGED exit

Exit(c, status) ==
    /\ pc' = [pc EXCEPT ![c] = "exited"]
    /\ exit' = [exit EXCEPT ![c] = status]

-----------------------------------------------------------------------------
(* Every run has a generator of its own, whose first number is zero; the   *)
(* mock's identity is the same in all of them.                             *)
Generate(c) ==
    /\ pc[c] = "start"
    /\ receipts' = receipts \cup {[identity |-> Mock, seq |-> 0, maker |-> c]}
    /\ Exit(c, "generated")
    /\ UNCHANGED <<file, taken, mem, verified, exposed, mixed>>

(* The receipt, the model, input and output, nonce, PCR0 and root are read *)
(* and the verifier is built.                                              *)
ReadInputs(c, r) ==
    /\ pc[c] = "start" /\ r \in receipts
    /\ taken' = [taken EXCEPT ![c] = r]
    /\ Goto(c, "load")
    /\ UNCHANGED <<receipts, file, mem, verified, exposed, mixed>>

(* One of them cannot be read or decoded, for either subcommand.           *)
ReadInputsFails(c) ==
    /\ pc[c] = "start"
    /\ Exit(c, "failed")
    /\ UNCHANGED <<receipts, file, taken, mem, verified, exposed, mixed>>

(* Between reading the session file and leaving it.                        *)
InSession == {d \in Command : pc[d] \in {"verify", "create", "write"}}
Writing == {d \in Command : pc[d] = "write"}

Enter(c) ==
    /\ Goto(c, "verify")
    /\ exposed' = IF InSession = {} THEN exposed
                                    ELSE exposed \cup InSession \cup {c}

(* There is no session file.                                               *)
NewSession(c) ==
    /\ pc[c] = "load" /\ file.kind = "absent"
    /\ Enter(c)
    /\ UNCHANGED <<receipts, file, taken, mem, verified, mixed>>

(* p.exists() is also false when the file cannot be looked up: the session *)
(* starts anew, and a receipt that passes replaces it.                     *)
OverlookSession(c) ==
    /\ pc[c] = "load" /\ file.kind # "absent"
    /\ Goto(c, "verify")
    /\ exposed' = exposed \cup InSession \cup {c}
    /\ UNCHANGED <<receipts, file, taken, mem, verified, mixed>>

(* Mutant: a file that cannot be parsed counts as an empty session.        *)
LoadSessionLenient(c) ==
    /\ pc[c] = "load" /\ file.kind # "absent"
    /\ mem' = [mem EXCEPT ![c] = file.map]
    /\ Enter(c)
    /\ UNCHANGED <<receipts, file, taken, verified, mixed>>

(* Keys that are not 32 bytes are dropped: the program writes none.        *)
LoadSession(c) ==
    /\ pc[c] = "load" /\ file.kind = "saved"
    /\ mem' = [mem EXCEPT ![c] = file.map]
    /\ Enter(c)
    /\ UNCHANGED <<receipts, file, taken, verified, mixed>>

(* The file cannot be opened, or not be parsed.                            *)
LoadSessionFails(c) ==
    /\ pc[c] = "load" /\ file.kind # "absent"
    /\ Exit(c, "failed")
    /\ UNCHANGED <<receipts, file, taken, mem, verified, exposed, mixed>>

(* Mutant: exit(1) is forgotten, and the program goes on to save.          *)
VerifyFailsQuietly(c) ==
    /\ pc[c] = "verify"
    /\ Goto(c, "create")
    /\ UNCHANGED <<receipts, file, taken, mem, verified, exposed, mixed>>

(* verify() returns Err, or finds the receipt invalid; nothing is saved.   *)
VerifyFails(c) ==
    /\ pc[c] = "verify"
    /\ Exit(c, "failed")
    /\ UNCHANGED <<receipts, file, taken, mem, verified, exposed, mixed>>

(* Mutant: a sequence equal to the last one passes.                        *)
VerifyPassesNotStrict(c) ==
    LET r == taken[c]
    IN  /\ pc[c] = "verify" /\ r.seq >= mem[c][r.identity]
        /\ mem' = [mem EXCEPT ![c] = [@ EXCEPT ![r.identity] = r.seq]]
        /\ verified' = verified \cup {c}
        /\ Goto(c, "create")
        /\ UNCHANGED <<receipts, file, taken, exposed, mixed>>

(* The receipt is valid and its sequence is new to this session.  VERIFIED *)
(* is printed before anything is saved.                                    *)
VerifyPasses(c) ==
    LET r == taken[c]
    IN  /\ pc[c] = "verify" /\ r.seq > mem[c][r.identity]
        /\ mem' = [mem EXCEPT ![c] = [@ EXCEPT ![r.identity] = r.seq]]
        /\ verified' = verified \cup {c}
        /\ Goto(c, "create")
        /\ UNCHANGED <<receipts, file, taken, exposed, mixed>>

-----------------------------------------------------------------------------
(* Saving.                                                                 *)

(* Mutant: the program reports success when it cannot save.                *)
CreateFailsQuietly(c) ==
    /\ pc[c] = "create"
    /\ Exit(c, "ok")
    /\ UNCHANGED <<receipts, file, taken, mem, verified, exposed, mixed>>

(* File::create fails: the old file is as it was.                          *)
CreateFails(c) ==
    /\ pc[c] = "create"
    /\ Exit(c, "failed")
    /\ UNCHANGED <<receipts, file, taken, mem, verified, exposed, mixed>>

(* File::create truncates, whoever else may be writing.                    *)
CreateFile(c) ==
    /\ pc[c] = "create"
    /\ file' = Torn
    /\ mixed' = IF Writing = {} THEN mixed ELSE mixed \cup Writing \cup {c}
    /\ Goto(c, "write")
    /\ UNCHANGED <<receipts, taken, mem, verified, exposed>>

(* What several writers, each from the beginning of the file and token by  *)
(* token, can leave: no JSON, or keys of one with numbers of another.      *)
Mixture ==
    {Torn} \cup
    {Saved(m) : m \in [Identity -> {mem[d][i] : d \in mixed, i \in Identity}]}

WriteSession(c) ==
    /\ pc[c] = "write"
    /\ \/ c \notin mixed /\ file' = Saved(mem[c])
       \/ c \in mixed /\ file' \in Mixture
    /\ Exit(c, "ok")
    /\ UNCHANGED <<receipts, taken, mem, verified, exposed, mixed>>

WriteSessionFails(c) ==
    /\ pc[c] = "write"
    /\ \/ c \notin mixed /\ file' = Torn
       \/ c \in mixed /\ file' \in Mixture
    /\ Exit(c, "failed")
    /\ UNCHANGED <<receipts, taken, mem, verified, exposed, mixed>>

(* The process is killed; while it writes, with its file complete or not.  *)
Kill(c) ==
    /\ pc[c] \in {"load", "verify", "create", "write"}
    /\ \/ pc[c] # "write" /\ UNCHANGED file
       \/ pc[c] = "write" /\ c \notin mixed /\ file' \in {Torn, Saved(mem[c])}
       \/ pc[c] = "write" /\ c \in mixed /\ file' \in Mixture
    /\ Exit(c, "killed")
    /\ UNCHANGED <<receipts, taken, mem, verified, exposed, mixed>>

Next ==
    \E c \in Command :
        \/ Generate(c)
        \/ \E r \in receipts : ReadInputs(c, r)
        \/ ReadInputsFails(c)
        \/ NewSession(c)
        \/ OverlookSession(c)
        \/ LoadSession(c)
        \/ LoadSessionFails(c)
        \/ VerifyFails(c)
        \/ VerifyPasses(c)
        \/ CreateFails(c)
        \/ CreateFile(c)
        \/ WriteSession(c)
        \/ WriteSessionFails(c)
        \/ Kill(c)

Spec == Init /\ [][Next]_vars

-----------------------------------------------------------------------------
(* Properties.                                                             *)

(* Only a command that found its receipt valid exits with status 0, and    *)
(* only commands that were in the file together mix their writes.          *)
TypeOK ==
    /\ receipts \subseteq ReceiptType
    /\ file \in [kind : {"absent", "torn", "saved"}, map : Map]
    /\ pc \in [Command -> {"start", "load", "verify", "create", "write",
                           "exited"}]
    /\ taken \in [Command -> ReceiptType]
    /\ mem \in [Command -> Map]
    /\ verified \subseteq Command
    /\ exit \in [Command -> {"none", "generated", "ok", "failed", "killed"}]
    /\ exposed \subseteq Command
    /\ mixed \subseteq exposed
    /\ \A c \in Command : exit[c] = "ok" => c \in verified

(* The commands that told their caller, by exit status 0, that a receipt   *)
(* is good.                                                                *)
Accepted == {c \in Command : exit[c] = "ok"}

(* As long as no two commands were in the session file at once, and it was *)
(* never overlooked: what was accepted is in the file or in the map of the *)
(* command that is rewriting it, or else the file is torn and nobody gets  *)
(* past it.  No crash and no failing call loses an accepted sequence.      *)
AcceptedIsKept ==
    exposed = {} =>
        \A a \in Accepted :
            LET r == taken[a]
            IN  /\ file.kind # "absent"
                /\ file.kind = "saved" => file.map[r.identity] >= r.seq
                /\ \A d \in InSession : mem[d][r.identity] >= r.seq

(* VERIFIED is printed for a receipt only if its sequence is above every   *)
(* one of that identity that a command has accepted: a crash between       *)
(* VERIFIED and the end of the save may let the same receipt pass again,   *)
(* but one that was accepted never does.                                   *)
VerifiedIsNew ==
    [][\A d \in verified' \ verified, a \in Accepted :
           exposed = {} /\ taken[a].identity = taken[d].identity
               => taken[a].seq < taken[d].seq]_vars

(* A torn session file that nobody is working on stays torn, and nobody    *)
(* gets to verify anything against it, until somebody removes it: unless   *)
(* it is overlooked, which shows in exposed.                               *)
TornIsTerminal ==
    [][(file.kind = "torn" /\ InSession = {} /\ exposed' = exposed)
           => file' = file /\ InSession' = {}]_vars

=============================================================================
