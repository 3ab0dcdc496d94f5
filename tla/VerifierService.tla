--------------------------- MODULE VerifierService ---------------------------
(***************************************************************************)
(* The verifier service (crates/verifier-service/src/main.rs) in the mode  *)
(* in which STATE_FILE_PATH is set: several service processes on one host  *)
(* share a replay-state file, an advisory lock file and a directory of     *)
(* issued challenges.  Each process runs any number of verify_handler      *)
(* tasks, and keeps the replay map of its Verifier in memory.              *)
(*                                                                         *)
(* A handler is cut where another actor, a failing system call or a crash  *)
(* can come between two of its effects.  Files carry two values: what a    *)
(* reader sees now, and the set of values that can survive a power loss    *)
(* (everything since the last successful fsync of the directory).          *)
(***************************************************************************)
EXTENDS Integers

CONSTANTS
    Proc,              \* service processes on the host
    Req,               \* requests to /v1/verify, each answered at most once
    Receipt,           \* receipts that clients hold
    Identity,          \* enclave identity fingerprints
    Challenge,         \* 32-byte nonces; those issued have a challenge file
    IdentityOf,        \* the fingerprint of each receipt's attestation
    SeqOf,             \* the sequence_num claim of each receipt
    NonceOf,           \* the nonce a receipt and its attestation are bound to
    NoReq,             \* no holder of a lock
    NoFile,            \* the replay-state file does not exist
    RequireChallenge,  \* cfg!(feature = "real-hardware")
    Faults             \* which system calls and actors may fail

(***************************************************************************)
(* "open": opening or locking the lock file; "load": reading the state     *)
(* file; "stat": the stat behind path.exists(); "write": creating, writing *)
(* or syncing the temporary file; "rename", "remove": those calls; "sync": *)
(* fsync of a directory; "crash": a process dies; "power": the host loses  *)
(* power; "cancel": the client disconnects, and the server drops the       *)
(* handler's future at an await point.                                     *)
(***************************************************************************)
FaultKind == {"open", "load", "stat", "write", "rename", "remove", "sync",
              "crash", "power", "cancel"}

ASSUME NoReqAssumption == NoReq \notin Req
ASSUME FaultsAssumption == Faults \subseteq FaultKind
ASSUME RequireChallengeAssumption == RequireChallenge \in BOOLEAN
ASSUME InhabitedAssumption == Proc # {} /\ Receipt # {} /\ Challenge # {}
ASSUME ReceiptAssumption ==
    /\ IdentityOf \in [Receipt -> Identity]
    /\ SeqOf \in [Receipt -> Nat]
    /\ NonceOf \in [Receipt -> Challenge]

(* A replay map: the last sequence accepted for each fingerprint.  NoSeq   *)
(* stands for a fingerprint that is not a key of the HashMap.              *)
NoSeq == -1
ReplayMap == [Identity -> Nat \cup {NoSeq}]
EmptyMap == [i \in Identity |-> NoSeq]

ASSUME NoFileAssumption == NoFile \notin ReplayMap

(* A challenge file: never created; left behind by a challenge_handler     *)
(* that failed, its nonce told to nobody; under its own name; renamed to   *)
(* .reserved; removed.                                                     *)
ChallengeState == {"none", "stray", "available", "reserved", "gone"}

(* Where a handler is; see verify_handler.                                 *)
Critical == {"reload", "reserve", "verify", "restore", "persist", "fsync",
             "rollback", "undo", "consume"}
Unreserved == {"mutex", "flock", "reload", "reserve"}
Control == {"idle", "mutex", "flock", "done"} \cup Critical

(* The HTTP answer: 200 with valid true or false, 400, 500, or none at all *)
(* because the process died or the client went away.                       *)
Answer == {"none", "valid", "invalid", "rejected", "error", "lost"}

(* When a request lost the race against its challenge's expiry, if it did: *)
(* before it arrived, or while it waited to reserve the challenge.         *)
Lateness == {"no", "arrived", "waiting"}

VARIABLES
    up,               \* Proc -> the process is serving
    mem,              \* Proc -> the replay map inside its Verifier
    mutex,            \* Proc -> holder of replay_write_lock
    flock,            \* holder of the lock on the sibling lock file
    stateFile,        \* the replay-state file as a reader sees it
    stateSurvivors,   \* the values a power loss may leave in it
    chal,             \* Challenge -> its file as a reader sees it
    chalSurvivors,    \* Challenge -> the values a power loss may leave
    expired,          \* Challenge -> the clock has passed its expires_at
    inFlight,         \* Proc -> state files being renamed by no handler
    pc, answer,       \* Req -> control state and answer
    home,             \* Req -> the process that serves it
    receipt, nonce,   \* Req -> its payload
    prev,             \* Req -> previous_replay_state
    late              \* Req -> how its challenge expired unreserved

procVars == <<up, mem, mutex>>
stateVars == <<stateFile, stateSurvivors>>
chalVars == <<chal, chalSurvivors, expired>>
payloadVars == <<home, receipt, nonce, late>>
vars == <<up, mem, mutex, flock, stateFile, stateSurvivors, chal,
          chalSurvivors, expired, inFlight, pc, answer, home, receipt, nonce,
          prev, late>>

Init ==
    /\ up = [p \in Proc |-> TRUE]
    /\ mem = [p \in Proc |-> EmptyMap]
    /\ mutex = [p \in Proc |-> NoReq]
    /\ flock = NoReq
    /\ stateFile = NoFile
    /\ stateSurvivors = {NoFile}
    /\ chal = [c \in Challenge |-> "none"]
    /\ chalSurvivors = [c \in Challenge |-> {"none"}]
    /\ expired = [c \in Challenge |-> FALSE]
    /\ inFlight = [p \in Proc |-> {}]
    /\ pc = [r \in Req |-> "idle"]
    /\ answer = [r \in Req |-> "none"]
    /\ home = [r \in Req |-> CHOOSE p \in Proc : TRUE]
    /\ receipt = [r \in Req |-> CHOOSE x \in Receipt : TRUE]
    /\ nonce = [r \in Req |-> CHOOSE c \in Challenge : TRUE]
    /\ prev = [r \in Req |-> EmptyMap]
    /\ late = [r \in Req |-> "no"]

-----------------------------------------------------------------------------
(* Steps shared by the handlers.                                           *)

MayFail(fault) == fault \in Faults

Goto(r, label) == pc' = [pc EXCEPT ![r] = label]

(* The handler returns: its guards and its locals are dropped.             *)
Respond(r, a) ==
    /\ pc' = [pc EXCEPT ![r] = "done"]
    /\ answer' = [answer EXCEPT ![r] = a]
    /\ prev' = [prev EXCEPT ![r] = EmptyMap]
    /\ mutex' = [mutex EXCEPT ![home[r]] = IF @ = r THEN NoReq ELSE @]
    /\ flock' = IF flock = r THEN NoReq ELSE flock

(* It goes on, and keeps them.                                             *)
Continue == UNCHANGED <<mutex, flock, answer, prev>>

(* A change of one challenge file, followed by sync_directory: the fsync   *)
(* settles every file of the directory.                                    *)
SetChallengeSynced(c, s) ==
    /\ chal' = [chal EXCEPT ![c] = s]
    /\ chalSurvivors' = [d \in Challenge |-> {IF d = c THEN s ELSE chal[d]}]
    /\ UNCHANGED expired

(* A change of one challenge file that no fsync has settled yet.           *)
SetChallengeUnsynced(c, s) ==
    /\ chal' = [chal EXCEPT ![c] = s]
    /\ chalSurvivors' = [chalSurvivors EXCEPT ![c] = @ \cup {s}]
    /\ UNCHANGED expired

-----------------------------------------------------------------------------
(* verify_handler                                                          *)

(* A request arrives at process p and its fields decode.                   *)
Receive(r, p, x, c) ==
    /\ pc[r] = "idle" /\ up[p]
    /\ home' = [home EXCEPT ![r] = p]
    /\ receipt' = [receipt EXCEPT ![r] = x]
    /\ nonce' = [nonce EXCEPT ![r] = c]
    /\ late' = [late EXCEPT ![r] = IF expired[c] THEN "arrived" ELSE "no"]
    /\ Goto(r, "mutex")
    /\ Continue
    /\ UNCHANGED <<up, mem, stateVars, chalVars, inFlight>>

(* A field does not decode: 400 before any lock is taken.                  *)
ReceiveUndecodable(r, p) ==
    /\ pc[r] = "idle" /\ up[p]
    /\ pc' = [pc EXCEPT ![r] = "done"]
    /\ answer' = [answer EXCEPT ![r] = "rejected"]
    /\ UNCHANGED <<procVars, flock, stateVars, chalVars, inFlight,
                   payloadVars, prev>>

LockReplayGuard(r) ==
    /\ pc[r] = "mutex" /\ mutex[home[r]] = NoReq
    /\ mutex' = [mutex EXCEPT ![home[r]] = r]
    /\ Goto(r, "flock")
    /\ UNCHANGED <<up, mem, flock, stateVars, chalVars, inFlight, answer,
                   payloadVars, prev>>

(* Mutant: the result of locking the file is ignored.                      *)
AcquireReplayLockIgnored(r) ==
    /\ pc[r] = "flock"
    /\ flock' = r
    /\ Goto(r, "reload")
    /\ UNCHANGED <<procVars, stateVars, chalVars, inFlight, answer,
                   payloadVars, prev>>

AcquireReplayLock(r) ==
    /\ pc[r] = "flock" /\ flock = NoReq
    /\ flock' = r
    /\ Goto(r, "reload")
    /\ UNCHANGED <<procVars, stateVars, chalVars, inFlight, answer,
                   payloadVars, prev>>

(* Mutant: the early return forgets the guard of the mutex.                *)
AcquireReplayLockFailsLeaking(r) ==
    /\ pc[r] = "flock" /\ MayFail("open")
    /\ pc' = [pc EXCEPT ![r] = "done"]
    /\ answer' = [answer EXCEPT ![r] = "error"]
    /\ UNCHANGED <<up, mem, mutex, flock, stateVars, chalVars, inFlight,
                   payloadVars, prev>>

AcquireReplayLockFails(r) ==
    /\ pc[r] = "flock" /\ MayFail("open")
    /\ Respond(r, "error")
    /\ UNCHANGED <<up, mem, stateVars, chalVars, inFlight, payloadVars>>

(* Mutant: the map loaded by main() is trusted inside the lock.            *)
ReloadStateNever(r) ==
    /\ pc[r] = "reload"
    /\ Goto(r, "reserve")
    /\ Continue
    /\ UNCHANGED <<up, mem, stateVars, chalVars, inFlight, payloadVars>>

(* path.exists() is false for a missing file and also for a failed stat:   *)
(* the process then goes on with the map it has in memory.                 *)
ReloadState(r) ==
    /\ pc[r] = "reload"
    /\ \/ /\ stateFile # NoFile
          /\ mem' = [mem EXCEPT ![home[r]] = stateFile]
       \/ /\ stateFile = NoFile \/ MayFail("stat")
          /\ mem' = mem
    /\ Goto(r, "reserve")
    /\ Continue
    /\ UNCHANGED <<up, stateVars, chalVars, inFlight, payloadVars>>

ReloadStateFails(r) ==
    /\ pc[r] = "reload" /\ stateFile # NoFile /\ MayFail("load")
    /\ Respond(r, "error")
    /\ UNCHANGED <<up, mem, stateVars, chalVars, inFlight, payloadVars>>

(* The mock-hardware build asks for no challenge.                          *)
SkipReservation(r) ==
    /\ pc[r] = "reserve" /\ ~RequireChallenge
    /\ Goto(r, "verify")
    /\ Continue
    /\ UNCHANGED <<up, mem, stateVars, chalVars, inFlight, payloadVars>>

(* Mutant: expires_at is compared with a clock read before the locks.      *)
ReserveChallengeClockOnArrival(r) ==
    /\ pc[r] = "reserve" /\ RequireChallenge
    /\ chal[nonce[r]] = "available" /\ late[r] # "arrived"
    /\ SetChallengeSynced(nonce[r], "reserved")
    /\ Goto(r, "verify")
    /\ Continue
    /\ UNCHANGED <<up, mem, stateVars, inFlight, payloadVars>>

(* Mutant: the directory is not synced after the rename.                   *)
ReserveChallengeNoSync(r) ==
    /\ pc[r] = "reserve" /\ RequireChallenge
    /\ chal[nonce[r]] = "available" /\ ~expired[nonce[r]]
    /\ SetChallengeUnsynced(nonce[r], "reserved")
    /\ Goto(r, "verify")
    /\ Continue
    /\ UNCHANGED <<up, mem, stateVars, inFlight, payloadVars>>

ReserveChallenge(r) ==
    /\ pc[r] = "reserve" /\ RequireChallenge
    /\ chal[nonce[r]] = "available" /\ ~expired[nonce[r]]
    /\ SetChallengeSynced(nonce[r], "reserved")
    /\ Goto(r, "verify")
    /\ Continue
    /\ UNCHANGED <<up, mem, stateVars, inFlight, payloadVars>>

(* The fsync after the rename fails: 400, and the file stays reserved.     *)
ReserveChallengeUnsynced(r) ==
    /\ pc[r] = "reserve" /\ RequireChallenge /\ MayFail("sync")
    /\ chal[nonce[r]] = "available" /\ ~expired[nonce[r]]
    /\ SetChallengeUnsynced(nonce[r], "reserved")
    /\ Respond(r, "rejected")
    /\ UNCHANGED <<up, mem, stateVars, inFlight, payloadVars>>

RejectExpiredChallenge(r) ==
    /\ pc[r] = "reserve" /\ RequireChallenge
    /\ chal[nonce[r]] = "available" /\ expired[nonce[r]]
    /\ \/ SetChallengeUnsynced(nonce[r], "gone")
       \/ MayFail("remove") /\ UNCHANGED chalVars
    /\ Respond(r, "rejected")
    /\ UNCHANGED <<up, mem, stateVars, inFlight, payloadVars>>

(* Mutant: the early return keeps the handle that holds the file lock.     *)
RejectUnknownChallengeKeeping(r) ==
    /\ pc[r] = "reserve" /\ RequireChallenge
    /\ chal[nonce[r]] # "available" \/ MayFail("load") \/ MayFail("rename")
    /\ pc' = [pc EXCEPT ![r] = "done"]
    /\ answer' = [answer EXCEPT ![r] = "rejected"]
    /\ mutex' = [mutex EXCEPT ![home[r]] = NoReq]
    /\ UNCHANGED <<up, mem, flock, stateVars, chalVars, inFlight,
                   payloadVars, prev>>

(* Not issued, consumed, reserved by another, or not readable.             *)
RejectUnknownChallenge(r) ==
    /\ pc[r] = "reserve" /\ RequireChallenge
    /\ chal[nonce[r]] # "available" \/ MayFail("load") \/ MayFail("rename")
    /\ Respond(r, "rejected")
    /\ UNCHANGED <<up, mem, stateVars, chalVars, inFlight, payloadVars>>

(* Mutant: a sequence equal to the last one passes.                        *)
SequenceCheckNotStrict(r) ==
    ~(SeqOf[receipt[r]] < mem[home[r]][IdentityOf[receipt[r]]])

(* The check of Verifier::verify that depends on the replay map.           *)
SequenceCheck(r) ==
    ~(SeqOf[receipt[r]] <= mem[home[r]][IdentityOf[receipt[r]]])

(* get_state snapshots the map; verify() passes every check and inserts.   *)
VerifyPasses(r) ==
    /\ pc[r] = "verify"
    /\ NonceOf[receipt[r]] = nonce[r]
    /\ SequenceCheck(r)
    /\ prev' = [prev EXCEPT ![r] = mem[home[r]]]
    /\ mem' = [mem EXCEPT ![home[r]][IdentityOf[receipt[r]]] =
                   SeqOf[receipt[r]]]
    /\ Goto(r, "persist")
    /\ UNCHANGED <<mutex, flock, answer>>
    /\ UNCHANGED <<up, stateVars, chalVars, inFlight, payloadVars>>

(* Mutant: an invalid receipt is answered without restoring the challenge. *)
VerifyRefusesKeeping(r) ==
    /\ pc[r] = "verify"
    /\ Respond(r, "invalid")
    /\ UNCHANGED <<up, mem, stateVars, chalVars, inFlight, payloadVars>>

(* verify() returns Ok with valid = false.  Which of its earlier checks    *)
(* fails depends on the receipt and on the clock, and is left open here.   *)
VerifyRefuses(r) ==
    /\ pc[r] = "verify"
    /\ IF RequireChallenge
       THEN Goto(r, "restore") /\ Continue
       ELSE Respond(r, "invalid")
    /\ UNCHANGED <<up, mem, stateVars, chalVars, inFlight, payloadVars>>

(* verify() returns Err (an expired receipt, a bad header, a receipt that  *)
(* is too large, a clock error): the ? operator returns 500 at once.       *)
VerifyErrs(r) ==
    /\ pc[r] = "verify"
    /\ Respond(r, "error")
    /\ UNCHANGED <<up, mem, stateVars, chalVars, inFlight, payloadVars>>

(* reservation.restore(), after an invalid receipt ("restore") or after a  *)
(* failed persist ("undo").                                                *)
RestoreChallenge(r) ==
    /\ pc[r] \in {"restore", "undo"}
    /\ SetChallengeSynced(nonce[r], "available")
    /\ Respond(r, IF pc[r] = "restore" THEN "invalid" ELSE "error")
    /\ UNCHANGED <<up, mem, stateVars, inFlight, payloadVars>>

RestoreChallengeFails(r) ==
    /\ pc[r] \in {"restore", "undo"}
    /\ \/ MayFail("rename") /\ UNCHANGED chalVars
       \/ MayFail("sync") /\ SetChallengeUnsynced(nonce[r], "available")
    /\ Respond(r, "error")
    /\ UNCHANGED <<up, mem, stateVars, inFlight, payloadVars>>

(* persist_replay_state, up to the rename of the temporary file, which     *)
(* holds a complete and synced copy of the map.                            *)
PersistReplayState(r) ==
    /\ pc[r] = "persist"
    /\ stateFile' = mem[home[r]]
    /\ stateSurvivors' = stateSurvivors \cup {mem[home[r]]}
    /\ Goto(r, "fsync")
    /\ Continue
    /\ UNCHANGED <<up, mem, chalVars, inFlight, payloadVars>>

PersistReplayStateFails(r) ==
    /\ pc[r] = "persist" /\ (MayFail("write") \/ MayFail("rename"))
    /\ Goto(r, "rollback")
    /\ Continue
    /\ UNCHANGED <<up, mem, stateVars, chalVars, inFlight, payloadVars>>

(* Mutant: the parent directory is not synced after the rename.            *)
SyncReplayStateNever(r) ==
    /\ pc[r] = "fsync"
    /\ IF RequireChallenge
       THEN Goto(r, "consume") /\ Continue
       ELSE Respond(r, "valid")
    /\ UNCHANGED <<up, mem, stateVars, chalVars, inFlight, payloadVars>>

(* The fsync of the parent directory.                                      *)
SyncReplayState(r) ==
    /\ pc[r] = "fsync"
    /\ stateSurvivors' = {stateFile}
    /\ IF RequireChallenge
       THEN Goto(r, "consume") /\ Continue
       ELSE Respond(r, "valid")
    /\ UNCHANGED <<up, mem, stateFile, chalVars, inFlight, payloadVars>>

(* It fails when the new file is already in place.                         *)
SyncReplayStateFails(r) ==
    /\ pc[r] = "fsync" /\ MayFail("sync")
    /\ Goto(r, "rollback")
    /\ Continue
    /\ UNCHANGED <<up, mem, stateVars, chalVars, inFlight, payloadVars>>

(* Mutant: a failed persist leaves the advanced map in memory.             *)
RollbackForgotten(r) ==
    /\ pc[r] = "rollback"
    /\ IF RequireChallenge
       THEN Goto(r, "undo") /\ Continue
       ELSE Respond(r, "error")
    /\ UNCHANGED <<up, mem, stateVars, chalVars, inFlight, payloadVars>>

(* persist_replay_state_or_rollback puts the snapshot back.                *)
Rollback(r) ==
    /\ pc[r] = "rollback"
    /\ mem' = [mem EXCEPT ![home[r]] = prev[r]]
    /\ IF RequireChallenge
       THEN Goto(r, "undo") /\ Continue
       ELSE Respond(r, "error")
    /\ UNCHANGED <<up, stateVars, chalVars, inFlight, payloadVars>>

(* Mutant: restore() is called where consume() is meant.                   *)
ConsumeChallengeRestoring(r) ==
    /\ pc[r] = "consume"
    /\ SetChallengeSynced(nonce[r], "available")
    /\ Respond(r, "valid")
    /\ UNCHANGED <<up, mem, stateVars, inFlight, payloadVars>>

ConsumeChallenge(r) ==
    /\ pc[r] = "consume"
    /\ SetChallengeSynced(nonce[r], "gone")
    /\ Respond(r, "valid")
    /\ UNCHANGED <<up, mem, stateVars, inFlight, payloadVars>>

ConsumeChallengeFails(r) ==
    /\ pc[r] = "consume"
    /\ \/ MayFail("remove") /\ UNCHANGED chalVars
       \/ MayFail("sync") /\ SetChallengeUnsynced(nonce[r], "gone")
    /\ Respond(r, "error")
    /\ UNCHANGED <<up, mem, stateVars, inFlight, payloadVars>>

-----------------------------------------------------------------------------
(* challenge_handler, which takes neither lock, and the clock.  The mock   *)
(* build writes challenge files too, but never reads them: they are left   *)
(* out of it.                                                              *)

(* Mutant: the generator of nonces repeats itself.  create_new stops a     *)
(* nonce whose file is there, but not one whose file has been removed.     *)
IssueChallengeReused(p, c) ==
    /\ RequireChallenge /\ up[p] /\ chal[c] \in {"none", "gone"}
    /\ SetChallengeSynced(c, "available")
    /\ UNCHANGED <<procVars, flock, stateVars, inFlight, pc, answer,
                   payloadVars, prev>>

IssueChallenge(p, c) ==
    /\ RequireChallenge /\ up[p] /\ chal[c] = "none"
    /\ SetChallengeSynced(c, "available")
    /\ UNCHANGED <<procVars, flock, stateVars, inFlight, pc, answer,
                   payloadVars, prev>>

IssueChallengeFails(p, c) ==
    /\ RequireChallenge /\ up[p] /\ chal[c] = "none"
    /\ MayFail("write") \/ MayFail("sync")
    /\ SetChallengeUnsynced(c, "stray")
    /\ UNCHANGED <<procVars, flock, stateVars, inFlight, pc, answer,
                   payloadVars, prev>>

(* CHALLENGE_TTL_SECONDS pass.                                             *)
ExpireChallenge(c) ==
    /\ chal[c] # "none" /\ ~expired[c]
    /\ expired' = [expired EXCEPT ![c] = TRUE]
    /\ late' = [r \in Req |->
                   IF nonce[r] = c /\ pc[r] \in Unreserved /\ late[r] = "no"
                   THEN "waiting" ELSE late[r]]
    /\ UNCHANGED <<procVars, flock, stateVars, chal, chalSurvivors, inFlight,
                   pc, answer, home, receipt, nonce, prev>>

-----------------------------------------------------------------------------
(* Failures of processes, of the host and of clients.                      *)

(* Requests that die when the processes in P stop; the kernel releases     *)
(* their locks and their temporary files are never renamed.                *)
StopProcesses(P) ==
    LET dead == {r \in Req : pc[r] \notin {"idle", "done"} /\ home[r] \in P}
    IN  /\ up' = [p \in Proc |-> up[p] /\ p \notin P]
        /\ mem' = [p \in Proc |-> IF p \in P THEN EmptyMap ELSE mem[p]]
        /\ mutex' = [p \in Proc |-> IF p \in P THEN NoReq ELSE mutex[p]]
        /\ flock' = IF flock \in dead THEN NoReq ELSE flock
        /\ inFlight' = [p \in Proc |-> IF p \in P THEN {} ELSE inFlight[p]]
        /\ pc' = [r \in Req |-> IF r \in dead THEN "done" ELSE pc[r]]
        /\ answer' = [r \in Req |-> IF r \in dead THEN "lost" ELSE answer[r]]
        /\ prev' = [r \in Req |-> IF r \in dead THEN EmptyMap ELSE prev[r]]
        /\ UNCHANGED payloadVars

Crash(p) ==
    /\ MayFail("crash") /\ up[p]
    /\ StopProcesses({p})
    /\ UNCHANGED <<stateVars, chalVars>>

PowerLoss ==
    /\ MayFail("power") /\ \E p \in Proc : up[p]
    /\ StopProcesses(Proc)
    /\ stateFile' \in stateSurvivors
    /\ stateSurvivors' = {stateFile'}
    /\ chal' \in {f \in [Challenge -> ChallengeState] :
                    \A c \in Challenge : f[c] \in chalSurvivors[c]}
    /\ chalSurvivors' = [c \in Challenge |-> {chal'[c]}]
    /\ UNCHANGED expired

(* Mutant: a missing state file is loaded all the same.                    *)
StartProcessUnchecked(p) ==
    /\ ~up[p]
    /\ up' = [up EXCEPT ![p] = TRUE]
    /\ mem' = [mem EXCEPT ![p] = stateFile]
    /\ UNCHANGED <<mutex, flock, stateVars, chalVars, inFlight, pc, answer,
                   payloadVars, prev>>

(* main() loads the state file if it exists; when that fails it panics and *)
(* the process stays down.                                                 *)
StartProcess(p) ==
    /\ ~up[p]
    /\ up' = [up EXCEPT ![p] = TRUE]
    /\ \/ /\ stateFile # NoFile
          /\ mem' = [mem EXCEPT ![p] = stateFile]
       \/ /\ stateFile = NoFile \/ MayFail("stat")
          /\ mem' = [mem EXCEPT ![p] = EmptyMap]
    /\ UNCHANGED <<mutex, flock, stateVars, chalVars, inFlight, pc, answer,
                   payloadVars, prev>>

(* The client disconnects while the handler waits for a lock or for an     *)
(* operation of tokio::fs.  Dropping the future drops the guards, but it   *)
(* neither restores the challenge nor rolls the map back, and a rename     *)
(* that was handed to the blocking pool still happens.                     *)
Cancel(r) ==
    /\ MayFail("cancel")
    /\ pc[r] \in {"mutex", "flock", "persist", "rollback"}
    /\ \/ UNCHANGED inFlight
       \/ /\ pc[r] = "persist"
          /\ inFlight' = [inFlight EXCEPT ![home[r]] =
                              @ \cup {mem[home[r]]}]
    /\ Respond(r, "lost")
    /\ UNCHANGED <<up, mem, stateVars, chalVars, payloadVars>>

LateRename(p) ==
    \E m \in inFlight[p] :
        /\ stateFile' = m
        /\ stateSurvivors' = stateSurvivors \cup {m}
        /\ inFlight' = [inFlight EXCEPT ![p] = @ \ {m}]
        /\ UNCHANGED <<procVars, flock, chalVars, pc, answer, payloadVars,
                       prev>>

-----------------------------------------------------------------------------
(* The whole service.                                                      *)

HandlerStep(r) ==
    \/ LockReplayGuard(r)
    \/ AcquireReplayLock(r)
    \/ AcquireReplayLockFails(r)
    \/ ReloadState(r)
    \/ ReloadStateFails(r)
    \/ SkipReservation(r)
    \/ ReserveChallenge(r)
    \/ ReserveChallengeUnsynced(r)
    \/ RejectExpiredChallenge(r)
    \/ RejectUnknownChallenge(r)
    \/ VerifyPasses(r)
    \/ VerifyRefuses(r)
    \/ VerifyErrs(r)
    \/ RestoreChallenge(r)
    \/ RestoreChallengeFails(r)
    \/ PersistReplayState(r)
    \/ PersistReplayStateFails(r)
    \/ SyncReplayState(r)
    \/ SyncReplayStateFails(r)
    \/ Rollback(r)
    \/ ConsumeChallenge(r)
    \/ ConsumeChallengeFails(r)

Next ==
    \/ \E r \in Req, p \in Proc, x \in Receipt, c \in Challenge :
           Receive(r, p, x, c)
    \/ \E r \in Req, p \in Proc : ReceiveUndecodable(r, p)
    \/ \E r \in Req : HandlerStep(r)
    \/ \E p \in Proc, c \in Challenge : IssueChallenge(p, c)
    \/ \E p \in Proc, c \in Challenge : IssueChallengeFails(p, c)
    \/ \E c \in Challenge : ExpireChallenge(c)
    \/ \E p \in Proc : Crash(p)
    \/ PowerLoss
    \/ \E p \in Proc : StartProcess(p)
    \/ \E r \in Req : Cancel(r)
    \/ \E p \in Proc : LateRename(p)

Spec == Init /\ [][Next]_vars

(* What a handler does when no call fails.  One that waits for a lock goes *)
(* on only when the lock is free.                                          *)
Progress(r) ==
    \/ LockReplayGuard(r)
    \/ AcquireReplayLock(r)
    \/ ReloadState(r)
    \/ SkipReservation(r)
    \/ ReserveChallenge(r)
    \/ RejectExpiredChallenge(r)
    \/ chal[nonce[r]] # "available" /\ RejectUnknownChallenge(r)
    \/ VerifyPasses(r)
    \/ VerifyRefuses(r)
    \/ VerifyErrs(r)
    \/ RestoreChallenge(r)
    \/ PersistReplayState(r)
    \/ SyncReplayState(r)
    \/ Rollback(r)
    \/ ConsumeChallenge(r)

(* Handlers are tasks of a multi-threaded runtime: one that can go on does.*)
(* Nothing obliges a client to send a request, a process to be restarted,  *)
(* or a call to fail: a lock that is never given back keeps its waiters    *)
(* waiting.  Every request is finite and sent once, so weak fairness is    *)
(* enough: no handler can take a lock again and again.                     *)
Fairness == \A r \in Req : WF_vars(Progress(r))

FairSpec == Spec /\ Fairness

-----------------------------------------------------------------------------
(* Properties.                                                             *)

TypeOK ==
    /\ up \in [Proc -> BOOLEAN]
    /\ mem \in [Proc -> ReplayMap]
    /\ mutex \in [Proc -> Req \cup {NoReq}]
    /\ flock \in Req \cup {NoReq}
    /\ stateFile \in ReplayMap \cup {NoFile}
    /\ stateSurvivors \in SUBSET (ReplayMap \cup {NoFile})
    /\ chal \in [Challenge -> ChallengeState]
    /\ chalSurvivors \in [Challenge -> SUBSET ChallengeState]
    /\ expired \in [Challenge -> BOOLEAN]
    /\ inFlight \in [Proc -> SUBSET ReplayMap]
    /\ pc \in [Req -> Control]
    /\ answer \in [Req -> Answer]
    /\ home \in [Req -> Proc]
    /\ receipt \in [Req -> Receipt]
    /\ nonce \in [Req -> Challenge]
    /\ prev \in [Req -> ReplayMap]
    /\ late \in [Req -> Lateness]

Accepted == {r \in Req : answer[r] = "valid"}

(* The sequence r presents is recorded in replay-state file m.             *)
Records(m, r) ==
    m # NoFile /\ SeqOf[receipt[r]] <= m[IdentityOf[receipt[r]]]

(* No sequence number of an enclave identity is accepted twice, whichever  *)
(* processes serve the requests and whatever crashes or I/O errors come in *)
(* between (the reload, check and persist transaction of verify_handler).  *)
AcceptedOnce ==
    \A r, s \in Accepted :
        r # s /\ IdentityOf[receipt[r]] = IdentityOf[receipt[s]]
            => SeqOf[receipt[r]] # SeqOf[receipt[s]]

(* Once a client is told "valid", no power loss can leave a state file     *)
(* that would let the receipt pass again: persist_replay_state has synced  *)
(* the file and its directory before verify_handler answers.               *)
AcceptedIsDurable ==
    \A r \in Accepted : \A m \in stateSurvivors : Records(m, r)

(* A challenge that led to an acceptance is not available again, neither   *)
(* now nor after a power loss (reserve, consume and their fsyncs).         *)
SpentChallengeStaysSpent ==
    RequireChallenge =>
        \A r \in Accepted : /\ chal[nonce[r]] # "available"
                            /\ "available" \notin chalSurvivors[nonce[r]]

(* An issued challenge answers for at most one accepted receipt.           *)
ChallengeAcceptedOnce ==
    RequireChallenge =>
        \A r, s \in Accepted : r # s => nonce[r] # nonce[s]

(* A request whose challenge expired before the request reserved it is     *)
(* never accepted: not if the time ran out before it came in, nor while it *)
(* waited for the mutex or the file lock, and not on a challenge that was  *)
(* reserved and restored in between (the clock is read inside the          *)
(* transaction, by reserve_challenge).                                     *)
LateNeverAccepted ==
    RequireChallenge => \A r \in Accepted : late[r] = "no"

(* Outside a transaction the map in a process's memory never runs ahead of *)
(* the file: a handler whose persist failed has put its snapshot back.     *)
MemoryNotAhead ==
    \A p \in Proc :
        (\A r \in Req : home[r] = p => pc[r] \notin Critical)
            => \A i \in Identity :
                   mem[p][i] <= IF stateFile = NoFile THEN NoSeq
                                                      ELSE stateFile[i]

(* A challenge file stays reserved only while a handler works on it, or    *)
(* after one that ended with an error or with no answer: every 200 answer  *)
(* has restored or consumed it.                                            *)
ReservedOwnedOrFailed ==
    \A c \in Challenge : chal[c] = "reserved" =>
        \E r \in Req :
            /\ nonce[r] = c
            /\ pc[r] \in Critical \/ answer[r] \in {"rejected", "error", "lost"}

(* deploy/nitro/README.md: the verifier "restores it after invalid         *)
(* verification": with no failing call and no crash, a reserved challenge  *)
(* belongs to a handler that is still running.                             *)
RestoredAfterInvalid ==
    \A c \in Challenge : chal[c] = "reserved" =>
        \E r \in Req : nonce[r] = c /\ pc[r] \in Critical

(* A challenge is consumed only for a receipt bound to it whose sequence   *)
(* is recorded in a state file that would survive a power loss.            *)
ConsumedAfterDurable ==
    [][\A c \in Challenge :
           chal[c] = "reserved" /\ chal'[c] = "gone" =>
               \E r \in Req : /\ pc[r] = "consume"
                              /\ nonce[r] = c /\ NonceOf[receipt[r]] = c
                              /\ \A m \in stateSurvivors : Records(m, r)]_vars

(* Every request that arrives is answered, unless its process dies or its  *)
(* client leaves, although a handler that waits for a lock does nothing    *)
(* else: the mutex and the file lock are given back on every path.         *)
EveryRequestAnswered == \A r \in Req : pc[r] # "idle" ~> pc[r] = "done"

-----------------------------------------------------------------------------
(* The invariants above are not inductive.  These are.                     *)

(* Only the holder of the file lock is inside the transaction, handlers    *)
(* run in processes that are up, and an answer is the end of a handler.    *)
LockInv ==
    /\ \A r \in Req : pc[r] \in Critical => flock = r
    /\ \A r \in Req : pc[r] \notin {"idle", "done"} => up[home[r]]
    /\ \A r \in Req : answer[r] # "none" => pc[r] = "done"

(* The control states in which a handler owns the reservation it made.     *)
Holding == Critical \ {"reload", "reserve"}

(* The reservation of a running handler is settled on disk and was made in *)
(* time, and an accepted challenge is gone for good.                       *)
ChallengeInv ==
    /\ \A r \in Req : late[r] # "no" => expired[nonce[r]]
    /\ RequireChallenge =>
           /\ \A r \in Req : pc[r] \in Holding =>
                  /\ chal[nonce[r]] = "reserved"
                  /\ chalSurvivors[nonce[r]] = {"reserved"}
                  /\ late[r] = "no"
           /\ \A r \in Accepted :
                  /\ chal[nonce[r]] = "gone"
                  /\ chalSurvivors[nonce[r]] = {"gone"}
                  /\ late[r] = "no"

(* The transaction works on the file's map, and from the sequence check to *)
(* the answer the handler's sequence is above every accepted one and on    *)
(* its way into the file: first in memory, then in the file, then in all   *)
(* that can survive.                                                       *)
ReplayInv ==
    /\ \A p \in Proc : inFlight[p] = {}
    /\ stateFile \in stateSurvivors
    /\ \A r \in Req : pc[r] \in {"reserve", "verify"} /\ stateFile # NoFile
                          => mem[home[r]] = stateFile
    /\ \A r \in Req : pc[r] \in {"persist", "fsync", "consume"} =>
           \A s \in Accepted :
               IdentityOf[receipt[s]] = IdentityOf[receipt[r]]
                   => SeqOf[receipt[s]] < SeqOf[receipt[r]]
    /\ \A r \in Req : pc[r] = "persist" =>
           \A s \in Accepted \cup {r} : Records(mem[home[r]], s)
    /\ \A r \in Req : pc[r] = "fsync" => Records(stateFile, r)
    /\ \A r \in Req : pc[r] = "consume" =>
           \A m \in stateSurvivors : Records(m, r)
    /\ AcceptedIsDurable

(* What the service promises, whatever it does inside: see ReplayLedger.   *)
EntryOf(r) == [req |-> r, identity |-> IdentityOf[receipt[r]],
               seq |-> SeqOf[receipt[r]], nonce |-> nonce[r]]

acceptedLedger == {EntryOf(r) : r \in Accepted}

Ledger ==
    INSTANCE ReplayLedger WITH
        Entry <- [req : Req, identity : Identity, seq : Nat,
                  nonce : Challenge],
        OneTimeNonces <- RequireChallenge,
        ledger <- acceptedLedger

(* Every behaviour of the service is one of the abstract ledger: receipts  *)
(* of an identity are accepted in increasing sequence order, one at a time.*)
RefinesLedger == Ledger!Spec

=============================================================================
