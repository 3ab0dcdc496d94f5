------------------------ MODULE VerifierServiceProofs ------------------------
(***************************************************************************)
(* Proofs about VerifierService, for any number of processes, requests,    *)
(* receipts, identities and challenges.                                    *)
(***************************************************************************)
EXTENDS VerifierService, TLAPS

(* The constants' assumptions, cited together.                             *)
LEMMA Constants ==
    /\ NoReq \notin Req
    /\ IdentityOf \in [Receipt -> Identity]
    /\ SeqOf \in [Receipt -> Nat]
    /\ NonceOf \in [Receipt -> Challenge]
    /\ RequireChallenge \in BOOLEAN
    /\ EmptyMap \in ReplayMap
    /\ NoFile \notin ReplayMap
BY NoReqAssumption, ReceiptAssumption, RequireChallengeAssumption,
   NoFileAssumption DEF EmptyMap, ReplayMap, NoSeq

-----------------------------------------------------------------------------
(* Type correctness.                                                       *)

LEMMA InitType == Init => TypeOK
<1> SUFFICES ASSUME Init PROVE TypeOK
  OBVIOUS
<1>1. /\ (CHOOSE p \in Proc : TRUE) \in Proc
      /\ (CHOOSE x \in Receipt : TRUE) \in Receipt
      /\ (CHOOSE c \in Challenge : TRUE) \in Challenge
  BY InhabitedAssumption
<1>2. QED
  BY <1>1, Constants DEF Init, TypeOK, ChallengeState, Control, Critical, Answer,
     Lateness

(* The helpers by which a handler leaves or goes on keep the types.        *)
LEMMA RespondType ==
    ASSUME TypeOK, NEW r \in Req, NEW a \in Answer, Respond(r, a)
    PROVE  /\ pc' \in [Req -> Control]
           /\ answer' \in [Req -> Answer]
           /\ prev' \in [Req -> ReplayMap]
           /\ mutex' \in [Proc -> Req \cup {NoReq}]
           /\ flock' \in Req \cup {NoReq}
BY Constants DEF TypeOK, Respond, Control

LEMMA ChallengeType ==
    ASSUME TypeOK, NEW c \in Challenge, NEW s \in ChallengeState,
           SetChallengeSynced(c, s) \/ SetChallengeUnsynced(c, s)
    PROVE  /\ chal' \in [Challenge -> ChallengeState]
           /\ chalSurvivors' \in [Challenge -> SUBSET ChallengeState]
           /\ expired' \in [Challenge -> BOOLEAN]
BY DEF TypeOK, SetChallengeSynced, SetChallengeUnsynced

LEMMA HandlerType ==
    ASSUME TypeOK, NEW r \in Req, HandlerStep(r) PROVE TypeOK'
<1> USE DEF stateVars, chalVars, payloadVars, procVars
<1>0. /\ home[r] \in Proc /\ receipt[r] \in Receipt /\ nonce[r] \in Challenge
      /\ {"valid", "invalid", "rejected", "error", "lost"} \subseteq Answer
      /\ {"available", "reserved", "gone", "stray"} \subseteq ChallengeState
  BY DEF TypeOK, Answer, ChallengeState
<1>1. CASE LockReplayGuard(r)
  BY <1>1, <1>0 DEF LockReplayGuard, Goto, TypeOK, Control
<1>2. CASE AcquireReplayLock(r)
  BY <1>2, <1>0 DEF AcquireReplayLock, Goto, TypeOK, Control, Critical
<1>3. CASE AcquireReplayLockFails(r)
  BY <1>3, <1>0, RespondType DEF AcquireReplayLockFails, TypeOK
<1>4. CASE ReloadState(r)
  BY <1>4, <1>0 DEF ReloadState, Goto, Continue, TypeOK, Control, Critical
<1>5. CASE ReloadStateFails(r)
  BY <1>5, <1>0, RespondType DEF ReloadStateFails, TypeOK
<1>6. CASE SkipReservation(r)
  BY <1>6, <1>0 DEF SkipReservation, Goto, Continue, TypeOK, Control, Critical
<1>7. CASE ReserveChallenge(r)
  <2>1. /\ chal' \in [Challenge -> ChallengeState]
        /\ chalSurvivors' \in [Challenge -> SUBSET ChallengeState]
        /\ expired' \in [Challenge -> BOOLEAN]
    BY <1>7, <1>0, ChallengeType DEF ReserveChallenge
  <2>2. QED
    BY <1>7, <2>1, <1>0
       DEF ReserveChallenge, Goto, Continue, TypeOK, Control, Critical
<1>8. CASE ReserveChallengeUnsynced(r)
  BY <1>8, <1>0, RespondType, ChallengeType DEF ReserveChallengeUnsynced, TypeOK
<1>9. CASE RejectExpiredChallenge(r)
  <2>1. /\ chal' \in [Challenge -> ChallengeState]
        /\ chalSurvivors' \in [Challenge -> SUBSET ChallengeState]
        /\ expired' \in [Challenge -> BOOLEAN]
    BY <1>9, <1>0, ChallengeType DEF RejectExpiredChallenge, TypeOK
  <2>2. QED
    BY <1>9, <2>1, <1>0, RespondType DEF RejectExpiredChallenge, TypeOK
<1>10. CASE RejectUnknownChallenge(r)
  BY <1>10, <1>0, RespondType DEF RejectUnknownChallenge, TypeOK
<1>11. CASE VerifyPasses(r)
  <2>1. /\ IdentityOf[receipt[r]] \in Identity /\ SeqOf[receipt[r]] \in Nat
        /\ mem[home[r]] \in ReplayMap
    BY <1>0, Constants DEF TypeOK
  <2>2. mem' \in [Proc -> ReplayMap]
    BY <1>11, <2>1, <1>0 DEF VerifyPasses, TypeOK, ReplayMap
  <2>3. QED
    BY <1>11, <2>1, <2>2, <1>0
       DEF VerifyPasses, Goto, TypeOK, Control, Critical
<1>12. CASE VerifyRefuses(r)
  <2>1. CASE RequireChallenge
    BY <1>12, <2>1, <1>0
       DEF VerifyRefuses, Goto, Continue, TypeOK, Control, Critical
  <2>2. CASE ~RequireChallenge
    BY <1>12, <2>2, <1>0, RespondType DEF VerifyRefuses, TypeOK
  <2>3. QED
    BY <2>1, <2>2
<1>13. CASE VerifyErrs(r)
  BY <1>13, <1>0, RespondType DEF VerifyErrs, TypeOK
<1>14. CASE RestoreChallenge(r)
  BY <1>14, <1>0, RespondType, ChallengeType DEF RestoreChallenge, TypeOK
<1>15. CASE RestoreChallengeFails(r)
  <2>1. /\ chal' \in [Challenge -> ChallengeState]
        /\ chalSurvivors' \in [Challenge -> SUBSET ChallengeState]
        /\ expired' \in [Challenge -> BOOLEAN]
    BY <1>15, <1>0, ChallengeType DEF RestoreChallengeFails, TypeOK
  <2>2. QED
    BY <1>15, <2>1, <1>0, RespondType DEF RestoreChallengeFails, TypeOK
<1>16. CASE PersistReplayState(r)
  BY <1>16, <1>0
     DEF PersistReplayState, Goto, Continue, TypeOK, Control, Critical
<1>17. CASE PersistReplayStateFails(r)
  BY <1>17, <1>0
     DEF PersistReplayStateFails, Goto, Continue, TypeOK, Control, Critical
<1>18. CASE SyncReplayState(r)
  <2>1. CASE RequireChallenge
    BY <1>18, <2>1, <1>0
       DEF SyncReplayState, Goto, Continue, TypeOK, Control, Critical
  <2>2. CASE ~RequireChallenge
    BY <1>18, <2>2, <1>0, RespondType DEF SyncReplayState, TypeOK
  <2>3. QED
    BY <2>1, <2>2
<1>19. CASE SyncReplayStateFails(r)
  BY <1>19, <1>0
     DEF SyncReplayStateFails, Goto, Continue, TypeOK, Control, Critical
<1>20. CASE Rollback(r)
  <2>1. CASE RequireChallenge
    BY <1>20, <2>1, <1>0
       DEF Rollback, Goto, Continue, TypeOK, Control, Critical
  <2>2. CASE ~RequireChallenge
    BY <1>20, <2>2, <1>0, RespondType DEF Rollback, TypeOK
  <2>3. QED
    BY <2>1, <2>2
<1>21. CASE ConsumeChallenge(r)
  BY <1>21, <1>0, RespondType, ChallengeType DEF ConsumeChallenge, TypeOK
<1>22. CASE ConsumeChallengeFails(r)
  <2>1. /\ chal' \in [Challenge -> ChallengeState]
        /\ chalSurvivors' \in [Challenge -> SUBSET ChallengeState]
        /\ expired' \in [Challenge -> BOOLEAN]
    BY <1>22, <1>0, ChallengeType DEF ConsumeChallengeFails, TypeOK
  <2>2. QED
    BY <1>22, <2>1, <1>0, RespondType DEF ConsumeChallengeFails, TypeOK
<1>23. QED
  BY <1>1, <1>2, <1>3, <1>4, <1>5, <1>6, <1>7, <1>8, <1>9, <1>10, <1>11,
     <1>12, <1>13, <1>14, <1>15, <1>16, <1>17, <1>18, <1>19, <1>20, <1>21,
     <1>22 DEF HandlerStep

(* Everything that is not a step of a handler, by the name of its action.  *)
OtherStep ==
    \/ \E r \in Req, p \in Proc, x \in Receipt, c \in Challenge :
           Receive(r, p, x, c)
    \/ \E r \in Req, p \in Proc : ReceiveUndecodable(r, p)
    \/ \E p \in Proc, c \in Challenge : IssueChallenge(p, c)
    \/ \E p \in Proc, c \in Challenge : IssueChallengeFails(p, c)
    \/ \E c \in Challenge : ExpireChallenge(c)
    \/ \E p \in Proc : Crash(p)
    \/ PowerLoss
    \/ \E p \in Proc : StartProcess(p)
    \/ \E r \in Req : Cancel(r)
    \/ \E p \in Proc : LateRename(p)

LEMMA StopType ==
    ASSUME TypeOK, NEW P \in SUBSET Proc, StopProcesses(P)
    PROVE  /\ up' \in [Proc -> BOOLEAN]
           /\ mem' \in [Proc -> ReplayMap]
           /\ mutex' \in [Proc -> Req \cup {NoReq}]
           /\ flock' \in Req \cup {NoReq}
           /\ inFlight' \in [Proc -> SUBSET ReplayMap]
           /\ pc' \in [Req -> Control]
           /\ answer' \in [Req -> Answer]
           /\ prev' \in [Req -> ReplayMap]
           /\ UNCHANGED payloadVars
<1> USE Constants DEF TypeOK, StopProcesses
<1>1. up' \in [Proc -> BOOLEAN] /\ mem' \in [Proc -> ReplayMap]
  OBVIOUS
<1>2. /\ mutex' \in [Proc -> Req \cup {NoReq}]
      /\ flock' \in Req \cup {NoReq}
      /\ inFlight' \in [Proc -> SUBSET ReplayMap]
  OBVIOUS
<1>3. pc' \in [Req -> Control] /\ answer' \in [Req -> Answer]
  BY DEF Control, Answer
<1>4. prev' \in [Req -> ReplayMap] /\ UNCHANGED payloadVars
  OBVIOUS
<1>5. QED
  BY <1>1, <1>2, <1>3, <1>4

LEMMA OtherType ==
    ASSUME TypeOK, OtherStep PROVE TypeOK'
<1> USE DEF stateVars, chalVars, payloadVars, procVars
<1>0. "lost" \in Answer /\ {"available", "stray"} \subseteq ChallengeState
  BY DEF Answer, ChallengeState
<1>1. ASSUME NEW r \in Req, NEW p \in Proc, NEW x \in Receipt,
             NEW c \in Challenge, Receive(r, p, x, c)
      PROVE  TypeOK'
  BY <1>1 DEF Receive, Goto, Continue, TypeOK, Control, Lateness
<1>2. ASSUME NEW r \in Req, NEW p \in Proc, ReceiveUndecodable(r, p)
      PROVE  TypeOK'
  BY <1>2 DEF ReceiveUndecodable, TypeOK, Control, Answer
<1>3. ASSUME NEW p \in Proc, NEW c \in Challenge, IssueChallenge(p, c)
      PROVE  TypeOK'
  BY <1>3, <1>0, ChallengeType DEF IssueChallenge, TypeOK
<1>4. ASSUME NEW p \in Proc, NEW c \in Challenge, IssueChallengeFails(p, c)
      PROVE  TypeOK'
  BY <1>4, <1>0, ChallengeType DEF IssueChallengeFails, TypeOK
<1>5. ASSUME NEW c \in Challenge, ExpireChallenge(c) PROVE TypeOK'
  BY <1>5 DEF ExpireChallenge, TypeOK, Lateness
<1>6. ASSUME NEW p \in Proc, Crash(p) PROVE TypeOK'
  BY <1>6, StopType DEF Crash, TypeOK
<1>7. ASSUME PowerLoss PROVE TypeOK'
  <2>1. /\ stateFile' \in ReplayMap \cup {NoFile}
        /\ stateSurvivors' \in SUBSET (ReplayMap \cup {NoFile})
    BY <1>7 DEF PowerLoss, TypeOK
  <2>2. chal' \in [Challenge -> ChallengeState] /\ expired' = expired
    BY <1>7 DEF PowerLoss
  <2>3. chalSurvivors' \in [Challenge -> SUBSET ChallengeState]
    BY <1>7, <2>2 DEF PowerLoss
  <2>4. StopProcesses(Proc)
    BY <1>7 DEF PowerLoss
  <2>5. QED
    BY <2>1, <2>2, <2>3, <2>4, StopType DEF TypeOK
<1>8. ASSUME NEW p \in Proc, StartProcess(p) PROVE TypeOK'
  BY <1>8, Constants DEF StartProcess, TypeOK
<1>9. ASSUME NEW r \in Req, Cancel(r) PROVE TypeOK'
  <2>1. inFlight' \in [Proc -> SUBSET ReplayMap]
    BY <1>9 DEF Cancel, TypeOK
  <2>2. QED
    BY <1>9, <1>0, <2>1, RespondType DEF Cancel, TypeOK
<1>10. ASSUME NEW p \in Proc, LateRename(p) PROVE TypeOK'
  BY <1>10 DEF LateRename, TypeOK
<1>11. QED
  BY <1>1, <1>2, <1>3, <1>4, <1>5, <1>6, <1>7, <1>8, <1>9, <1>10
     DEF OtherStep

LEMMA NextCases ==
    ASSUME [Next]_vars
    PROVE  (\E r \in Req : HandlerStep(r)) \/ OtherStep \/ UNCHANGED vars
BY DEF Next, OtherStep

(* Every reachable state of the service has the types of TypeOK: locks are *)
(* held by requests, files hold replay maps, and a handler is always at    *)
(* one of its control states.                                              *)
THEOREM TypeCorrect == Spec => []TypeOK
<1>1. ASSUME TypeOK, [Next]_vars PROVE TypeOK'
  <2>1. CASE UNCHANGED vars
    BY <1>1, <2>1 DEF vars, TypeOK
  <2>2. QED
    BY <1>1, <2>1, HandlerType, OtherType, NextCases
<1>2. QED
  BY <1>1, InitType, PTL DEF Spec

-----------------------------------------------------------------------------
(* Mutual exclusion of the transaction.                                    *)

LEMMA LockRespond ==
    ASSUME TypeOK, LockInv, NEW r \in Req, NEW a \in Answer, Respond(r, a),
           up' = up, home' = home
    PROVE  LockInv'
BY DEF LockInv, TypeOK, Respond, Critical

(* A handler inside the transaction moves on, or one enters it.            *)
LEMMA LockGoto ==
    ASSUME TypeOK, LockInv, NEW r \in Req, NEW label \in Control,
           Goto(r, label), pc[r] \notin {"idle", "done"}, flock' = flock,
           label \in Critical => flock = r,
           label \notin {"idle", "done"}, UNCHANGED <<answer, up, home>>
    PROVE  LockInv'
BY DEF LockInv, TypeOK, Goto

LEMMA LockHandler ==
    ASSUME TypeOK, LockInv, NEW r \in Req, HandlerStep(r) PROVE LockInv'
<1> USE DEF stateVars, chalVars, payloadVars, procVars
<1>0. /\ {"valid", "invalid", "rejected", "error", "lost"} \subseteq Answer
      /\ {"flock"} \cup Critical \subseteq Control
      /\ pc[r] \in Critical => flock = r
  BY DEF Answer, Control, LockInv
<1>1. CASE LockReplayGuard(r)
  BY <1>1, <1>0, LockGoto DEF LockReplayGuard, Critical
<1>2. CASE AcquireReplayLock(r)
  BY <1>2, Constants
     DEF AcquireReplayLock, Goto, LockInv, TypeOK, Critical
<1>3. CASE \/ AcquireReplayLockFails(r) \/ ReloadStateFails(r)
           \/ ReserveChallengeUnsynced(r) \/ RejectExpiredChallenge(r)
           \/ RejectUnknownChallenge(r) \/ VerifyErrs(r)
           \/ RestoreChallenge(r) \/ RestoreChallengeFails(r)
           \/ ConsumeChallenge(r) \/ ConsumeChallengeFails(r)
  <2>1. \E a \in Answer : Respond(r, a)
    BY <1>3, <1>0 DEF AcquireReplayLockFails, ReloadStateFails,
       ReserveChallengeUnsynced, RejectExpiredChallenge,
       RejectUnknownChallenge, VerifyErrs, RestoreChallenge,
       RestoreChallengeFails, ConsumeChallenge, ConsumeChallengeFails
  <2>2. up' = up /\ home' = home
    BY <1>3 DEF AcquireReplayLockFails, ReloadStateFails,
       ReserveChallengeUnsynced, RejectExpiredChallenge,
       RejectUnknownChallenge, VerifyErrs, RestoreChallenge,
       RestoreChallengeFails, ConsumeChallenge, ConsumeChallengeFails
  <2>3. QED
    BY <2>1, <2>2, LockRespond
<1>4. CASE \/ ReloadState(r) \/ SkipReservation(r) \/ ReserveChallenge(r)
           \/ VerifyPasses(r) \/ PersistReplayState(r)
           \/ PersistReplayStateFails(r) \/ SyncReplayStateFails(r)
  <2>1. /\ \E label \in Critical : Goto(r, label)
        /\ pc[r] \in Critical
        /\ UNCHANGED <<flock, answer, up, home>>
    BY <1>4 DEF ReloadState, SkipReservation, ReserveChallenge, VerifyPasses,
       PersistReplayState, PersistReplayStateFails, SyncReplayStateFails,
       Continue, Critical
  <2>2. {"idle", "done"} \cap Critical = {}
    BY DEF Critical
  <2>3. QED
    BY <2>1, <2>2, <1>0, LockGoto
<1>5. CASE VerifyRefuses(r) \/ SyncReplayState(r) \/ Rollback(r)
  <2>1. /\ \/ \E label \in Critical : Goto(r, label) /\ Continue
           \/ \E a \in Answer : Respond(r, a)
        /\ pc[r] \in Critical
        /\ UNCHANGED <<up, home>>
    BY <1>5, <1>0 DEF VerifyRefuses, SyncReplayState, Rollback, Critical
  <2>2. {"idle", "done"} \cap Critical = {}
    BY DEF Critical
  <2>3. QED
    BY <2>1, <2>2, <1>0, LockGoto, LockRespond DEF Continue
<1>6. QED
  BY <1>1, <1>2, <1>3, <1>4, <1>5 DEF HandlerStep

LEMMA LockStop ==
    ASSUME TypeOK, LockInv, NEW P \in SUBSET Proc, StopProcesses(P)
    PROVE  LockInv'
<1>1. ASSUME NEW r \in Req, pc'[r] \notin {"idle", "done"}
      PROVE  /\ pc[r] = pc'[r] /\ home'[r] = home[r] /\ home[r] \notin P
             /\ up'[home[r]] = up[home[r]]
             /\ answer'[r] = answer[r]
  BY <1>1 DEF StopProcesses, TypeOK, payloadVars
<1>2. ASSUME NEW r \in Req, pc'[r] \in Critical PROVE flock' = r
  BY <1>1, <1>2 DEF StopProcesses, LockInv, Critical
<1>3. ASSUME NEW r \in Req, answer'[r] # "none" PROVE pc'[r] = "done"
  BY <1>3 DEF StopProcesses, LockInv, TypeOK
<1>4. QED
  BY <1>1, <1>2, <1>3 DEF LockInv

LEMMA LockOther ==
    ASSUME TypeOK, LockInv, OtherStep PROVE LockInv'
<1> USE DEF stateVars, chalVars, payloadVars, procVars
<1>1. ASSUME NEW r \in Req, NEW p \in Proc, NEW x \in Receipt,
             NEW c \in Challenge, Receive(r, p, x, c)
      PROVE  LockInv'
  BY <1>1 DEF Receive, Goto, Continue, TypeOK, LockInv, Critical
<1>2. ASSUME NEW r \in Req, NEW p \in Proc, ReceiveUndecodable(r, p)
      PROVE  LockInv'
  BY <1>2 DEF ReceiveUndecodable, TypeOK, LockInv, Critical
<1>3. ASSUME NEW p \in Proc, NEW c \in Challenge,
             IssueChallenge(p, c) \/ IssueChallengeFails(p, c)
      PROVE  LockInv'
  BY <1>3 DEF IssueChallenge, IssueChallengeFails, LockInv
<1>4. ASSUME NEW c \in Challenge, ExpireChallenge(c) PROVE LockInv'
  BY <1>4 DEF ExpireChallenge, LockInv
<1>5. ASSUME NEW p \in Proc, Crash(p) PROVE LockInv'
  BY <1>5, LockStop DEF Crash
<1>6. ASSUME PowerLoss PROVE LockInv'
  BY <1>6, LockStop DEF PowerLoss
<1>7. ASSUME NEW p \in Proc, StartProcess(p) PROVE LockInv'
  BY <1>7 DEF StartProcess, TypeOK, LockInv
<1>8. ASSUME NEW r \in Req, Cancel(r) PROVE LockInv'
  BY <1>8, LockRespond DEF Cancel, Answer
<1>9. ASSUME NEW p \in Proc, LateRename(p) PROVE LockInv'
  BY <1>9 DEF LateRename, LockInv
<1>10. QED
  BY <1>1, <1>2, <1>3, <1>4, <1>5, <1>6, <1>7, <1>8, <1>9 DEF OtherStep

LEMMA LockInit == Init => LockInv
BY DEF Init, LockInv, Critical

LEMMA LockNext ==
    ASSUME TypeOK, LockInv, [Next]_vars PROVE LockInv'
<1>1. CASE UNCHANGED vars
  BY <1>1 DEF vars, LockInv
<1>2. QED
  BY <1>1, LockHandler, LockOther, NextCases

(* Whoever is inside the transaction holds the file lock, and its process  *)
(* is up, whatever fails.                                                  *)
LEMMA LockAlways == Spec => []LockInv
<1>1. ASSUME TypeOK, LockInv, [Next]_vars PROVE LockInv'
  BY <1>1, LockNext
<1>2. QED
  BY <1>1, LockInit, TypeCorrect, PTL DEF Spec

-----------------------------------------------------------------------------
(* One-time challenges.  This part holds under every fault, a failed stat  *)
(* and a cancelled handler included.                                       *)

ChallengeSafe == ChallengeInv /\ ChallengeAcceptedOnce

(* A step that leaves the challenge files alone, and starts no holding and *)
(* no acceptance.                                                          *)
LEMMA ChallengeKeep ==
    ASSUME TypeOK, ChallengeSafe, UNCHANGED <<chalVars, payloadVars>>,
           \A s \in Req : pc'[s] \in Holding => pc[s] \in Holding,
           Accepted' \subseteq Accepted
    PROVE  ChallengeSafe'
BY DEF ChallengeSafe, ChallengeInv, ChallengeAcceptedOnce, chalVars,
       payloadVars, Accepted

(* A step that settles or changes the file of one challenge c, which no    *)
(* other handler holds and no accepted request used, and that starts no    *)
(* acceptance; afterwards only a handler r may hold c.                     *)
LEMMA ChallengeWrite ==
    ASSUME TypeOK, ChallengeSafe, UNCHANGED <<payloadVars>>,
           NEW c \in Challenge, NEW t \in ChallengeState,
           SetChallengeSynced(c, t) \/ SetChallengeUnsynced(c, t),
           Accepted' \subseteq Accepted,
           RequireChallenge =>
               /\ \A s \in Accepted : nonce[s] # c
               /\ \A s \in Req : pc'[s] \in Holding =>
                      pc[s] \in Holding /\ nonce[s] # c
    PROVE  ChallengeSafe'
<1> USE DEF payloadVars, Accepted
<1>1. expired' = expired
  BY DEF SetChallengeSynced, SetChallengeUnsynced
<1>2. ASSUME NEW d \in Challenge, d # c
      PROVE  /\ chal'[d] = chal[d]
             /\ chalSurvivors'[d] \in {chalSurvivors[d], {chal[d]}}
  BY <1>2 DEF SetChallengeSynced, SetChallengeUnsynced, TypeOK
<1>3. ASSUME NEW r \in Req, late'[r] # "no" PROVE expired'[nonce'[r]]
  BY <1>1, <1>3 DEF ChallengeSafe, ChallengeInv
<1>4. ASSUME RequireChallenge, NEW r \in Req, pc'[r] \in Holding
      PROVE  /\ chal'[nonce'[r]] = "reserved"
             /\ chalSurvivors'[nonce'[r]] = {"reserved"}
             /\ late'[r] = "no"
  BY <1>2, <1>4 DEF ChallengeSafe, ChallengeInv, TypeOK
<1>5. ASSUME RequireChallenge, NEW r \in Accepted'
      PROVE  /\ chal'[nonce'[r]] = "gone"
             /\ chalSurvivors'[nonce'[r]] = {"gone"}
             /\ late'[r] = "no"
  BY <1>2, <1>5 DEF ChallengeSafe, ChallengeInv, TypeOK
<1>6. ChallengeAcceptedOnce'
  BY DEF ChallengeSafe, ChallengeAcceptedOnce
<1>7. QED
  BY <1>3, <1>4, <1>5, <1>6 DEF ChallengeSafe, ChallengeInv

(* No other handler holds a reservation while r is in the transaction.     *)
LEMMA HoldingAlone ==
    ASSUME LockInv, NEW r \in Req, pc[r] \in Critical,
           NEW s \in Req, pc[s] \in Holding
    PROVE  s = r
BY DEF LockInv, Holding

(* Leaving the handler with an answer other than valid.                    *)
LEMMA RefusalAccepts ==
    ASSUME TypeOK, NEW r \in Req, NEW a \in Answer \ {"valid"}, Respond(r, a)
    PROVE  /\ Accepted' \subseteq Accepted
           /\ \A s \in Req : pc'[s] \in Critical => pc[s] \in Critical /\ s # r
           /\ \A s \in Req : s # r => pc'[s] = pc[s] /\ answer'[s] = answer[s]
BY DEF Respond, TypeOK, Accepted, Critical

LEMMA ChallengeHandler ==
    ASSUME TypeOK, LockInv, ChallengeSafe, NEW r \in Req, HandlerStep(r)
    PROVE  ChallengeSafe'
<1> USE DEF stateVars, payloadVars, procVars
<1>0. /\ nonce[r] \in Challenge
      /\ {"invalid", "rejected", "error", "lost"} \subseteq Answer \ {"valid"}
      /\ {"available", "reserved", "gone", "stray"} \subseteq ChallengeState
  BY DEF TypeOK, Answer, ChallengeState
<1>1. CASE \/ LockReplayGuard(r) \/ AcquireReplayLock(r) \/ ReloadState(r)
           \/ VerifyPasses(r) \/ PersistReplayState(r)
           \/ PersistReplayStateFails(r) \/ SyncReplayStateFails(r)
  <2>1. /\ UNCHANGED <<chalVars, payloadVars, answer>>
        /\ \A s \in Req : pc'[s] \in Holding => pc[s] \in Holding
    BY <1>1 DEF LockReplayGuard, AcquireReplayLock, ReloadState, VerifyPasses,
       PersistReplayState, PersistReplayStateFails, SyncReplayStateFails,
       Goto, Continue, TypeOK, Holding, Critical
  <2>2. QED
    BY <2>1, ChallengeKeep DEF Accepted
<1>2. CASE \/ AcquireReplayLockFails(r) \/ ReloadStateFails(r)
           \/ RejectUnknownChallenge(r) \/ VerifyErrs(r)
  <2>1. UNCHANGED <<chalVars, payloadVars>>
    BY <1>2 DEF AcquireReplayLockFails, ReloadStateFails,
       RejectUnknownChallenge, VerifyErrs
  <2>2. Respond(r, "error") \/ Respond(r, "rejected")
    BY <1>2 DEF AcquireReplayLockFails, ReloadStateFails,
       RejectUnknownChallenge, VerifyErrs
  <2>3. \A s \in Req : pc'[s] \in Holding => pc[s] \in Holding
    BY <2>2 DEF Respond, TypeOK, Holding, Critical
  <2>4. QED
    BY <2>1, <2>2, <2>3, <1>0, RefusalAccepts, ChallengeKeep
<1>3. CASE SkipReservation(r)
  BY <1>3 DEF SkipReservation, ChallengeSafe, ChallengeInv, chalVars,
     ChallengeAcceptedOnce, Continue, Accepted
<1>4. CASE ReserveChallenge(r)
  <2>1. ASSUME NEW s \in Req, pc'[s] \in Holding PROVE s = r
    BY <1>4, <2>1, HoldingAlone
       DEF ReserveChallenge, Goto, TypeOK, Critical
  <2>2. /\ chal'[nonce[r]] = "reserved" /\ late[r] = "no"
        /\ chalSurvivors'[nonce[r]] = {"reserved"}
    BY <1>4, <1>0
       DEF ReserveChallenge, SetChallengeSynced, TypeOK, ChallengeSafe,
           ChallengeInv
  <2>3. ASSUME NEW s \in Accepted
        PROVE  /\ chal'[nonce[s]] = "gone" /\ late[s] = "no"
               /\ chalSurvivors'[nonce[s]] = {"gone"}
    BY <1>4, <1>0, <2>3
       DEF ReserveChallenge, SetChallengeSynced, TypeOK, ChallengeSafe,
           ChallengeInv, Accepted
  <2>4. UNCHANGED <<payloadVars, answer, expired>>
    BY <1>4 DEF ReserveChallenge, Continue, SetChallengeSynced
  <2>5. QED
    BY <2>1, <2>2, <2>3, <2>4
       DEF ChallengeSafe, ChallengeInv, ChallengeAcceptedOnce, Accepted
<1>5. CASE \/ ReserveChallengeUnsynced(r) \/ RejectExpiredChallenge(r)
           \/ RestoreChallenge(r) \/ RestoreChallengeFails(r)
           \/ ConsumeChallengeFails(r)
  <2>1. /\ pc[r] \in Critical
        /\ UNCHANGED payloadVars
        /\ \E a \in Answer \ {"valid"} : Respond(r, a)
    BY <1>5, <1>0 DEF ReserveChallengeUnsynced, RejectExpiredChallenge,
       RestoreChallenge, RestoreChallengeFails, ConsumeChallengeFails,
       Critical
  <2>2. \/ \E t \in ChallengeState : \/ SetChallengeSynced(nonce[r], t)
                                      \/ SetChallengeUnsynced(nonce[r], t)
        \/ UNCHANGED chalVars
    BY <1>5, <1>0 DEF ReserveChallengeUnsynced, RejectExpiredChallenge,
       RestoreChallenge, RestoreChallengeFails, ConsumeChallengeFails
  <2>3. RequireChallenge => chal[nonce[r]] \in {"available", "reserved"}
    BY <1>5 DEF ReserveChallengeUnsynced, RejectExpiredChallenge,
       RestoreChallenge, RestoreChallengeFails, ConsumeChallengeFails,
       ChallengeSafe, ChallengeInv, Holding, Critical
  <2>4. RequireChallenge => \A s \in Accepted : nonce[s] # nonce[r]
    BY <2>3 DEF ChallengeSafe, ChallengeInv
  <2>5. \A s \in Req : pc'[s] \notin Holding
    BY <2>1, HoldingAlone, RefusalAccepts DEF Holding, Respond, TypeOK
  <2>6. Accepted' \subseteq Accepted
    BY <2>1, RefusalAccepts
  <2>7. QED
    BY <2>1, <2>2, <2>4, <2>5, <2>6, <1>0, ChallengeKeep, ChallengeWrite
<1>6. CASE VerifyRefuses(r) \/ Rollback(r)
  <2>1. /\ UNCHANGED <<chalVars, payloadVars>>
        /\ pc[r] \in Holding
        /\ \/ Continue /\ (Goto(r, "restore") \/ Goto(r, "undo"))
           \/ \E a \in Answer \ {"valid"} : Respond(r, a)
    BY <1>6, <1>0 DEF VerifyRefuses, Rollback, Holding, Critical
  <2>2. CASE Continue /\ (Goto(r, "restore") \/ Goto(r, "undo"))
    <3>1. \A s \in Req : pc'[s] \in Holding => pc[s] \in Holding
      BY <2>1, <2>2 DEF Goto, TypeOK
    <3>2. QED
      BY <2>1, <2>2, <3>1, ChallengeKeep DEF Continue, Accepted
  <2>3. CASE \E a \in Answer \ {"valid"} : Respond(r, a)
    <3>1. \A s \in Req : pc'[s] \in Holding => pc[s] \in Holding
      BY <2>3 DEF Respond, TypeOK, Holding, Critical
    <3>2. QED
      BY <2>1, <2>3, <3>1, RefusalAccepts, ChallengeKeep
  <2>4. QED
    BY <2>1, <2>2, <2>3
<1>7. CASE SyncReplayState(r)
  <2>1. CASE RequireChallenge
    <3>1. /\ UNCHANGED <<chalVars, payloadVars, answer>>
          /\ \A s \in Req : pc'[s] \in Holding => pc[s] \in Holding
      BY <1>7, <2>1
         DEF SyncReplayState, Goto, Continue, TypeOK, Holding, Critical
    <3>2. QED
      BY <3>1, ChallengeKeep DEF Accepted
  <2>2. CASE ~RequireChallenge
    BY <1>7, <2>2 DEF SyncReplayState, ChallengeSafe, ChallengeInv, chalVars,
       ChallengeAcceptedOnce
  <2>3. QED
    BY <2>1, <2>2
<1>8. CASE ConsumeChallenge(r)
  <2>1. /\ pc[r] \in Critical /\ pc[r] \in Holding
        /\ Respond(r, "valid") /\ SetChallengeSynced(nonce[r], "gone")
        /\ UNCHANGED payloadVars
    BY <1>8 DEF ConsumeChallenge, Critical, Holding
  <2>2. \A s \in Req : pc'[s] \notin Holding
    BY <2>1, HoldingAlone DEF Respond, TypeOK, Holding, Critical
  <2>3. Accepted' \subseteq Accepted \cup {r}
    BY <2>1 DEF Respond, TypeOK, Accepted
  <2>4. ASSUME RequireChallenge
        PROVE  chal[nonce[r]] = "reserved" /\ late[r] = "no"
    BY <2>1, <2>4 DEF ChallengeSafe, ChallengeInv
  <2>5. ASSUME RequireChallenge, NEW s \in Accepted
        PROVE  nonce[s] # nonce[r]
    BY <2>4, <2>5 DEF ChallengeSafe, ChallengeInv
  <2>6. ASSUME RequireChallenge, NEW s \in Accepted'
        PROVE  /\ chal'[nonce[s]] = "gone" /\ late[s] = "no"
               /\ chalSurvivors'[nonce[s]] = {"gone"}
    BY <2>1, <2>3, <2>4, <2>5, <2>6, <1>0
       DEF SetChallengeSynced, TypeOK, ChallengeSafe, ChallengeInv, Accepted
  <2>7. ChallengeAcceptedOnce'
    BY <2>1, <2>3, <2>5 DEF ChallengeSafe, ChallengeAcceptedOnce
  <2>8. UNCHANGED <<payloadVars, expired>>
    BY <2>1 DEF SetChallengeSynced
  <2>9. QED
    BY <2>2, <2>6, <2>7, <2>8 DEF ChallengeSafe, ChallengeInv
<1>9. QED
  BY <1>1, <1>2, <1>3, <1>4, <1>5, <1>6, <1>7, <1>8 DEF HandlerStep

(* Stopping processes ends handlers and accepts nothing.                   *)
LEMMA StopQuiet ==
    ASSUME TypeOK, NEW P \in SUBSET Proc, StopProcesses(P)
    PROVE  /\ \A s \in Req : pc'[s] \in Critical =>
                  pc'[s] = pc[s] /\ home[s] \notin P
           /\ \A s \in Req : pc'[s] \in Holding => pc[s] \in Holding
           /\ Accepted' \subseteq Accepted
           /\ UNCHANGED payloadVars
BY DEF StopProcesses, TypeOK, Accepted, Holding, Critical

LEMMA ChallengeOther ==
    ASSUME TypeOK, LockInv, ChallengeSafe, OtherStep PROVE ChallengeSafe'
<1> USE DEF stateVars, payloadVars, procVars
<1>1. ASSUME NEW r \in Req, NEW p \in Proc, NEW x \in Receipt,
             NEW c \in Challenge, Receive(r, p, x, c)
      PROVE  ChallengeSafe'
  <2>1. /\ UNCHANGED <<chalVars, answer>>
        /\ \A s \in Req : s # r => late'[s] = late[s] /\ nonce'[s] = nonce[s]
        /\ \A s \in Req : pc'[s] \in Holding => pc[s] \in Holding /\ s # r
        /\ late'[r] # "no" => expired[c]
        /\ nonce'[r] = c
    BY <1>1 DEF Receive, Goto, Continue, TypeOK, Holding, Critical
  <2>2. Accepted' = Accepted /\ r \notin Accepted
    BY <1>1, <2>1 DEF Receive, LockInv, Accepted
  <2>3. QED
    BY <2>1, <2>2
       DEF ChallengeSafe, ChallengeInv, ChallengeAcceptedOnce, chalVars, Accepted
<1>2. ASSUME NEW r \in Req, NEW p \in Proc, ReceiveUndecodable(r, p)
      PROVE  ChallengeSafe'
  <2>1. /\ UNCHANGED <<chalVars, payloadVars>>
        /\ \A s \in Req : pc'[s] \in Holding => pc[s] \in Holding
        /\ Accepted' \subseteq Accepted
    BY <1>2 DEF ReceiveUndecodable, TypeOK, Holding, Critical, Accepted
  <2>2. QED
    BY <2>1, ChallengeKeep
<1>3. ASSUME NEW p \in Proc, NEW c \in Challenge,
             IssueChallenge(p, c) \/ IssueChallengeFails(p, c)
      PROVE  ChallengeSafe'
  <2>1. /\ UNCHANGED <<payloadVars, pc, answer>>
        /\ chal[c] = "none"
        /\ \E t \in ChallengeState : \/ SetChallengeSynced(c, t)
                                     \/ SetChallengeUnsynced(c, t)
    BY <1>3 DEF IssueChallenge, IssueChallengeFails, ChallengeState
  <2>2. RequireChallenge =>
            /\ \A s \in Accepted : nonce[s] # c
            /\ \A s \in Req : pc[s] \in Holding => nonce[s] # c
    BY <2>1 DEF ChallengeSafe, ChallengeInv
  <2>3. QED
    BY <2>1, <2>2, ChallengeWrite DEF Accepted
<1>4. ASSUME NEW c \in Challenge, ExpireChallenge(c) PROVE ChallengeSafe'
  <2>1. /\ UNCHANGED <<nonce, pc, answer, chal, chalSurvivors>>
        /\ expired'[c] /\ \A d \in Challenge : expired[d] => expired'[d]
    BY <1>4 DEF ExpireChallenge, TypeOK
  <2>2. ASSUME NEW s \in Req, late'[s] # late[s]
        PROVE  nonce[s] = c /\ pc[s] \in Unreserved
    BY <1>4, <2>2 DEF ExpireChallenge, TypeOK
  <2>3. ASSUME NEW s \in Req, pc[s] \in Holding \/ s \in Accepted
        PROVE  late'[s] = late[s]
    BY <2>2, <2>3 DEF LockInv, Holding, Critical, Unreserved, Accepted
  <2>4. QED
    BY <2>1, <2>2, <2>3
       DEF ChallengeSafe, ChallengeInv, ChallengeAcceptedOnce, Accepted, TypeOK
<1>5. ASSUME NEW p \in Proc, Crash(p) PROVE ChallengeSafe'
  BY <1>5, StopQuiet, ChallengeKeep DEF Crash
<1>6. ASSUME PowerLoss PROVE ChallengeSafe'
  <2>1. StopProcesses(Proc) /\ expired' = expired
    BY <1>6 DEF PowerLoss
  <2>2. \A s \in Req : pc'[s] \notin Holding
    BY <2>1, StopQuiet DEF Holding, TypeOK
  <2>3. ASSUME NEW c \in Challenge, chalSurvivors[c] = {"gone"}
        PROVE  chal'[c] = "gone" /\ chalSurvivors'[c] = {"gone"}
    BY <1>6, <2>3 DEF PowerLoss
  <2>4. Accepted' \subseteq Accepted /\ UNCHANGED payloadVars
    BY <2>1, StopQuiet
  <2>5. QED
    BY <2>1, <2>2, <2>3, <2>4
       DEF ChallengeSafe, ChallengeInv, ChallengeAcceptedOnce, TypeOK, Accepted
<1>7. ASSUME NEW p \in Proc, StartProcess(p) \/ LateRename(p)
      PROVE  ChallengeSafe'
  <2>1. UNCHANGED <<chalVars, payloadVars, pc, answer>>
    BY <1>7 DEF StartProcess, LateRename
  <2>2. QED
    BY <2>1, ChallengeKeep DEF Accepted
<1>8. ASSUME NEW r \in Req, Cancel(r) PROVE ChallengeSafe'
  <2>1. /\ UNCHANGED <<chalVars, payloadVars>> /\ Respond(r, "lost")
        /\ "lost" \in Answer \ {"valid"}
    BY <1>8 DEF Cancel, Answer
  <2>2. \A s \in Req : pc'[s] \in Holding => pc[s] \in Holding
    BY <2>1 DEF Respond, TypeOK, Holding, Critical
  <2>3. QED
    BY <2>1, <2>2, RefusalAccepts, ChallengeKeep
<1>9. QED
  BY <1>1, <1>2, <1>3, <1>4, <1>5, <1>6, <1>7, <1>8 DEF OtherStep

LEMMA ChallengeNext ==
    ASSUME TypeOK, LockInv, ChallengeSafe, [Next]_vars PROVE ChallengeSafe'
<1>1. CASE UNCHANGED vars
  BY <1>1, ChallengeKeep DEF vars, chalVars, payloadVars, Accepted
<1>2. QED
  BY <1>1, ChallengeHandler, ChallengeOther, NextCases

LEMMA ChallengeInit == Init => ChallengeSafe
BY DEF Init, ChallengeSafe, ChallengeInv, ChallengeAcceptedOnce, Accepted,
       Holding, Critical

(* The reservation of a running handler is settled on disk and was made in *)
(* time, and an accepted challenge is gone for good, whatever fails:       *)
(* processes, the host's power, any system call, any client.               *)
THEOREM ChallengesSettled == Spec => [](ChallengeInv /\ ChallengeAcceptedOnce)
<1> DEFINE IInv == LockInv /\ ChallengeSafe
<1>1. Init => IInv
  BY LockInit, ChallengeInit
<1>2. ASSUME TypeOK, IInv, [Next]_vars PROVE IInv'
  BY <1>2, LockNext, ChallengeNext
<1>3. IInv => ChallengeInv /\ ChallengeAcceptedOnce
  BY DEF ChallengeSafe
<1>4. QED
  BY <1>1, <1>2, <1>3, TypeCorrect, PTL DEF Spec

(* An issued challenge answers for at most one accepted receipt.           *)
THEOREM OneTimeChallenge == Spec => []ChallengeAcceptedOnce
  BY ChallengesSettled, PTL

(* No power loss brings back the file of a challenge that was accepted.    *)
THEOREM SpentForGood == Spec => []SpentChallengeStaysSpent
<1>1. ChallengeInv => SpentChallengeStaysSpent
  BY DEF ChallengeInv, SpentChallengeStaysSpent
<1>2. QED
  BY <1>1, ChallengesSettled, PTL

(* A request whose challenge expired before the request reserved it, on    *)
(* its way in or in a queue for one of the locks, is never accepted.       *)
THEOREM LateRefused == Spec => []LateNeverAccepted
<1>1. ChallengeInv => LateNeverAccepted
  BY DEF ChallengeInv, LateNeverAccepted
<1>2. QED
  BY <1>1, ChallengesSettled, PTL

-----------------------------------------------------------------------------
(* Each sequence number is accepted once.  Two faults are left out: a      *)
(* failed stat makes a process check against a stale map, and a cancelled  *)
(* handler may rename its file after it gave the lock back.  With either   *)
(* the theorem is false.                                                   *)

NoStaleWriters == "stat" \notin Faults /\ "cancel" \notin Faults

ReplaySafe == ReplayInv /\ AcceptedOnce

(* The control states ReplayInv speaks of.                                 *)
Tracked == {"reserve", "verify", "persist", "fsync", "consume"}

(* A step that leaves the file, what survives, and what the tracked        *)
(* handlers see of the map alone, and accepts nothing.                     *)
LEMMA ReplayKeep ==
    ASSUME TypeOK, ReplaySafe, UNCHANGED <<stateVars, home, receipt, nonce>>,
           \A p \in Proc : inFlight'[p] = {},
           Accepted' \subseteq Accepted,
           \A s \in Req : pc'[s] \in Tracked =>
               pc'[s] = pc[s] /\ mem'[home[s]] = mem[home[s]]
    PROVE  ReplaySafe'
<1> USE DEF stateVars, payloadVars, Tracked, Records
<1>1. /\ \A p \in Proc : inFlight'[p] = {}
      /\ stateFile' \in stateSurvivors'
      /\ \A r \in Req : pc'[r] \in {"reserve", "verify"} /\ stateFile' # NoFile
                            => mem'[home'[r]] = stateFile'
  BY DEF ReplaySafe, ReplayInv
<1>2. ASSUME NEW r \in Req, pc'[r] \in {"persist", "fsync", "consume"},
             NEW s \in Accepted',
             IdentityOf[receipt'[s]] = IdentityOf[receipt'[r]]
      PROVE  SeqOf[receipt'[s]] < SeqOf[receipt'[r]]
  BY <1>2 DEF ReplaySafe, ReplayInv
<1>3. ASSUME NEW r \in Req, pc'[r] = "persist", NEW s \in Accepted' \cup {r}
      PROVE  Records(mem[home[r]], s)'
  BY <1>3 DEF ReplaySafe, ReplayInv
<1>4. /\ \A r \in Req : pc'[r] = "fsync" => Records(stateFile, r)'
      /\ \A r \in Req : pc'[r] = "consume" =>
             \A m \in stateSurvivors' : Records(m, r)'
  BY DEF ReplaySafe, ReplayInv
<1>5. AcceptedIsDurable' /\ AcceptedOnce'
  BY DEF ReplaySafe, ReplayInv, AcceptedIsDurable, AcceptedOnce
<1>6. QED
  BY <1>1, <1>2, <1>3, <1>4, <1>5 DEF ReplaySafe, ReplayInv

(* Leaving the transaction without an acceptance keeps ReplaySafe, even    *)
(* when the map of r's process changes, since no other handler is in it.   *)
LEMMA ReplayRefuse ==
    ASSUME TypeOK, LockInv, ReplaySafe, NEW r \in Req,
           UNCHANGED <<stateVars, payloadVars, inFlight>>,
           \A p \in Proc \ {home[r]} : mem'[p] = mem[p],
           pc[r] \in Critical \/ mem' = mem,
           \/ \E a \in Answer \ {"valid"} : Respond(r, a)
           \/ \E label \in Control \ Tracked : Goto(r, label) /\ answer' = answer
    PROVE  ReplaySafe'
<1>1. Accepted' \subseteq Accepted
  BY RefusalAccepts DEF Accepted
<1>2. \A s \in Req : s # r => pc'[s] = pc[s]
  BY DEF Respond, Goto, TypeOK
<1>3. pc'[r] \notin Tracked
  BY DEF Respond, Goto, TypeOK, Tracked
<1>4. ASSUME NEW s \in Req, pc'[s] \in Tracked
      PROVE  pc'[s] = pc[s] /\ mem'[home[s]] = mem[home[s]]
  <2>1. s # r /\ pc'[s] = pc[s]
    BY <1>2, <1>3, <1>4
  <2>2. pc[s] \in Critical
    BY <1>4, <2>1 DEF Tracked, Critical
  <2>3. pc[r] \notin Critical
    BY <2>1, <2>2 DEF LockInv
  <2>4. QED
    BY <2>1, <2>3
<1>5. \A p \in Proc : inFlight'[p] = {}
  BY DEF ReplaySafe, ReplayInv
<1>6. QED
  BY <1>1, <1>4, <1>5, ReplayKeep DEF payloadVars

(* The sequence check passes on a map that records everything accepted.    *)
LEMMA ReplayVerify ==
    ASSUME TypeOK, LockInv, ReplaySafe, NEW r \in Req, VerifyPasses(r)
    PROVE  ReplaySafe'
<1> USE DEF stateVars, payloadVars, procVars
<1> DEFINE id == IdentityOf[receipt[r]]
           sq == SeqOf[receipt[r]]
           old == mem[home[r]]
           new == mem'[home[r]]
<1>0. /\ home[r] \in Proc /\ receipt[r] \in Receipt
      /\ id \in Identity /\ sq \in Nat /\ old \in ReplayMap
  BY Constants DEF TypeOK
<1>1. new = [old EXCEPT ![id] = sq] /\ new \in ReplayMap
  BY <1>0 DEF VerifyPasses, TypeOK, ReplayMap
<1>2. /\ new[id] = sq
      /\ \A i \in Identity : i # id => new[i] = old[i]
  BY <1>0, <1>1 DEF ReplayMap
<1>3. old[id] \in Int /\ ~(sq <= old[id])
  BY <1>0 DEF VerifyPasses, SequenceCheck, ReplayMap, NoSeq
<1>4. /\ pc[r] = "verify" /\ pc[r] \in Critical
      /\ \A s \in Req : s # r => pc'[s] = pc[s] /\ pc[s] \notin Critical
      /\ pc'[r] = "persist"
      /\ UNCHANGED <<stateFile, stateSurvivors, answer, receipt, home, inFlight>>
  BY DEF VerifyPasses, Goto, TypeOK, LockInv, Critical
<1>5. ASSUME NEW s \in Accepted
      PROVE  /\ Records(old, s) /\ receipt[s] \in Receipt
             /\ IdentityOf[receipt[s]] \in Identity
             /\ SeqOf[receipt[s]] \in Nat
  <2>1. Records(stateFile, s)
    BY DEF ReplaySafe, ReplayInv, AcceptedIsDurable
  <2>2. old = stateFile
    BY <2>1, <1>4 DEF ReplaySafe, ReplayInv, Records
  <2>3. QED
    BY <2>1, <2>2, Constants DEF TypeOK, Accepted
<1>6. ASSUME NEW s \in Accepted, IdentityOf[receipt[s]] = id
      PROVE  SeqOf[receipt[s]] < sq
  BY <1>0, <1>3, <1>5, <1>6 DEF Records
<1>7. ASSUME NEW s \in Accepted \cup {r}
      PROVE  new # NoFile /\ SeqOf[receipt[s]] <= new[IdentityOf[receipt[s]]]
  <2>1. new # NoFile
    BY <1>1, Constants
  <2>2. CASE s = r
    BY <2>1, <2>2, <1>0, <1>2
  <2>3. CASE s # r /\ IdentityOf[receipt[s]] = id
    BY <2>1, <2>3, <1>0, <1>2, <1>5, <1>6, <1>7
  <2>4. CASE s # r /\ IdentityOf[receipt[s]] # id
    BY <2>1, <2>4, <1>2, <1>5, <1>7 DEF Records
  <2>5. QED
    BY <2>2, <2>3, <2>4
<1>8. Accepted' = Accepted
  BY <1>4 DEF Accepted
<1>9. AcceptedIsDurable' /\ AcceptedOnce'
  BY <1>4, <1>8
     DEF ReplaySafe, ReplayInv, AcceptedIsDurable, AcceptedOnce, Records
<1>10. QED
  <2>1. \A s \in Req : pc'[s] \in Critical => s = r
    BY <1>4
  <2>2. /\ \A p \in Proc : inFlight'[p] = {}
        /\ stateFile' \in stateSurvivors'
    BY <1>4 DEF ReplaySafe, ReplayInv
  <2>3. \A s \in Req : pc'[s] \notin {"reserve", "verify", "fsync", "consume"}
    BY <2>1, <1>4 DEF Critical
  <2>4. \A s \in Req : pc'[s] = "persist" => s = r
    BY <2>1 DEF Critical
  <2>5. QED
    BY <1>4, <1>6, <1>7, <1>8, <1>9, <2>2, <2>3, <2>4
       DEF ReplaySafe, ReplayInv, Records

(* The handler answers "valid": its sequence is in all that can survive.   *)
LEMMA ReplayAccept ==
    ASSUME TypeOK, LockInv, ReplaySafe, NEW r \in Req,
           pc[r] \in {"fsync", "consume"}, Respond(r, "valid"),
           UNCHANGED <<payloadVars, stateFile, inFlight>>,
           stateSurvivors' \subseteq stateSurvivors,
           stateFile' \in stateSurvivors',
           \A m \in stateSurvivors' : Records(m, r)
    PROVE  ReplaySafe'
<1> USE DEF payloadVars
<1>1. \A s \in Req : pc'[s] \notin Critical
  BY DEF LockInv, Respond, TypeOK, Critical
<1>2. \A s \in Req : pc'[s] \notin Tracked
  BY <1>1 DEF Tracked, Critical
<1>3. Accepted' = Accepted \cup {r}
  BY DEF Respond, TypeOK, Accepted
<1>4. AcceptedIsDurable'
  BY <1>3 DEF ReplaySafe, ReplayInv, AcceptedIsDurable, Records
<1>5. AcceptedOnce'
  <2>1. \A s \in Accepted \cup {r} : SeqOf[receipt[s]] \in Nat
    BY Constants DEF TypeOK, Accepted
  <2>2. \A s \in Accepted :
            IdentityOf[receipt[s]] = IdentityOf[receipt[r]]
                => SeqOf[receipt[s]] < SeqOf[receipt[r]]
    BY DEF ReplaySafe, ReplayInv
  <2>3. QED
    BY <1>3, <2>1, <2>2 DEF ReplaySafe, AcceptedOnce
<1>6. QED
  BY <1>2, <1>4, <1>5 DEF ReplaySafe, ReplayInv, Tracked

LEMMA ReplayHandler ==
    ASSUME NoStaleWriters, TypeOK, LockInv, ReplaySafe, NEW r \in Req,
           HandlerStep(r)
    PROVE  ReplaySafe'
<1> USE DEF stateVars, payloadVars, procVars
<1>0. /\ home[r] \in Proc
      /\ {"invalid", "rejected", "error", "lost"} \subseteq Answer \ {"valid"}
      /\ {"flock", "reload", "restore", "rollback", "undo"}
              \subseteq Control \ Tracked
  BY DEF TypeOK, Answer, Control, Critical, Tracked
<1>1. CASE \/ AcquireReplayLockFails(r) \/ ReloadStateFails(r)
           \/ ReserveChallengeUnsynced(r) \/ RejectExpiredChallenge(r)
           \/ RejectUnknownChallenge(r) \/ VerifyErrs(r)
           \/ RestoreChallenge(r) \/ RestoreChallengeFails(r)
           \/ ConsumeChallengeFails(r)
  <2>1. /\ \E a \in Answer \ {"valid"} : Respond(r, a)
        /\ UNCHANGED <<stateVars, payloadVars, inFlight, mem>>
    BY <1>1, <1>0 DEF AcquireReplayLockFails, ReloadStateFails,
       ReserveChallengeUnsynced, RejectExpiredChallenge,
       RejectUnknownChallenge, VerifyErrs, RestoreChallenge,
       RestoreChallengeFails, ConsumeChallengeFails
  <2>2. QED
    BY <2>1, ReplayRefuse
<1>2. CASE \/ LockReplayGuard(r) \/ AcquireReplayLock(r)
           \/ PersistReplayStateFails(r) \/ SyncReplayStateFails(r)
  <2>1. /\ \E label \in Control \ Tracked : Goto(r, label) /\ answer' = answer
        /\ UNCHANGED <<stateVars, payloadVars, inFlight, mem>>
    BY <1>2, <1>0 DEF LockReplayGuard, AcquireReplayLock,
       PersistReplayStateFails, SyncReplayStateFails, Continue
  <2>2. QED
    BY <2>1, ReplayRefuse
<1>3. CASE VerifyRefuses(r) \/ Rollback(r)
  <2>1. /\ \/ \E a \in Answer \ {"valid"} : Respond(r, a)
           \/ \E label \in Control \ Tracked :
                  Goto(r, label) /\ answer' = answer
        /\ UNCHANGED <<stateVars, payloadVars, inFlight>>
        /\ pc[r] \in Critical
    BY <1>3, <1>0 DEF VerifyRefuses, Rollback, Continue, Critical
  <2>2. \A p \in Proc \ {home[r]} : mem'[p] = mem[p]
    BY <1>3 DEF VerifyRefuses, Rollback, TypeOK
  <2>3. QED
    BY <2>1, <2>2, ReplayRefuse
<1>4. CASE ReloadState(r)
  <2>1. /\ UNCHANGED <<stateVars, payloadVars, inFlight, answer>>
        /\ \A s \in Req : s # r => pc'[s] = pc[s] /\ pc[s] \notin Critical
        /\ pc'[r] = "reserve"
        /\ stateFile # NoFile => mem'[home[r]] = stateFile
    BY <1>4, <1>0 DEF ReloadState, Goto, Continue, TypeOK, LockInv, Critical,
       NoStaleWriters, MayFail
  <2>2. \A s \in Req : pc'[s] \in Tracked => s = r
    BY <2>1 DEF Tracked, Critical
  <2>3. Accepted' = Accepted
    BY <2>1 DEF Accepted
  <2>4. QED
    BY <2>1, <2>2, <2>3
       DEF ReplaySafe, ReplayInv, AcceptedIsDurable, AcceptedOnce, Records,
           Tracked
<1>5. CASE SkipReservation(r) \/ ReserveChallenge(r)
  <2>1. /\ UNCHANGED <<stateVars, payloadVars, inFlight, answer, mem>>
        /\ \A s \in Req : s # r => pc'[s] = pc[s] /\ pc[s] \notin Critical
        /\ pc[r] = "reserve" /\ pc'[r] = "verify"
    BY <1>5 DEF SkipReservation, ReserveChallenge, Goto, Continue, TypeOK,
       LockInv, Critical
  <2>2. \A s \in Req : pc'[s] \in Tracked => s = r
    BY <2>1 DEF Tracked, Critical
  <2>3. Accepted' = Accepted
    BY <2>1 DEF Accepted
  <2>4. QED
    BY <2>1, <2>2, <2>3
       DEF ReplaySafe, ReplayInv, AcceptedIsDurable, AcceptedOnce, Records,
           Tracked
<1>6. CASE VerifyPasses(r)
  BY <1>6, ReplayVerify
<1>7. CASE PersistReplayState(r)
  <2>1. /\ UNCHANGED <<payloadVars, inFlight, answer, mem>>
        /\ \A s \in Req : s # r => pc'[s] = pc[s] /\ pc[s] \notin Critical
        /\ pc[r] = "persist" /\ pc'[r] = "fsync"
        /\ stateFile' = mem[home[r]]
        /\ stateSurvivors' = stateSurvivors \cup {mem[home[r]]}
    BY <1>7 DEF PersistReplayState, Goto, Continue, TypeOK, LockInv, Critical
  <2>2. \A s \in Req : pc'[s] \in Tracked => s = r
    BY <2>1 DEF Tracked, Critical
  <2>3. Accepted' = Accepted
    BY <2>1 DEF Accepted
  <2>4. AcceptedIsDurable' /\ AcceptedOnce'
    BY <2>1, <2>3 DEF ReplaySafe, ReplayInv, AcceptedIsDurable, AcceptedOnce,
       Records
  <2>5. Records(stateFile, r)'
    BY <2>1 DEF ReplaySafe, ReplayInv, Records
  <2>6. QED
    BY <2>1, <2>2, <2>3, <2>4, <2>5
       DEF ReplaySafe, ReplayInv, Records, Tracked
<1>8. CASE SyncReplayState(r)
  <2>1. /\ stateFile' = stateFile /\ stateSurvivors' = {stateFile}
        /\ UNCHANGED <<payloadVars, inFlight, mem>>
        /\ pc[r] = "fsync" /\ Records(stateFile, r)
        /\ stateSurvivors' \subseteq stateSurvivors
    BY <1>8 DEF SyncReplayState, ReplaySafe, ReplayInv
  <2>2. CASE ~RequireChallenge
    BY <1>8, <2>1, <2>2, ReplayAccept DEF SyncReplayState
  <2>3. CASE RequireChallenge
    <3>1. /\ \A s \in Req : s # r => pc'[s] = pc[s] /\ pc[s] \notin Critical
          /\ pc'[r] = "consume" /\ answer' = answer
      BY <1>8, <2>3
         DEF SyncReplayState, Goto, Continue, TypeOK, LockInv, Critical
    <3>2. \A s \in Req : pc'[s] \in Tracked => s = r
      BY <3>1 DEF Tracked, Critical
    <3>3. Accepted' = Accepted
      BY <3>1 DEF Accepted
    <3>4. AcceptedIsDurable' /\ AcceptedOnce'
      BY <2>1, <3>3 DEF ReplaySafe, ReplayInv, AcceptedIsDurable,
         AcceptedOnce, Records
    <3>5. QED
      BY <2>1, <3>1, <3>2, <3>3, <3>4
         DEF ReplaySafe, ReplayInv, Records, Tracked
  <2>4. QED
    BY <2>2, <2>3
<1>9. CASE ConsumeChallenge(r)
  <2>1. /\ pc[r] = "consume" /\ Respond(r, "valid")
        /\ UNCHANGED <<payloadVars, stateVars, inFlight>>
    BY <1>9 DEF ConsumeChallenge
  <2>2. /\ stateFile \in stateSurvivors
        /\ \A m \in stateSurvivors : Records(m, r)
    BY <2>1 DEF ReplaySafe, ReplayInv
  <2>3. QED
    BY <2>1, <2>2, ReplayAccept
<1>10. QED
  BY <1>1, <1>2, <1>3, <1>4, <1>5, <1>6, <1>7, <1>8, <1>9 DEF HandlerStep

LEMMA ReplayOther ==
    ASSUME NoStaleWriters, TypeOK, LockInv, ReplaySafe, OtherStep
    PROVE  ReplaySafe'
<1> USE DEF stateVars, payloadVars, procVars
<1>0. \A p \in Proc : inFlight[p] = {}
  BY DEF ReplaySafe, ReplayInv
<1>1. ASSUME NEW r \in Req, NEW p \in Proc, NEW x \in Receipt,
             NEW c \in Challenge, Receive(r, p, x, c)
      PROVE  ReplaySafe'
  <2>1. /\ UNCHANGED <<stateVars, answer, mem, inFlight>>
        /\ \A s \in Req : s # r =>
               pc'[s] = pc[s] /\ receipt'[s] = receipt[s] /\ home'[s] = home[s]
        /\ pc'[r] = "mutex" /\ pc[r] = "idle"
    BY <1>1 DEF Receive, Goto, Continue, TypeOK
  <2>2. Accepted' = Accepted /\ r \notin Accepted
    BY <2>1 DEF LockInv, Accepted
  <2>3. AcceptedIsDurable' /\ AcceptedOnce'
    BY <2>1, <2>2 DEF ReplaySafe, ReplayInv, AcceptedIsDurable, AcceptedOnce,
       Records, Accepted
  <2>4. QED
    BY <2>1, <2>2, <2>3 DEF ReplaySafe, ReplayInv, Records, Accepted
<1>2. ASSUME NEW r \in Req, NEW p \in Proc, ReceiveUndecodable(r, p)
      PROVE  ReplaySafe'
  <2>1. /\ UNCHANGED <<stateVars, payloadVars, inFlight, mem>>
        /\ Accepted' \subseteq Accepted
        /\ \A s \in Req : pc'[s] \in Tracked => pc'[s] = pc[s]
    BY <1>2 DEF ReceiveUndecodable, TypeOK, Accepted, Tracked
  <2>2. QED
    BY <1>0, <2>1, ReplayKeep
<1>3. ASSUME UNCHANGED <<stateVars, home, receipt, nonce, inFlight, mem, pc,
                         answer>>
      PROVE  ReplaySafe'
  BY <1>0, <1>3, ReplayKeep DEF Accepted
<1>4. ASSUME NEW p \in Proc, NEW c \in Challenge,
             IssueChallenge(p, c) \/ IssueChallengeFails(p, c)
      PROVE  ReplaySafe'
  BY <1>3, <1>4 DEF IssueChallenge, IssueChallengeFails
<1>5. ASSUME NEW c \in Challenge, ExpireChallenge(c) PROVE ReplaySafe'
  BY <1>3, <1>5 DEF ExpireChallenge
<1>6. ASSUME NEW p \in Proc, Crash(p) PROVE ReplaySafe'
  <2>1. StopProcesses({p}) /\ UNCHANGED stateVars
    BY <1>6 DEF Crash
  <2>2. \A q \in Proc : inFlight'[q] = {}
    BY <1>0, <2>1 DEF StopProcesses
  <2>3. ASSUME NEW s \in Req, pc'[s] \in Tracked
        PROVE  pc'[s] = pc[s] /\ mem'[home[s]] = mem[home[s]]
    <3>1. pc'[s] \in Critical
      BY <2>3 DEF Tracked, Critical
    <3>2. pc'[s] = pc[s] /\ home[s] \notin {p} /\ home[s] \in Proc
      BY <2>1, <3>1, StopQuiet DEF TypeOK
    <3>3. QED
      BY <2>1, <3>2 DEF StopProcesses
  <2>4. QED
    BY <2>1, <2>2, <2>3, StopQuiet, ReplayKeep
<1>7. ASSUME PowerLoss PROVE ReplaySafe'
  <2>1. /\ StopProcesses(Proc)
        /\ stateFile' \in stateSurvivors /\ stateSurvivors' = {stateFile'}
    BY <1>7 DEF PowerLoss
  <2>2. \A s \in Req : pc'[s] \notin Tracked
    BY <2>1, StopQuiet DEF Tracked, Critical, TypeOK
  <2>3. /\ \A q \in Proc : inFlight'[q] = {}
        /\ Accepted' \subseteq Accepted /\ UNCHANGED payloadVars
    BY <2>1, StopQuiet DEF StopProcesses
  <2>4. AcceptedIsDurable' /\ AcceptedOnce'
    BY <2>1, <2>3 DEF ReplaySafe, ReplayInv, AcceptedIsDurable, AcceptedOnce,
       Records
  <2>5. QED
    BY <2>1, <2>2, <2>3, <2>4 DEF ReplaySafe, ReplayInv, Tracked
<1>8. ASSUME NEW p \in Proc, StartProcess(p) PROVE ReplaySafe'
  <2>1. /\ UNCHANGED <<stateVars, payloadVars, inFlight, pc, answer>>
        /\ ~up[p] /\ \A q \in Proc : q # p => mem'[q] = mem[q]
    BY <1>8 DEF StartProcess, TypeOK
  <2>2. ASSUME NEW s \in Req, pc'[s] \in Tracked
        PROVE  mem'[home[s]] = mem[home[s]]
    BY <2>1, <2>2 DEF LockInv, TypeOK, Tracked
  <2>3. QED
    BY <1>0, <2>1, <2>2, ReplayKeep DEF Accepted
<1>9. ASSUME NEW r \in Req, Cancel(r) PROVE ReplaySafe'
  BY <1>9 DEF Cancel, NoStaleWriters, MayFail
<1>10. ASSUME NEW p \in Proc, LateRename(p) PROVE ReplaySafe'
  BY <1>0, <1>10 DEF LateRename
<1>11. QED
  BY <1>1, <1>2, <1>4, <1>5, <1>6, <1>7, <1>8, <1>9, <1>10 DEF OtherStep

LEMMA ReplayNext ==
    ASSUME NoStaleWriters, TypeOK, LockInv, ReplaySafe, [Next]_vars
    PROVE  ReplaySafe'
<1>1. CASE UNCHANGED vars
  <2>1. \A p \in Proc : inFlight'[p] = {}
    BY <1>1 DEF vars, ReplaySafe, ReplayInv
  <2>2. QED
    BY <1>1, <2>1, ReplayKeep DEF vars, stateVars, payloadVars, Accepted
<1>2. QED
  BY <1>1, ReplayHandler, ReplayOther, NextCases

LEMMA ReplayInit == Init => ReplaySafe
<1> SUFFICES ASSUME Init PROVE ReplaySafe
  OBVIOUS
<1>1. Accepted = {}
  BY DEF Init, Accepted
<1>2. QED
  BY <1>1 DEF Init, ReplaySafe, ReplayInv, AcceptedOnce, AcceptedIsDurable

(* The transaction works on the map of the file, and a number that is to   *)
(* be accepted is above all accepted ones and on its way into the file:    *)
(* any number of processes, requests and crashes, any failing system call  *)
(* but stat, and no cancelled handler.                                     *)
THEOREM TransactionsOnTheFile ==
    ASSUME NoStaleWriters
    PROVE  Spec => [](ReplayInv /\ AcceptedOnce)
<1> DEFINE IInv == LockInv /\ ReplaySafe
<1>1. Init => IInv
  BY LockInit, ReplayInit
<1>2. ASSUME TypeOK, IInv, [Next]_vars PROVE IInv'
  BY <1>2, NoStaleWriters, LockNext, ReplayNext
<1>3. IInv => ReplayInv /\ AcceptedOnce
  BY DEF ReplaySafe
<1>4. QED
  BY <1>1, <1>2, <1>3, TypeCorrect, PTL DEF Spec

(* No sequence number of an enclave identity is accepted twice.            *)
THEOREM ReplayProtection ==
    ASSUME NoStaleWriters
    PROVE  Spec => []AcceptedOnce
  BY TransactionsOnTheFile, NoStaleWriters, PTL

(* Whatever a power loss may leave of the state file records every         *)
(* accepted sequence number.                                               *)
THEOREM AcceptedSurvives ==
    ASSUME NoStaleWriters
    PROVE  Spec => []AcceptedIsDurable
<1>1. ReplayInv => AcceptedIsDurable
  BY DEF ReplayInv
<1>2. QED
  BY <1>1, TransactionsOnTheFile, NoStaleWriters, PTL

-----------------------------------------------------------------------------
(* The map in memory.                                                      *)

(* Pointwise order of replay maps, and the map a missing file stands for.  *)
Below(m, n) == \A i \in Identity : m[i] <= n[i]
FileMap == IF stateFile = NoFile THEN EmptyMap ELSE stateFile

(* Where the map in memory may be ahead of the file.                       *)
Advanced == {"persist", "rollback"}

(* A map is ahead of the file only while its handler persists it or is     *)
(* about to put back its snapshot; the snapshot is not ahead; and what is  *)
(* persisted replaces a file that is not ahead of it, so no other process  *)
(* falls behind its own memory.                                            *)
MemInv ==
    /\ \A p \in Proc : (\A r \in Req : home[r] = p => pc[r] \notin Advanced)
                           => Below(mem[p], FileMap)
    /\ \A r \in Req : pc[r] \in {"persist", "fsync", "rollback"}
                          => Below(prev[r], FileMap)
    /\ \A r \in Req : pc[r] = "persist" => Below(FileMap, mem[home[r]])

LEMMA FileMapType == ASSUME TypeOK PROVE FileMap \in ReplayMap
BY Constants DEF TypeOK, FileMap

LEMMA BelowTransitive ==
    ASSUME NEW a \in ReplayMap, NEW b \in ReplayMap, NEW c \in ReplayMap,
           Below(a, b), Below(b, c)
    PROVE  Below(a, c)
BY DEF ReplayMap, NoSeq, Below

LEMMA BelowReflexive == ASSUME NEW a \in ReplayMap PROVE Below(a, a)
BY DEF ReplayMap, NoSeq, Below

LEMMA EmptyBelow == ASSUME NEW a \in ReplayMap PROVE Below(EmptyMap, a)
BY DEF ReplayMap, EmptyMap, NoSeq, Below

(* A step that leaves the file alone, starts no persist, no snapshot and   *)
(* no map that is ahead.                                                   *)
LEMMA MemKeep ==
    ASSUME TypeOK, TypeOK', MemInv, stateFile' = stateFile,
           \A p \in Proc : \/ mem'[p] = mem[p]
                           \/ Below(mem'[p], FileMap),
           \A s \in Req : pc'[s] \in {"persist", "fsync", "rollback"} =>
               /\ home'[s] = home[s] /\ prev'[s] = prev[s]
               /\ pc[s] \in {"persist", "fsync", "rollback"}
               /\ pc'[s] = "persist" =>
                      pc[s] = "persist" /\ mem'[home[s]] = mem[home[s]],
           \A s \in Req : pc[s] \in Advanced /\ pc'[s] \notin Advanced
                              => Below(mem'[home[s]], FileMap)
    PROVE  MemInv'
<1>1. FileMap' = FileMap
  BY DEF FileMap
<1>2. ASSUME NEW p \in Proc,
             \A r \in Req : home'[r] = p => pc'[r] \notin Advanced
      PROVE  Below(mem'[p], FileMap)
  <2>1. CASE \A r \in Req : home[r] = p => pc[r] \notin Advanced
    BY <2>1 DEF MemInv
  <2>2. ASSUME NEW r \in Req, home[r] = p, pc[r] \in Advanced
        PROVE  Below(mem'[p], FileMap)
    <3>1. CASE pc'[r] \in Advanced
      BY <1>2, <2>2, <3>1 DEF Advanced
    <3>2. QED
      BY <2>2, <3>1
  <2>3. QED
    BY <2>1, <2>2
<1>3. ASSUME NEW r \in Req, pc'[r] \in {"persist", "fsync", "rollback"}
      PROVE  Below(prev'[r], FileMap)
  BY <1>3 DEF MemInv
<1>4. ASSUME NEW r \in Req, pc'[r] = "persist"
      PROVE  Below(FileMap, mem'[home'[r]])
  BY <1>4 DEF MemInv
<1>5. QED
  BY <1>1, <1>2, <1>3, <1>4 DEF MemInv, Below

(* The transaction: only the handler that holds the lock changes the map   *)
(* of its process or the file.                                             *)
LEMMA MemHandler ==
    ASSUME NoStaleWriters, TypeOK, TypeOK', LockInv, ReplayInv, MemInv,
           NEW r \in Req, HandlerStep(r)
    PROVE  MemInv'
<1> USE DEF stateVars, payloadVars, procVars
<1>0. /\ home[r] \in Proc /\ FileMap \in ReplayMap
      /\ \A p \in Proc : mem[p] \in ReplayMap
  BY FileMapType DEF TypeOK
<1>1. CASE \/ AcquireReplayLockFails(r) \/ ReloadStateFails(r)
           \/ ReserveChallengeUnsynced(r) \/ RejectExpiredChallenge(r)
           \/ RejectUnknownChallenge(r) \/ VerifyErrs(r)
           \/ RestoreChallenge(r) \/ RestoreChallengeFails(r)
           \/ ConsumeChallenge(r) \/ ConsumeChallengeFails(r)
  <2>1. /\ \E a : Respond(r, a)
        /\ UNCHANGED <<stateFile, mem, home>> /\ pc[r] \notin Advanced
    BY <1>1 DEF AcquireReplayLockFails, ReloadStateFails,
       ReserveChallengeUnsynced, RejectExpiredChallenge,
       RejectUnknownChallenge, VerifyErrs, RestoreChallenge,
       RestoreChallengeFails, ConsumeChallenge, ConsumeChallengeFails,
       Advanced
  <2>2. /\ pc'[r] = "done"
        /\ \A s \in Req : s # r => pc'[s] = pc[s] /\ prev'[s] = prev[s]
    BY <2>1 DEF Respond, TypeOK
  <2>3. QED
    BY <2>1, <2>2, MemKeep DEF Advanced
<1>2. CASE \/ LockReplayGuard(r) \/ AcquireReplayLock(r)
           \/ SkipReservation(r) \/ ReserveChallenge(r)
           \/ SyncReplayStateFails(r) \/ PersistReplayStateFails(r)
  <2>1. /\ UNCHANGED <<stateFile, mem, home, prev>>
        /\ \A s \in Req : s # r => pc'[s] = pc[s]
        /\ pc'[r] # "persist" /\ (pc[r] \in Advanced => pc'[r] \in Advanced)
        /\ pc'[r] \in {"persist", "fsync", "rollback"}
               => pc[r] \in {"persist", "fsync", "rollback"}
    BY <1>2 DEF LockReplayGuard, AcquireReplayLock, SkipReservation,
       ReserveChallenge, SyncReplayStateFails, PersistReplayStateFails, Goto,
       Continue, TypeOK, Advanced
  <2>2. QED
    BY <2>1, MemKeep
<1>3. CASE VerifyRefuses(r)
  <2>1. /\ UNCHANGED <<stateFile, mem, home>> /\ pc[r] = "verify"
        /\ pc'[r] \in {"restore", "done"}
        /\ \A s \in Req : s # r => pc'[s] = pc[s] /\ prev'[s] = prev[s]
    BY <1>3 DEF VerifyRefuses, Goto, Respond, Continue, TypeOK
  <2>2. QED
    BY <2>1, MemKeep DEF Advanced
<1>4. CASE ReloadState(r)
  <2>1. /\ UNCHANGED <<stateFile, home, prev>> /\ pc[r] = "reload"
        /\ pc'[r] = "reserve"
        /\ \A s \in Req : s # r => pc'[s] = pc[s] /\ pc[s] \notin Critical
        /\ \A p \in Proc : mem'[p] = mem[p] \/ mem'[p] = FileMap
    BY <1>4 DEF ReloadState, Goto, Continue, TypeOK, LockInv, Critical, FileMap
  <2>2. \A s \in Req : pc'[s] \notin {"persist", "fsync", "rollback"}
    BY <2>1 DEF Critical
  <2>3. QED
    BY <2>1, <2>2, <1>0, BelowReflexive, MemKeep DEF Advanced
<1>5. CASE VerifyPasses(r)
  <2> DEFINE id == IdentityOf[receipt[r]]
             sq == SeqOf[receipt[r]]
             old == mem[home[r]]
             new == mem'[home[r]]
  <2>1. /\ id \in Identity /\ sq \in Nat /\ old \in ReplayMap
    BY <1>0, Constants DEF TypeOK
  <2>2. /\ UNCHANGED <<stateFile, home>> /\ pc[r] = "verify"
        /\ pc'[r] = "persist" /\ prev'[r] = old
        /\ \A s \in Req : s # r => pc'[s] = pc[s] /\ pc[s] \notin Critical
        /\ \A p \in Proc : p # home[r] => mem'[p] = mem[p]
        /\ new = [old EXCEPT ![id] = sq] /\ new \in ReplayMap
    BY <1>5, <1>0, <2>1
       DEF VerifyPasses, Goto, TypeOK, LockInv, Critical, ReplayMap
  <2>3. \A s \in Req : pc'[s] \in {"persist", "fsync", "rollback"} => s = r
    BY <2>2 DEF Critical
  <2>4. \A s \in Req : pc[s] \notin Advanced
    BY <2>2 DEF Critical, Advanced
  <2>5. \A p \in Proc : Below(mem[p], FileMap)
    BY <2>4 DEF MemInv
  <2>6. Below(FileMap, old)
    BY <1>0, <2>1, <2>2, BelowReflexive, EmptyBelow DEF ReplayInv, FileMap
  <2>7. Below(old, new)
    BY <1>5, <2>1, <2>2 DEF VerifyPasses, SequenceCheck, ReplayMap, NoSeq, Below
  <2>8. Below(FileMap, new)
    BY <1>0, <2>1, <2>2, <2>6, <2>7, BelowTransitive
  <2>9. FileMap' = FileMap
    BY <2>2 DEF FileMap
  <2>10. ASSUME NEW p \in Proc,
                \A s \in Req : home'[s] = p => pc'[s] \notin Advanced
         PROVE  Below(mem'[p], FileMap)
    <3>1. p # home[r]
      BY <2>2, <2>10 DEF Advanced
    <3>2. QED
      BY <2>2, <2>5, <3>1
  <2>11. QED
    BY <1>0, <2>2, <2>3, <2>5, <2>8, <2>9, <2>10 DEF MemInv, Below
<1>6. CASE PersistReplayState(r)
  <2> DEFINE new == mem[home[r]]
  <2>1. /\ UNCHANGED <<mem, home, prev>> /\ stateFile' = new
        /\ pc[r] = "persist" /\ pc'[r] = "fsync"
        /\ \A s \in Req : s # r => pc'[s] = pc[s] /\ pc[s] \notin Critical
    BY <1>6 DEF PersistReplayState, Goto, Continue, TypeOK, LockInv, Critical
  <2>2. FileMap' = new /\ new \in ReplayMap
    BY <1>0, <2>1, Constants DEF FileMap
  <2>3. Below(FileMap, new) /\ Below(prev[r], FileMap) /\ prev[r] \in ReplayMap
    BY <2>1 DEF MemInv, TypeOK
  <2>4. \A s \in Req : pc'[s] \in {"persist", "fsync", "rollback"} => s = r
    BY <2>1 DEF Critical
  <2>5. ASSUME NEW p \in Proc PROVE Below(mem[p], new)
    <3>1. CASE p = home[r]
      BY <3>1, <2>2, BelowReflexive
    <3>2. CASE p # home[r]
      <4>1. \A s \in Req : home[s] = p => pc[s] \notin Advanced
        BY <2>1, <3>2 DEF Critical, Advanced
      <4>2. Below(mem[p], FileMap)
        BY <4>1 DEF MemInv
      <4>3. QED
        BY <4>2, <2>2, <2>3, <1>0, BelowTransitive
    <3>3. QED
      BY <3>1, <3>2
  <2>6. Below(prev[r], new)
    BY <2>2, <2>3, <1>0, BelowTransitive
  <2>7. QED
    BY <2>1, <2>2, <2>4, <2>5, <2>6 DEF MemInv, Below
<1>7. CASE SyncReplayState(r)
  <2>1. /\ UNCHANGED <<stateFile, mem, home>> /\ pc[r] = "fsync"
        /\ pc'[r] \in {"consume", "done"}
        /\ \A s \in Req : s # r => pc'[s] = pc[s] /\ prev'[s] = prev[s]
    BY <1>7 DEF SyncReplayState, Goto, Respond, Continue, TypeOK
  <2>2. QED
    BY <2>1, MemKeep DEF Advanced
<1>8. CASE Rollback(r)
  <2>1. /\ UNCHANGED <<stateFile, home>> /\ pc[r] = "rollback"
        /\ pc'[r] \in {"undo", "done"}
        /\ \A s \in Req : s # r => pc'[s] = pc[s] /\ pc[s] \notin Critical
        /\ \A p \in Proc : p # home[r] => mem'[p] = mem[p]
        /\ mem'[home[r]] = prev[r]
    BY <1>8, <1>0
       DEF Rollback, Goto, Respond, Continue, TypeOK, LockInv, Critical
  <2>2. Below(prev[r], FileMap)
    BY <2>1 DEF MemInv
  <2>3. \A s \in Req : pc'[s] \notin {"persist", "fsync", "rollback"}
    BY <2>1 DEF Critical
  <2>4. \A s \in Req : pc[s] \in Advanced => s = r
    BY <2>1 DEF Critical, Advanced
  <2>5. QED
    BY <2>1, <2>2, <2>3, <2>4, MemKeep
<1>9. QED
  BY <1>1, <1>2, <1>3, <1>4, <1>5, <1>6, <1>7, <1>8 DEF HandlerStep

LEMMA MemOther ==
    ASSUME NoStaleWriters, TypeOK, TypeOK', LockInv, ReplayInv, MemInv,
           OtherStep
    PROVE  MemInv'
<1> USE DEF stateVars, payloadVars, procVars
<1>0. FileMap \in ReplayMap
  BY FileMapType
<1>1. ASSUME NEW r \in Req, NEW p \in Proc, NEW x \in Receipt,
             NEW c \in Challenge, Receive(r, p, x, c)
      PROVE  MemInv'
  <2>1. /\ UNCHANGED <<stateFile, mem, prev>> /\ pc[r] = "idle"
        /\ pc'[r] = "mutex"
        /\ \A s \in Req : s # r => pc'[s] = pc[s] /\ home'[s] = home[s]
    BY <1>1 DEF Receive, Goto, Continue, TypeOK
  <2>2. QED
    BY <2>1, MemKeep DEF Advanced
<1>2. ASSUME NEW r \in Req, NEW p \in Proc, ReceiveUndecodable(r, p)
      PROVE  MemInv'
  <2>1. /\ UNCHANGED <<stateFile, mem, prev, home>> /\ pc[r] = "idle"
        /\ pc'[r] = "done"
        /\ \A s \in Req : s # r => pc'[s] = pc[s]
    BY <1>2 DEF ReceiveUndecodable, TypeOK
  <2>2. QED
    BY <2>1, MemKeep DEF Advanced
<1>3. ASSUME UNCHANGED <<stateFile, mem, prev, home, pc>> PROVE MemInv'
  BY <1>3, MemKeep
<1>4. ASSUME NEW p \in Proc, NEW c \in Challenge,
             IssueChallenge(p, c) \/ IssueChallengeFails(p, c)
      PROVE  MemInv'
  BY <1>3, <1>4 DEF IssueChallenge, IssueChallengeFails
<1>5. ASSUME NEW c \in Challenge, ExpireChallenge(c) PROVE MemInv'
  BY <1>3, <1>5 DEF ExpireChallenge
<1>6. ASSUME NEW p \in Proc, Crash(p) PROVE MemInv'
  <2>1. /\ UNCHANGED <<stateFile, home>>
        /\ \A q \in Proc : mem'[q] = IF q = p THEN EmptyMap ELSE mem[q]
        /\ \A s \in Req : pc'[s] \in Critical =>
               pc'[s] = pc[s] /\ home[s] # p /\ prev'[s] = prev[s]
        /\ \A s \in Req : pc'[s] # pc[s] => home[s] = p
    BY <1>6 DEF Crash, StopProcesses, TypeOK, Critical
  <2>2. Below(EmptyMap, FileMap)
    BY <1>0, EmptyBelow
  <2>3. \A s \in Req : home[s] \in Proc
    BY DEF TypeOK
  <2>4. {"persist", "fsync", "rollback"} \subseteq Critical
    BY DEF Critical
  <2>5. QED
    BY <2>1, <2>2, <2>3, <2>4, MemKeep
<1>7. ASSUME PowerLoss PROVE MemInv'
  <2>1. /\ \A q \in Proc : mem'[q] = EmptyMap
        /\ \A s \in Req : pc'[s] \in {"idle", "done"}
    BY <1>7 DEF PowerLoss, StopProcesses, TypeOK
  <2>2. FileMap' \in ReplayMap
    BY Constants DEF TypeOK, FileMap
  <2>3. Below(EmptyMap, FileMap')
    BY <2>2, EmptyBelow
  <2>4. QED
    BY <2>1, <2>3 DEF MemInv, Below
<1>8. ASSUME NEW p \in Proc, StartProcess(p) PROVE MemInv'
  <2>1. /\ UNCHANGED <<stateFile, prev, home, pc>> /\ ~up[p]
        /\ \A q \in Proc : q # p => mem'[q] = mem[q]
        /\ mem'[p] = FileMap \/ mem'[p] = EmptyMap
    BY <1>8 DEF StartProcess, TypeOK, FileMap
  <2>2. Below(mem'[p], FileMap)
    BY <1>0, <2>1, BelowReflexive, EmptyBelow
  <2>3. \A s \in Req : pc[s] = "persist" => home[s] # p
    BY <2>1 DEF LockInv
  <2>4. \A s \in Req : home[s] \in Proc
    BY DEF TypeOK
  <2>5. QED
    BY <2>1, <2>2, <2>3, <2>4, MemKeep
<1>9. ASSUME NEW r \in Req, Cancel(r) PROVE MemInv'
  BY <1>9 DEF Cancel, NoStaleWriters, MayFail
<1>10. ASSUME NEW p \in Proc, LateRename(p) PROVE MemInv'
  BY <1>10 DEF LateRename, ReplayInv
<1>11. QED
  BY <1>1, <1>2, <1>4, <1>5, <1>6, <1>7, <1>8, <1>9, <1>10 DEF OtherStep

(* Between transactions the map in the memory of a process is not ahead of *)
(* the file: no failed persist leaves an advanced map behind.              *)
THEOREM MemoryFollowsFile ==
    ASSUME NoStaleWriters
    PROVE  Spec => []MemoryNotAhead
<1>1. Init => MemInv
  <2> SUFFICES ASSUME Init PROVE MemInv
    OBVIOUS
  <2>1. FileMap = EmptyMap /\ Below(EmptyMap, EmptyMap)
    BY Constants, EmptyBelow DEF Init, FileMap
  <2>2. QED
    BY <2>1 DEF Init, MemInv
<1>2. ASSUME TypeOK, TypeOK', LockInv, ReplayInv, MemInv, [Next]_vars
      PROVE  MemInv'
  <2>1. CASE UNCHANGED vars
    BY <1>2, <2>1, MemKeep DEF vars
  <2>2. QED
    BY <1>2, <2>1, NoStaleWriters, MemHandler, MemOther, NextCases
<1>3. TypeOK /\ MemInv => MemoryNotAhead
  <2> SUFFICES ASSUME TypeOK, MemInv, NEW p \in Proc,
                      \A r \in Req : home[r] = p => pc[r] \notin Critical
               PROVE  \A i \in Identity :
                          mem[p][i] <= IF stateFile = NoFile THEN NoSeq
                                                             ELSE stateFile[i]
    BY DEF MemoryNotAhead
  <2>1. Below(mem[p], FileMap)
    BY DEF MemInv, Advanced, Critical
  <2>2. QED
    BY <2>1 DEF Below, FileMap, EmptyMap
<1>4. QED
  BY <1>1, <1>2, <1>3, LockAlways, TransactionsOnTheFile, TypeCorrect,
     NoStaleWriters, PTL DEF Spec

-----------------------------------------------------------------------------
(* Challenge files, whatever fails: who left a file reserved, and that a   *)
(* file that may be gone is gone.                                          *)

(* The build without challenges touches no challenge file.                 *)
MockInv ==
    ~RequireChallenge =>
        /\ \A c \in Challenge : chal[c] = "none" /\ chalSurvivors[c] = {"none"}
        /\ \A r \in Req : pc[r] \notin {"restore", "undo", "consume"}

LEMMA MockHandler ==
    ASSUME TypeOK, MockInv, ~RequireChallenge, NEW r \in Req, HandlerStep(r)
    PROVE  UNCHANGED chalVars /\ pc'[r] \notin {"restore", "undo", "consume"}
           /\ \A s \in Req : s # r => pc'[s] = pc[s]
<1> USE DEF stateVars, payloadVars, procVars
<1>1. pc[r] \notin {"restore", "undo", "consume"}
  BY DEF MockInv
<1>2. UNCHANGED chalVars
  BY <1>1 DEF HandlerStep, LockReplayGuard, AcquireReplayLock,
     AcquireReplayLockFails, ReloadState, ReloadStateFails, SkipReservation,
     ReserveChallenge, ReserveChallengeUnsynced, RejectExpiredChallenge,
     RejectUnknownChallenge, VerifyPasses, VerifyRefuses, VerifyErrs,
     RestoreChallenge, RestoreChallengeFails, PersistReplayState,
     PersistReplayStateFails, SyncReplayState, SyncReplayStateFails, Rollback,
     ConsumeChallenge, ConsumeChallengeFails
<1>3. (\E label \in Control \ {"restore", "undo", "consume"} : Goto(r, label))
      \/ (\E a : Respond(r, a))
  BY <1>1 DEF HandlerStep, LockReplayGuard, AcquireReplayLock,
     AcquireReplayLockFails, ReloadState, ReloadStateFails, SkipReservation,
     ReserveChallenge, ReserveChallengeUnsynced, RejectExpiredChallenge,
     RejectUnknownChallenge, VerifyPasses, VerifyRefuses, VerifyErrs,
     RestoreChallenge, RestoreChallengeFails, PersistReplayState,
     PersistReplayStateFails, SyncReplayState, SyncReplayStateFails, Rollback,
     ConsumeChallenge, ConsumeChallengeFails, Control, Critical
<1>4. QED
  BY <1>2, <1>3 DEF Goto, Respond, TypeOK

LEMMA MockNext ==
    ASSUME TypeOK, MockInv, [Next]_vars PROVE MockInv'
<1> USE DEF stateVars, chalVars, payloadVars, procVars
<1> SUFFICES ASSUME ~RequireChallenge PROVE MockInv'
  BY DEF MockInv
<1>1. ASSUME NEW r \in Req, HandlerStep(r) PROVE MockInv'
  BY <1>1, MockHandler DEF MockInv
<1>2. ASSUME UNCHANGED <<chal, chalSurvivors>>,
             \A s \in Req : pc'[s] \in Critical => pc'[s] = pc[s]
      PROVE  MockInv'
  BY <1>2 DEF MockInv, Critical
<1>3. ASSUME NEW r \in Req, NEW p \in Proc, NEW x \in Receipt,
             NEW c \in Challenge,
             Receive(r, p, x, c) \/ ReceiveUndecodable(r, p)
      PROVE  MockInv'
  <2>1. \A s \in Req : pc'[s] \in Critical => pc'[s] = pc[s]
    BY <1>3 DEF Receive, ReceiveUndecodable, Goto, TypeOK, Critical
  <2>2. QED
    BY <1>2, <1>3, <2>1 DEF Receive, ReceiveUndecodable
<1>4. ASSUME NEW p \in Proc, NEW c \in Challenge,
             IssueChallenge(p, c) \/ IssueChallengeFails(p, c)
      PROVE  FALSE
  BY <1>4 DEF IssueChallenge, IssueChallengeFails
<1>5. ASSUME NEW p \in Proc, Crash(p) PROVE MockInv'
  BY <1>2, <1>5, StopQuiet DEF Crash
<1>6. ASSUME PowerLoss PROVE MockInv'
  <2>1. \A s \in Req : pc'[s] \in {"idle", "done"}
    BY <1>6 DEF PowerLoss, StopProcesses, TypeOK
  <2>2. \A c \in Challenge : chal'[c] = "none" /\ chalSurvivors'[c] = {"none"}
    BY <1>6 DEF PowerLoss, MockInv
  <2>3. QED
    BY <2>1, <2>2 DEF MockInv
<1>7. ASSUME NEW r \in Req, Cancel(r) PROVE MockInv'
  <2>1. \A s \in Req : pc'[s] \in Critical => pc'[s] = pc[s]
    BY <1>7 DEF Cancel, Respond, TypeOK, Critical
  <2>2. QED
    BY <1>2, <1>7, <2>1 DEF Cancel
<1>8. CASE UNCHANGED vars \/ (\E c \in Challenge : ExpireChallenge(c))
           \/ (\E p \in Proc : StartProcess(p) \/ LateRename(p))
  BY <1>2, <1>8 DEF vars, ExpireChallenge, StartProcess, LateRename
<1>9. ASSUME NEW r \in Req, NEW p \in Proc, ReceiveUndecodable(r, p)
      PROVE  MockInv'
  BY <1>3, <1>9, InhabitedAssumption
<1>10. QED
  BY <1>1, <1>3, <1>4, <1>5, <1>6, <1>7, <1>8, <1>9, NextCases DEF OtherStep

(* A request that explains a reserved file: it works on it, or it ended    *)
(* with an error or without an answer.                                     *)
Explains(r) == pc[r] \in Critical \/ answer[r] \in {"rejected", "error", "lost"}

(* A power loss may leave the file reserved, or has left it so.            *)
MaybeReserved(c) == chal[c] = "reserved" \/ "reserved" \in chalSurvivors[c]

(* All that a handler does to challenge files, and to who explains them.   *)
ChallengeEffect(r) ==
    LET c == nonce[r]
    IN  \/ /\ UNCHANGED chalVars
           /\ \/ Explains(r) => Explains(r)'
              \/ ~RequireChallenge
        \/ /\ chal[c] = "available" /\ Explains(r)'
           /\ \/ SetChallengeSynced(c, "reserved")
              \/ \E t \in {"reserved", "gone"} : SetChallengeUnsynced(c, t)
        \/ /\ chal[c] = "reserved"
           /\ \E t \in {"available", "gone"} :
                  /\ t = "gone" => pc[r] = "consume"
                  /\ \/ SetChallengeSynced(c, t)
                     \/ SetChallengeUnsynced(c, t) /\ Explains(r)'

LEMMA HandlerEffect ==
    ASSUME TypeOK, ChallengeInv, MockInv, NEW r \in Req, HandlerStep(r)
    PROVE  /\ nonce' = nonce
           /\ \A s \in Req : s # r => pc'[s] = pc[s] /\ answer'[s] = answer[s]
           /\ ChallengeEffect(r)
<1> USE DEF stateVars, payloadVars, procVars
<1>0. pc[r] \in {"restore", "undo", "consume"} => chal[nonce[r]] = "reserved"
  BY DEF ChallengeInv, MockInv, Holding, Critical
<1>1. CASE \/ AcquireReplayLockFails(r) \/ ReloadStateFails(r)
           \/ RejectUnknownChallenge(r) \/ VerifyErrs(r)
  <2>1. /\ UNCHANGED <<chalVars, nonce>>
        /\ Respond(r, "error") \/ Respond(r, "rejected")
    BY <1>1 DEF AcquireReplayLockFails, ReloadStateFails,
       RejectUnknownChallenge, VerifyErrs
  <2>2. QED
    BY <2>1 DEF Respond, TypeOK, ChallengeEffect, Explains
<1>2. CASE \/ LockReplayGuard(r) \/ AcquireReplayLock(r) \/ ReloadState(r)
           \/ SkipReservation(r) \/ VerifyPasses(r) \/ PersistReplayState(r)
           \/ PersistReplayStateFails(r) \/ SyncReplayStateFails(r)
  <2>1. /\ UNCHANGED <<chalVars, nonce, answer>>
        /\ \E label \in Critical \cup {"flock"} : Goto(r, label)
        /\ pc[r] \in Critical => \E label \in Critical : Goto(r, label)
    BY <1>2 DEF LockReplayGuard, AcquireReplayLock, ReloadState,
       SkipReservation, VerifyPasses, PersistReplayState,
       PersistReplayStateFails, SyncReplayStateFails, Continue, Critical
  <2>2. QED
    BY <2>1 DEF Goto, TypeOK, ChallengeEffect, Explains
<1>3. CASE VerifyRefuses(r) \/ Rollback(r) \/ SyncReplayState(r)
  <2>1. UNCHANGED <<chalVars, nonce>>
    BY <1>3 DEF VerifyRefuses, Rollback, SyncReplayState
  <2>2. CASE RequireChallenge
    <3>1. /\ answer' = answer
          /\ \E label \in Critical : Goto(r, label)
      BY <1>3, <2>2 DEF VerifyRefuses, Rollback, SyncReplayState, Continue,
         Critical
    <3>2. QED
      BY <2>1, <3>1 DEF Goto, TypeOK, ChallengeEffect, Explains
  <2>3. CASE ~RequireChallenge
    <3>1. \E a : Respond(r, a)
      BY <1>3, <2>3 DEF VerifyRefuses, Rollback, SyncReplayState
    <3>2. QED
      BY <2>1, <2>3, <3>1 DEF Respond, TypeOK, ChallengeEffect
  <2>4. QED
    BY <2>2, <2>3
<1>4. CASE ReserveChallenge(r)
  <2>1. /\ chal[nonce[r]] = "available" /\ nonce' = nonce /\ answer' = answer
        /\ SetChallengeSynced(nonce[r], "reserved") /\ Goto(r, "verify")
    BY <1>4 DEF ReserveChallenge, Continue
  <2>2. QED
    BY <2>1 DEF Goto, TypeOK, ChallengeEffect, Explains, Critical
<1>5. CASE ReserveChallengeUnsynced(r) \/ RejectExpiredChallenge(r)
  <2>1. /\ chal[nonce[r]] = "available" /\ nonce' = nonce
        /\ Respond(r, "rejected")
        /\ \/ UNCHANGED chalVars
           \/ \E t \in {"reserved", "gone"} :
                  SetChallengeUnsynced(nonce[r], t)
    BY <1>5 DEF ReserveChallengeUnsynced, RejectExpiredChallenge
  <2>2. QED
    BY <2>1 DEF Respond, TypeOK, ChallengeEffect, Explains
<1>6. CASE RestoreChallenge(r) \/ ConsumeChallenge(r)
  <2>1. /\ chal[nonce[r]] = "reserved" /\ nonce' = nonce
        /\ \E a : Respond(r, a)
        /\ \E t \in {"available", "gone"} :
               /\ t = "gone" => pc[r] = "consume"
               /\ SetChallengeSynced(nonce[r], t)
    BY <1>0, <1>6 DEF RestoreChallenge, ConsumeChallenge
  <2>2. QED
    BY <2>1 DEF Respond, TypeOK, ChallengeEffect
<1>7. CASE RestoreChallengeFails(r) \/ ConsumeChallengeFails(r)
  <2>1. /\ chal[nonce[r]] = "reserved" /\ nonce' = nonce
        /\ Respond(r, "error")
        /\ \/ UNCHANGED chalVars
           \/ \E t \in {"available", "gone"} :
                  /\ t = "gone" => pc[r] = "consume"
                  /\ SetChallengeUnsynced(nonce[r], t)
    BY <1>0, <1>7 DEF RestoreChallengeFails, ConsumeChallengeFails
  <2>2. QED
    BY <2>1 DEF Respond, TypeOK, ChallengeEffect, Explains
<1>8. QED
  BY <1>1, <1>2, <1>3, <1>4, <1>5, <1>6, <1>7 DEF HandlerStep

(* A reserved file, also one that a power loss may bring back, is          *)
(* explained by a request; a file that may be gone after a power loss is   *)
(* gone already.                                                           *)
FilesInv ==
    /\ \A c \in Challenge : MaybeReserved(c) =>
           \E r \in Req : nonce[r] = c /\ Explains(r)
    /\ \A c \in Challenge : "gone" \in chalSurvivors[c] => chal[c] = "gone"

(* What a write to the file of c means for what may survive.               *)
LEMMA WriteSurvivors ==
    ASSUME TypeOK, NEW c \in Challenge, NEW t, NEW d \in Challenge,
           SetChallengeSynced(c, t) \/ SetChallengeUnsynced(c, t)
    PROVE  /\ chal'[d] = IF d = c THEN t ELSE chal[d]
           /\ MaybeReserved(d)' =>
                  MaybeReserved(d) \/ (d = c /\ t = "reserved")
           /\ "gone" \in chalSurvivors'[d] =>
                  \/ "gone" \in chalSurvivors[d]
                  \/ d = c /\ t = "gone"
                  \/ d # c /\ chal[d] = "gone"
           /\ SetChallengeSynced(c, t) /\ d = c => chalSurvivors'[d] = {t}
BY DEF TypeOK, SetChallengeSynced, SetChallengeUnsynced, MaybeReserved

(* A file that is not gone is written: no file may be gone but those that  *)
(* are.                                                                    *)
LEMMA GoneKept ==
    ASSUME TypeOK, FilesInv, NEW c \in Challenge, NEW t, chal[c] # "gone",
           SetChallengeSynced(c, t) \/ SetChallengeUnsynced(c, t),
           NEW d \in Challenge, "gone" \in chalSurvivors'[d]
    PROVE  chal'[d] = "gone"
<1>1. /\ chal'[d] = IF d = c THEN t ELSE chal[d]
      /\ \/ "gone" \in chalSurvivors[d]
         \/ d = c /\ t = "gone"
         \/ d # c /\ chal[d] = "gone"
  BY WriteSurvivors
<1>2. "gone" \in chalSurvivors[d] => chal[d] = "gone"
  BY DEF FilesInv
<1>3. QED
  BY <1>1, <1>2

LEMMA FilesHandler ==
    ASSUME TypeOK, ChallengeInv, MockInv, FilesInv, NEW r \in Req,
           HandlerStep(r)
    PROVE  FilesInv'
<1> DEFINE c == nonce[r]
<1>0. c \in Challenge /\ \A s \in Req : nonce[s] \in Challenge
  BY DEF TypeOK
<1>1. /\ nonce' = nonce /\ ChallengeEffect(r)
      /\ \A s \in Req : s # r => (Explains(s)' <=> Explains(s))
  BY HandlerEffect DEF Explains
<1>2. ASSUME \A d \in Challenge : MaybeReserved(d)' =>
                 \/ d = c /\ Explains(r)'
                 \/ MaybeReserved(d) /\ (d = c /\ Explains(r) => Explains(r)')
      PROVE  \A d \in Challenge : MaybeReserved(d)' =>
                 \E s \in Req : nonce'[s] = d /\ Explains(s)'
  <2> TAKE d \in Challenge
  <2> HAVE MaybeReserved(d)'
  <2>1. CASE d = c /\ Explains(r)'
    BY <1>1, <2>1
  <2>2. CASE MaybeReserved(d) /\ (d = c /\ Explains(r) => Explains(r)')
    <3>1. PICK s \in Req : nonce[s] = d /\ Explains(s)
      BY <2>2 DEF FilesInv
    <3>2. Explains(s)'
      BY <1>1, <2>2, <3>1
    <3>3. QED
      BY <1>1, <3>1, <3>2
  <2>3. QED
    BY <1>2, <2>1, <2>2
<1>3. CASE /\ UNCHANGED chalVars
           /\ (Explains(r) => Explains(r)') \/ ~RequireChallenge
  <2>1. ASSUME NEW d \in Challenge
        PROVE  /\ MaybeReserved(d)' <=> MaybeReserved(d)
               /\ "gone" \in chalSurvivors'[d] => chal'[d] = "gone"
    BY <1>3 DEF chalVars, MaybeReserved, FilesInv
  <2>2. CASE Explains(r) => Explains(r)'
    BY <1>2, <2>1, <2>2 DEF FilesInv
  <2>3. CASE ~RequireChallenge
    BY <2>1, <2>3 DEF MockInv, MaybeReserved, FilesInv
  <2>4. QED
    BY <1>3, <2>2, <2>3
<1>4. CASE /\ chal[c] = "available" /\ Explains(r)'
           /\ \/ SetChallengeSynced(c, "reserved")
              \/ \E t \in {"reserved", "gone"} : SetChallengeUnsynced(c, t)
  <2>1. PICK t \in {"reserved", "gone"} :
            SetChallengeSynced(c, t) \/ SetChallengeUnsynced(c, t)
    BY <1>4
  <2>2. \A d \in Challenge : MaybeReserved(d)' =>
            MaybeReserved(d) \/ (d = c /\ Explains(r)')
    BY <1>0, <1>4, <2>1, WriteSurvivors
  <2>3. \A d \in Challenge : "gone" \in chalSurvivors'[d] => chal'[d] = "gone"
    BY <1>0, <1>4, <2>1, GoneKept
  <2>4. QED
    BY <1>2, <1>4, <2>2, <2>3 DEF FilesInv
<1>5. ASSUME chal[c] = "reserved", NEW t \in {"available", "gone"},
             SetChallengeSynced(c, t)
      PROVE  FilesInv'
  <2>1. \A d \in Challenge : MaybeReserved(d)' => MaybeReserved(d) /\ d # c
    BY <1>0, <1>5, WriteSurvivors DEF MaybeReserved
  <2>2. \A d \in Challenge : "gone" \in chalSurvivors'[d] => chal'[d] = "gone"
    BY <1>0, <1>5, GoneKept
  <2>3. QED
    BY <1>2, <2>1, <2>2 DEF FilesInv
<1>6. ASSUME chal[c] = "reserved", NEW t \in {"available", "gone"},
             SetChallengeUnsynced(c, t), Explains(r)'
      PROVE  FilesInv'
  <2>1. \A d \in Challenge : MaybeReserved(d)' => MaybeReserved(d)
    BY <1>0, <1>6, WriteSurvivors
  <2>2. \A d \in Challenge : "gone" \in chalSurvivors'[d] => chal'[d] = "gone"
    BY <1>0, <1>6, GoneKept
  <2>3. QED
    BY <1>2, <1>6, <2>1, <2>2 DEF FilesInv
<1>7. QED
  BY <1>1, <1>3, <1>4, <1>5, <1>6 DEF ChallengeEffect

LEMMA FilesOther ==
    ASSUME TypeOK, LockInv, FilesInv, OtherStep PROVE FilesInv'
<1> USE DEF stateVars, chalVars, payloadVars, procVars
<1>1. ASSUME UNCHANGED <<chal, chalSurvivors>>,
             \A s \in Req : Explains(s) => Explains(s)' /\ nonce'[s] = nonce[s]
      PROVE  FilesInv'
  BY <1>1 DEF FilesInv, MaybeReserved
<1>2. ASSUME NEW r \in Req, NEW p \in Proc, NEW x \in Receipt,
             NEW c \in Challenge, Receive(r, p, x, c)
      PROVE  FilesInv'
  <2>1. /\ pc[r] = "idle" /\ answer' = answer
        /\ \A s \in Req : s # r => pc'[s] = pc[s] /\ nonce'[s] = nonce[s]
    BY <1>2 DEF Receive, Goto, Continue, TypeOK
  <2>2. ~Explains(r)
    BY <2>1 DEF LockInv, Explains, Critical
  <2>3. \A s \in Req : Explains(s) => Explains(s)' /\ nonce'[s] = nonce[s]
    BY <2>1, <2>2 DEF Explains
  <2>4. QED
    BY <1>1, <1>2, <2>3 DEF Receive
<1>3. ASSUME NEW r \in Req, NEW p \in Proc, ReceiveUndecodable(r, p)
      PROVE  FilesInv'
  <2>1. \A s \in Req : Explains(s) => Explains(s)'
    BY <1>3 DEF ReceiveUndecodable, Explains, TypeOK
  <2>2. QED
    BY <1>1, <1>3, <2>1 DEF ReceiveUndecodable
<1>4. ASSUME NEW p \in Proc, NEW c \in Challenge,
             IssueChallenge(p, c) \/ IssueChallengeFails(p, c)
      PROVE  FilesInv'
  <2>1. /\ UNCHANGED <<pc, answer, nonce>> /\ chal[c] = "none"
        /\ \E t \in {"available", "stray"} :
               SetChallengeSynced(c, t) \/ SetChallengeUnsynced(c, t)
    BY <1>4 DEF IssueChallenge, IssueChallengeFails
  <2>2. \A d \in Challenge : MaybeReserved(d)' => MaybeReserved(d)
    BY <2>1, WriteSurvivors
  <2>3. \A d \in Challenge : "gone" \in chalSurvivors'[d] => chal'[d] = "gone"
    BY <2>1, GoneKept
  <2>4. QED
    BY <2>1, <2>2, <2>3 DEF FilesInv, Explains
<1>5. ASSUME NEW P \in SUBSET Proc, StopProcesses(P)
      PROVE  \A s \in Req : Explains(s) => Explains(s)' /\ nonce'[s] = nonce[s]
  BY <1>5 DEF StopProcesses, Explains, TypeOK, Critical
<1>6. ASSUME NEW p \in Proc, Crash(p) PROVE FilesInv'
  BY <1>1, <1>5, <1>6 DEF Crash
<1>7. ASSUME PowerLoss PROVE FilesInv'
  <2>1. ASSUME NEW c \in Challenge
        PROVE  chal'[c] \in chalSurvivors[c] /\ chalSurvivors'[c] = {chal'[c]}
    BY <1>7 DEF PowerLoss
  <2>2. \A s \in Req : Explains(s) => Explains(s)' /\ nonce'[s] = nonce[s]
    BY <1>5, <1>7 DEF PowerLoss
  <2>3. \A c \in Challenge : MaybeReserved(c)' => MaybeReserved(c)
    BY <2>1 DEF MaybeReserved
  <2>4. QED
    BY <2>1, <2>2, <2>3 DEF FilesInv
<1>8. ASSUME NEW r \in Req, Cancel(r) PROVE FilesInv'
  <2>1. \A s \in Req : Explains(s) => Explains(s)'
    BY <1>8 DEF Cancel, Respond, Explains, TypeOK
  <2>2. QED
    BY <1>1, <1>8, <2>1 DEF Cancel
<1>9. CASE \/ \E c \in Challenge : ExpireChallenge(c)
           \/ \E p \in Proc : StartProcess(p) \/ LateRename(p)
  BY <1>1, <1>9 DEF ExpireChallenge, StartProcess, LateRename, Explains
<1>10. QED
  BY <1>2, <1>3, <1>4, <1>6, <1>7, <1>8, <1>9 DEF OtherStep

LEMMA FilesInit == Init => MockInv /\ FilesInv
BY DEF Init, MockInv, FilesInv, MaybeReserved

LEMMA FilesNext ==
    ASSUME TypeOK, LockInv, ChallengeInv, MockInv, FilesInv, [Next]_vars
    PROVE  FilesInv'
<1>1. CASE UNCHANGED vars
  BY <1>1 DEF vars, FilesInv, MaybeReserved, Explains
<1>2. QED
  BY <1>1, FilesHandler, FilesOther, NextCases

LEMMA FilesAlways == Spec => [](MockInv /\ FilesInv)
<1>1. ASSUME TypeOK, LockInv, ChallengeInv, MockInv /\ FilesInv, [Next]_vars
      PROVE  (MockInv /\ FilesInv)'
  BY <1>1, MockNext, FilesNext
<1>2. QED
  BY <1>1, FilesInit, TypeCorrect, LockAlways, ChallengesSettled, PTL DEF Spec

(* A file stays reserved only for a handler at work or one that ended      *)
(* without a verdict, whatever fails and whatever a power loss brings      *)
(* back: every 200 answer has restored or consumed its challenge for good. *)
THEOREM ReservationsExplained == Spec => []ReservedOwnedOrFailed
<1>1. FilesInv => ReservedOwnedOrFailed
  BY DEF FilesInv, MaybeReserved, ReservedOwnedOrFailed, Explains
<1>2. QED
  BY <1>1, FilesAlways, PTL

-----------------------------------------------------------------------------
(* A challenge is consumed after its receipt is safe.  Here a failed stat  *)
(* does no harm, but a handler that was cancelled does: its rename may     *)
(* replace the file another handler has just synced.                       *)

NoLateWriters == "cancel" \notin Faults

(* The way of one receipt into the file, bound to its challenge.           *)
DurableInv ==
    /\ \A p \in Proc : inFlight[p] = {}
    /\ \A r \in Req : pc[r] \in {"persist", "fsync", "consume"} =>
           NonceOf[receipt[r]] = nonce[r]
    /\ \A r \in Req : pc[r] = "persist" => Records(mem[home[r]], r)
    /\ \A r \in Req : pc[r] = "fsync" => Records(stateFile, r)
    /\ \A r \in Req : pc[r] = "consume" =>
           \A m \in stateSurvivors : Records(m, r)

(* A step that starts none of the three stages, and leaves alone what the  *)
(* handlers at them see.                                                   *)
LEMMA DurableKeep ==
    ASSUME TypeOK, DurableInv, \A p \in Proc : inFlight'[p] = {},
           \A s \in Req : pc'[s] \in {"persist", "fsync", "consume"} =>
               /\ pc'[s] = pc[s] /\ mem'[home[s]] = mem[home[s]]
               /\ home'[s] = home[s] /\ receipt'[s] = receipt[s]
               /\ nonce'[s] = nonce[s]
               /\ UNCHANGED stateVars
    PROVE  DurableInv'
BY DEF DurableInv, Records, stateVars

LEMMA DurableHandler ==
    ASSUME TypeOK, LockInv, DurableInv, NEW r \in Req, HandlerStep(r)
    PROVE  DurableInv'
<1> USE DEF payloadVars, procVars
<1> DEFINE Moving == {"persist", "fsync", "consume"}
<1>0. /\ \A p \in Proc : inFlight[p] = {}
      /\ home[r] \in Proc /\ Moving \subseteq Critical
  BY DEF DurableInv, TypeOK, Critical
<1>1. /\ inFlight' = inFlight /\ UNCHANGED payloadVars
      /\ \A s \in Req : s # r => pc'[s] = pc[s]
  BY DEF HandlerStep, LockReplayGuard, AcquireReplayLock,
     AcquireReplayLockFails, ReloadState, ReloadStateFails, SkipReservation,
     ReserveChallenge, ReserveChallengeUnsynced, RejectExpiredChallenge,
     RejectUnknownChallenge, VerifyPasses, VerifyRefuses, VerifyErrs,
     RestoreChallenge, RestoreChallengeFails, PersistReplayState,
     PersistReplayStateFails, SyncReplayState, SyncReplayStateFails, Rollback,
     ConsumeChallenge, ConsumeChallengeFails, Goto, Respond, TypeOK
<1>2. pc[r] \in Critical => \A s \in Req : s # r => pc'[s] \notin Moving
  BY <1>0, <1>1 DEF LockInv
<1>3. CASE \/ LockReplayGuard(r) \/ AcquireReplayLock(r)
           \/ AcquireReplayLockFails(r)
  <2>1. /\ pc'[r] \notin Moving /\ UNCHANGED <<mem, stateVars>>
    BY <1>3 DEF LockReplayGuard, AcquireReplayLock, AcquireReplayLockFails,
       Goto, Respond, TypeOK
  <2>2. QED
    BY <1>0, <1>1, <2>1, DurableKeep
<1>4. ASSUME pc[r] \in Critical, pc'[r] \notin Moving PROVE DurableInv'
  BY <1>0, <1>1, <1>2, <1>4, DurableKeep
<1>5. CASE VerifyPasses(r)
  <2>1. /\ pc[r] = "verify" /\ pc'[r] = "persist"
        /\ NonceOf[receipt[r]] = nonce[r]
        /\ mem'[home[r]] =
               [mem[home[r]] EXCEPT ![IdentityOf[receipt[r]]] = SeqOf[receipt[r]]]
    BY <1>0, <1>5 DEF VerifyPasses, Goto, TypeOK
  <2>2. /\ mem'[home[r]] # NoFile
        /\ SeqOf[receipt[r]] <= mem'[home[r]][IdentityOf[receipt[r]]]
    <3>1. /\ receipt[r] \in Receipt /\ mem[home[r]] \in ReplayMap
          /\ IdentityOf[receipt[r]] \in Identity /\ SeqOf[receipt[r]] \in Nat
      BY <1>0, Constants DEF TypeOK
    <3>2. mem'[home[r]] \in ReplayMap
      BY <2>1, <3>1 DEF ReplayMap
    <3>3. mem'[home[r]][IdentityOf[receipt[r]]] = SeqOf[receipt[r]]
      BY <2>1, <3>1 DEF ReplayMap
    <3>4. QED
      BY <3>1, <3>2, <3>3, Constants
  <2>3. \A s \in Req : s # r => pc'[s] \notin Moving
    BY <1>2, <2>1 DEF Critical
  <2>4. QED
    BY <1>0, <1>1, <2>1, <2>2, <2>3 DEF DurableInv, Records
<1>6. CASE PersistReplayState(r)
  <2>1. /\ pc[r] = "persist" /\ pc'[r] = "fsync"
        /\ stateFile' = mem[home[r]]
    BY <1>6 DEF PersistReplayState, Goto, TypeOK
  <2>2. \A s \in Req : s # r => pc'[s] \notin Moving
    BY <1>2, <2>1 DEF Critical
  <2>3. QED
    BY <1>0, <1>1, <2>1, <2>2 DEF DurableInv, Records
<1>7. CASE SyncReplayState(r)
  <2>1. /\ pc[r] = "fsync" /\ pc'[r] \in {"consume", "done"}
        /\ stateSurvivors' = {stateFile}
    BY <1>7 DEF SyncReplayState, Goto, Respond, TypeOK
  <2>2. \A s \in Req : s # r => pc'[s] \notin Moving
    BY <1>2, <2>1 DEF Critical
  <2>3. QED
    BY <1>0, <1>1, <2>1, <2>2 DEF DurableInv, Records
<1>8. CASE \/ ReloadState(r) \/ ReloadStateFails(r) \/ SkipReservation(r)
           \/ ReserveChallenge(r) \/ ReserveChallengeUnsynced(r)
           \/ RejectExpiredChallenge(r) \/ RejectUnknownChallenge(r)
           \/ VerifyRefuses(r) \/ VerifyErrs(r) \/ RestoreChallenge(r)
           \/ RestoreChallengeFails(r) \/ PersistReplayStateFails(r)
           \/ SyncReplayStateFails(r) \/ Rollback(r) \/ ConsumeChallenge(r)
           \/ ConsumeChallengeFails(r)
  <2>1. pc[r] \in Critical /\ pc'[r] \notin Moving
    BY <1>8 DEF ReloadState, ReloadStateFails, SkipReservation,
       ReserveChallenge, ReserveChallengeUnsynced, RejectExpiredChallenge,
       RejectUnknownChallenge, VerifyRefuses, VerifyErrs, RestoreChallenge,
       RestoreChallengeFails, PersistReplayStateFails, SyncReplayStateFails,
       Rollback, ConsumeChallenge, ConsumeChallengeFails, Goto, Respond,
       TypeOK, Critical
  <2>2. QED
    BY <1>4, <2>1
<1>9. QED
  BY <1>3, <1>5, <1>6, <1>7, <1>8 DEF HandlerStep

LEMMA DurableOther ==
    ASSUME NoLateWriters, TypeOK, LockInv, DurableInv, OtherStep
    PROVE  DurableInv'
<1> USE DEF stateVars, payloadVars, procVars
<1> DEFINE Moving == {"persist", "fsync", "consume"}
<1>0. /\ \A p \in Proc : inFlight[p] = {}
      /\ \A s \in Req : home[s] \in Proc
  BY DEF DurableInv, TypeOK
<1>1. ASSUME NEW r \in Req, NEW p \in Proc, NEW x \in Receipt,
             NEW c \in Challenge, Receive(r, p, x, c)
      PROVE  DurableInv'
  <2>1. /\ UNCHANGED <<stateVars, mem, inFlight>> /\ pc'[r] = "mutex"
        /\ \A s \in Req : s # r =>
               /\ pc'[s] = pc[s] /\ receipt'[s] = receipt[s]
               /\ home'[s] = home[s] /\ nonce'[s] = nonce[s]
    BY <1>1 DEF Receive, Goto, TypeOK
  <2>2. QED
    BY <1>0, <2>1, DurableKeep
<1>2. ASSUME NEW r \in Req, NEW p \in Proc, ReceiveUndecodable(r, p)
      PROVE  DurableInv'
  <2>1. \A s \in Req : pc'[s] \in Moving => pc'[s] = pc[s]
    BY <1>2 DEF ReceiveUndecodable, TypeOK
  <2>2. QED
    BY <1>0, <1>2, <2>1, DurableKeep DEF ReceiveUndecodable
<1>3. CASE \/ \E p \in Proc, c \in Challenge :
                  IssueChallenge(p, c) \/ IssueChallengeFails(p, c)
           \/ \E c \in Challenge : ExpireChallenge(c)
  <2>1. UNCHANGED <<stateVars, home, receipt, nonce, inFlight, mem, pc>>
    BY <1>3 DEF IssueChallenge, IssueChallengeFails, ExpireChallenge
  <2>2. QED
    BY <1>0, <2>1, DurableKeep
<1>4. ASSUME NEW p \in Proc, Crash(p) PROVE DurableInv'
  <2>1. /\ \A q \in Proc : inFlight'[q] = {}
        /\ UNCHANGED <<stateVars, payloadVars>>
        /\ \A s \in Req : pc'[s] \in Moving =>
               pc'[s] = pc[s] /\ mem'[home[s]] = mem[home[s]]
    BY <1>0, <1>4 DEF Crash, StopProcesses, TypeOK
  <2>2. QED
    BY <2>1, DurableKeep
<1>5. ASSUME PowerLoss PROVE DurableInv'
  <2>1. /\ \A q \in Proc : inFlight'[q] = {}
        /\ \A s \in Req : pc'[s] \notin Moving
    BY <1>5 DEF PowerLoss, StopProcesses, TypeOK
  <2>2. QED
    BY <2>1, DurableKeep
<1>6. ASSUME NEW p \in Proc, StartProcess(p) PROVE DurableInv'
  <2>1. /\ UNCHANGED <<stateVars, payloadVars, inFlight, pc>> /\ ~up[p]
        /\ \A q \in Proc : q # p => mem'[q] = mem[q]
    BY <1>6 DEF StartProcess, TypeOK
  <2>2. \A s \in Req : pc'[s] \in Moving => home[s] # p
    BY <2>1 DEF LockInv
  <2>3. QED
    BY <1>0, <2>1, <2>2, DurableKeep
<1>7. ASSUME NEW r \in Req, Cancel(r) PROVE FALSE
  BY <1>7 DEF Cancel, NoLateWriters, MayFail
<1>8. ASSUME NEW p \in Proc, LateRename(p) PROVE FALSE
  BY <1>0, <1>8 DEF LateRename
<1>9. QED
  BY <1>1, <1>2, <1>3, <1>4, <1>5, <1>6, <1>7, <1>8 DEF OtherStep

(* No file turns from reserved to gone but by the handler that has its     *)
(* receipt recorded.                                                       *)
LEMMA ConsumeStep ==
    ASSUME TypeOK, ChallengeInv, MockInv, FilesInv, DurableInv, Next,
           NEW c \in Challenge, chal[c] = "reserved", chal'[c] = "gone"
    PROVE  \E r \in Req : /\ pc[r] = "consume"
                          /\ nonce[r] = c /\ NonceOf[receipt[r]] = c
                          /\ \A m \in stateSurvivors : Records(m, r)
<1> USE DEF chalVars
<1>1. ASSUME NEW r \in Req, HandlerStep(r)
      PROVE  pc[r] = "consume" /\ nonce[r] = c
  <2>1. ChallengeEffect(r) /\ nonce[r] \in Challenge
    BY <1>1, HandlerEffect DEF TypeOK
  <2>2. QED
    BY <2>1, WriteSurvivors DEF ChallengeEffect
<1>2. ASSUME PowerLoss PROVE FALSE
  <2>1. chal'[c] \in chalSurvivors[c]
    BY <1>2 DEF PowerLoss
  <2>2. QED
    BY <2>1 DEF FilesInv
<1>3. ASSUME NEW p \in Proc, NEW d \in Challenge,
             IssueChallenge(p, d) \/ IssueChallengeFails(p, d)
      PROVE  FALSE
  BY <1>3, WriteSurvivors DEF IssueChallenge, IssueChallengeFails
<1>4. PICK r \in Req : HandlerStep(r)
  BY <1>2, <1>3 DEF Next, Receive, ReceiveUndecodable, ExpireChallenge, Crash,
     StartProcess, Cancel, LateRename
<1>5. QED
  BY <1>1, <1>4 DEF DurableInv

(* A challenge is consumed only for a receipt bound to it whose sequence   *)
(* is in every state file a power loss can leave: any crash, any failing   *)
(* system call, but no cancelled handler.                                  *)
THEOREM ConsumedOnlyWhenSafe ==
    ASSUME NoLateWriters
    PROVE  Spec => ConsumedAfterDurable
<1> DEFINE Safe == \A c \in Challenge :
                       chal[c] = "reserved" /\ chal'[c] = "gone" =>
                           \E r \in Req :
                               /\ pc[r] = "consume"
                               /\ nonce[r] = c /\ NonceOf[receipt[r]] = c
                               /\ \A m \in stateSurvivors : Records(m, r)
<1>1. Init => DurableInv
  BY DEF Init, DurableInv
<1>2. ASSUME TypeOK, LockInv, DurableInv, [Next]_vars PROVE DurableInv'
  <2>1. CASE UNCHANGED vars
    BY <1>2, <2>1, DurableKeep DEF vars, stateVars, DurableInv
  <2>2. QED
    BY <1>2, <2>1, NoLateWriters, DurableHandler, DurableOther, NextCases
<1>3. TypeOK /\ ChallengeInv /\ MockInv /\ FilesInv /\ DurableInv /\ [Next]_vars
          => [Safe]_vars
  BY ConsumeStep
<1>4. ConsumedAfterDurable <=> [][Safe]_vars
  BY DEF ConsumedAfterDurable
<1>5. QED
  BY <1>1, <1>2, <1>3, <1>4, TypeCorrect, LockAlways, ChallengesSettled,
     FilesAlways, NoLateWriters, PTL DEF Spec

-----------------------------------------------------------------------------
(* Refinement of the abstract ledger.                                      *)

(* A step accepts nobody, or one handler that was at the end of its        *)
(* transaction; the payload of accepted requests never changes.            *)
LEMMA AcceptStep ==
    ASSUME TypeOK, LockInv, [Next]_vars
    PROVE  /\ \A s \in Accepted : receipt'[s] = receipt[s] /\ nonce'[s] = nonce[s]
           /\ \/ Accepted' = Accepted
              \/ \E r \in Req :
                     /\ Accepted' = Accepted \cup {r}
                     /\ receipt' = receipt /\ nonce' = nonce
                     /\ pc[r] \in {"fsync", "consume"}
                     /\ RequireChallenge => pc[r] = "consume"
<1> USE DEF stateVars, chalVars, payloadVars, procVars
<1>0. \A s \in Accepted : s \in Req /\ answer[s] = "valid" /\ pc[s] = "done"
  BY DEF Accepted, LockInv
<1>1. ASSUME UNCHANGED <<answer, receipt, nonce>>
      PROVE  Accepted' = Accepted /\ receipt' = receipt /\ nonce' = nonce
  BY <1>1 DEF Accepted
<1>2. ASSUME NEW r \in Req, NEW a \in Answer \ {"valid"}, pc[r] # "done",
             Respond(r, a)
      PROVE  Accepted' = Accepted
  BY <1>0, <1>2 DEF Respond, TypeOK, Accepted
<1>3. ASSUME NEW r \in Req, HandlerStep(r)
      PROVE  /\ receipt' = receipt /\ nonce' = nonce
             /\ \/ Accepted' = Accepted
                \/ /\ Accepted' = Accepted \cup {r}
                   /\ pc[r] \in {"fsync", "consume"}
                   /\ RequireChallenge => pc[r] = "consume"
  <2>0. {"invalid", "rejected", "error", "lost"} \subseteq Answer \ {"valid"}
    BY DEF Answer
  <2>1. CASE \/ AcquireReplayLockFails(r) \/ ReloadStateFails(r)
             \/ ReserveChallengeUnsynced(r) \/ RejectExpiredChallenge(r)
             \/ RejectUnknownChallenge(r) \/ VerifyErrs(r)
             \/ RestoreChallenge(r) \/ RestoreChallengeFails(r)
             \/ ConsumeChallengeFails(r)
    <3>1. /\ \E a \in Answer \ {"valid"} : Respond(r, a)
          /\ UNCHANGED payloadVars /\ pc[r] # "done"
      BY <2>0, <2>1 DEF AcquireReplayLockFails, ReloadStateFails,
         ReserveChallengeUnsynced, RejectExpiredChallenge,
         RejectUnknownChallenge, VerifyErrs, RestoreChallenge,
         RestoreChallengeFails, ConsumeChallengeFails
    <3>2. QED
      BY <3>1, <1>2
  <2>2. CASE \/ LockReplayGuard(r) \/ AcquireReplayLock(r) \/ ReloadState(r)
             \/ SkipReservation(r) \/ ReserveChallenge(r) \/ VerifyPasses(r)
             \/ PersistReplayState(r) \/ PersistReplayStateFails(r)
             \/ SyncReplayStateFails(r)
    BY <1>1, <2>2 DEF LockReplayGuard, AcquireReplayLock, ReloadState,
       SkipReservation, ReserveChallenge, VerifyPasses, PersistReplayState,
       PersistReplayStateFails, SyncReplayStateFails, Continue
  <2>3. CASE VerifyRefuses(r) \/ Rollback(r)
    <3>1. /\ UNCHANGED payloadVars /\ pc[r] # "done"
          /\ \/ answer' = answer
             \/ \E a \in Answer \ {"valid"} : Respond(r, a)
      BY <2>0, <2>3 DEF VerifyRefuses, Rollback, Continue
    <3>2. QED
      BY <3>1, <1>1, <1>2
  <2>4. ASSUME Respond(r, "valid") PROVE Accepted' = Accepted \cup {r}
    BY <2>4 DEF Respond, TypeOK, Accepted
  <2>5. CASE SyncReplayState(r)
    BY <1>1, <2>4, <2>5 DEF SyncReplayState, Continue
  <2>6. CASE ConsumeChallenge(r)
    BY <2>4, <2>6 DEF ConsumeChallenge
  <2>7. QED
    BY <1>3, <2>1, <2>2, <2>3, <2>5, <2>6 DEF HandlerStep
<1>4. ASSUME OtherStep
      PROVE  /\ Accepted' = Accepted
             /\ \A s \in Accepted :
                    receipt'[s] = receipt[s] /\ nonce'[s] = nonce[s]
  <2>1. ASSUME NEW r \in Req, NEW p \in Proc, NEW x \in Receipt,
               NEW c \in Challenge, Receive(r, p, x, c)
        PROVE  /\ Accepted' = Accepted
               /\ \A s \in Accepted :
                      receipt'[s] = receipt[s] /\ nonce'[s] = nonce[s]
    BY <1>0, <2>1 DEF Receive, Continue, TypeOK, Accepted
  <2>2. ASSUME NEW r \in Req, NEW p \in Proc, ReceiveUndecodable(r, p)
        PROVE  Accepted' = Accepted /\ UNCHANGED payloadVars
    BY <1>0, <2>2 DEF ReceiveUndecodable, TypeOK, Accepted
  <2>3. ASSUME NEW P \in SUBSET Proc, StopProcesses(P)
        PROVE  Accepted' = Accepted /\ UNCHANGED payloadVars
    BY <1>0, <2>3 DEF StopProcesses, TypeOK, Accepted
  <2>4. ASSUME NEW r \in Req, Cancel(r)
        PROVE  Accepted' = Accepted /\ UNCHANGED payloadVars
    BY <1>2, <2>4 DEF Cancel, Answer
  <2>5. CASE UNCHANGED <<answer, receipt, nonce>>
    BY <2>5, <1>1
  <2>6. CASE \/ \E p \in Proc, c \in Challenge : IssueChallenge(p, c)
             \/ \E p \in Proc, c \in Challenge : IssueChallengeFails(p, c)
             \/ \E c \in Challenge : ExpireChallenge(c)
             \/ \E p \in Proc : StartProcess(p)
             \/ \E p \in Proc : LateRename(p)
    BY <2>5, <2>6 DEF IssueChallenge, IssueChallengeFails, ExpireChallenge,
       StartProcess, LateRename
  <2>7. QED
    BY <1>4, <2>1, <2>2, <2>3, <2>4, <2>6 DEF OtherStep, Crash, PowerLoss
<1>5. CASE UNCHANGED vars
  BY <1>5 DEF vars, Accepted
<1>6. QED
  BY <1>3, <1>4, <1>5, NextCases

(* The service implements the abstract ledger: acceptances come one at a   *)
(* time, in increasing order of the sequence numbers of each identity, and *)
(* with one-time nonces where challenges are required.                     *)
THEOREM Refinement ==
    ASSUME NoStaleWriters
    PROVE  Spec => RefinesLedger
<1> DEFINE IInv == LockInv /\ ChallengeSafe /\ ReplaySafe
<1>1. Init => Ledger!Init
  BY DEF Init, Ledger!Init, Accepted, acceptedLedger
<1>2. ASSUME TypeOK, IInv, [Next]_vars
      PROVE  [Ledger!Next]_acceptedLedger
  <2>1. \A s \in Accepted : EntryOf(s)' = EntryOf(s)
    BY <1>2, AcceptStep DEF EntryOf
  <2>2. CASE Accepted' = Accepted
    BY <2>1, <2>2 DEF acceptedLedger
  <2>3. ASSUME NEW r \in Req, Accepted' = Accepted \cup {r},
               receipt' = receipt, nonce' = nonce,
               pc[r] \in {"fsync", "consume"},
               RequireChallenge => pc[r] = "consume"
        PROVE  Ledger!Next
    <3> DEFINE e == EntryOf(r)
    <3>1. acceptedLedger' = acceptedLedger \cup {e}
      BY <2>1, <2>3 DEF acceptedLedger, EntryOf
    <3>2. e \in [req : Req, identity : Identity, seq : Nat, nonce : Challenge]
      BY <1>2, Constants DEF EntryOf, TypeOK
    <3>3. ASSUME NEW a \in acceptedLedger, a.identity = e.identity
          PROVE  a.seq < e.seq
      BY <1>2, <2>3, <3>3
         DEF acceptedLedger, EntryOf, ReplaySafe, ReplayInv
    <3>4. ASSUME RequireChallenge, NEW a \in acceptedLedger
          PROVE  a.nonce # e.nonce
      <4>1. chal[nonce[r]] = "reserved"
        BY <1>2, <2>3, <3>4
           DEF ChallengeSafe, ChallengeInv, Holding, Critical
      <4>2. PICK s \in Accepted : a = EntryOf(s)
        BY <3>4 DEF acceptedLedger
      <4>3. chal[nonce[s]] = "gone"
        BY <1>2, <3>4 DEF ChallengeSafe, ChallengeInv
      <4>4. QED
        BY <4>1, <4>2, <4>3 DEF EntryOf
    <3>5. QED
      BY <3>1, <3>2, <3>3, <3>4 DEF Ledger!Next, Ledger!Accept
  <2>4. QED
    BY <1>2, <2>2, <2>3, AcceptStep
<1>3. Init => IInv
  BY LockInit, ChallengeInit, ReplayInit
<1>4. ASSUME TypeOK, IInv, [Next]_vars PROVE IInv'
  BY <1>4, NoStaleWriters, LockNext, ChallengeNext, ReplayNext
<1>5. QED
  BY <1>1, <1>2, <1>3, <1>4, TypeCorrect, PTL
     DEF Spec, RefinesLedger, Ledger!Spec

=============================================================================
