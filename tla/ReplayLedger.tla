----------------------------- MODULE ReplayLedger -----------------------------
(***************************************************************************)
(* What replay protection promises a relying party: a ledger of accepted   *)
(* receipts that only grows, one entry at a time, in which the sequence    *)
(* numbers of one enclave identity increase, and in which a one-time nonce *)
(* occurs once.  Nothing is said of files, locks, memory or crashes.       *)
(***************************************************************************)
EXTENDS Integers

CONSTANTS
    Entry,          \* [req, identity, seq, nonce]: an accepted request
    OneTimeNonces   \* a nonce may be used for one acceptance only

VARIABLE ledger

Init == ledger = {}

(* Accepting e is allowed when its sequence is above every sequence that   *)
(* was accepted for the same identity.                                     *)
Accept(e) ==
    /\ \A a \in ledger : a.identity = e.identity => a.seq < e.seq
    /\ OneTimeNonces => \A a \in ledger : a.nonce # e.nonce
    /\ ledger' = ledger \cup {e}

(* The new entry is the one that the ledger gains.                         *)
Next == \E e \in ledger' \cap Entry : Accept(e)

Spec == Init /\ [][Next]_ledger

=============================================================================
