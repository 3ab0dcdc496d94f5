------------------------------ MODULE CertChain -------------------------------
(***************************************************************************)
(* What an attestation document must show.  Verifier::verify asks the      *)
(* provider about the trusted roots one after another, and                 *)
(* verify_attestation_doc (crates/veriai-attestation/src/lib.rs) walks the *)
(* document's certificate bundle from the leaf towards the root it was     *)
(* given.  The roots are those RootPem loaded at startup.                  *)
(***************************************************************************)
EXTENDS RootPem

CONSTANTS
    Doc,        \* the attestation documents considered: see DocType
    Cert,       \* the certificates in them: see CertType
    NoDoc,      \* nothing has been submitted yet
    NoLimit,    \* a CA without pathLenConstraint
    MaxClock    \* bound of the clock

(* A certificate's DER is equal to another's when all of this is.          *)
CertType ==
    [parses : BOOLEAN,
     notBefore : Nat, notAfter : Nat,
     basic : {"absent", "bad", "end", "ca"},     \* basicConstraints
     limit : Nat \cup {NoLimit},                 \* pathLenConstraint
     usage : {"absent", "bad", "digitalSignature", "keyCertSign", "both",
              "neither"},                        \* keyUsage
     critical : BOOLEAN,                         \* another critical extension
     subject : STRING, issuer : STRING,
     key : STRING, signer : STRING]              \* its key, the key it is under

(* headers: the COSE structure and its headers are in order, there is a    *)
(* payload, and it decodes.  signer: the key the document is signed with.  *)
DocType == [headers : BOOLEAN, leaf : Cert, cabundle : Seq(Cert),
            signer : STRING]

ASSUME CertAssumption == Cert \subseteq CertType
ASSUME DocAssumption == NoDoc \notin Doc /\ Doc \subseteq DocType
ASSUME CertClockAssumption == MaxClock \in Nat

VARIABLES
    clock,      \* SystemTime::now()
    status,     \* where the verification is
    doc,        \* the document submitted
    times,      \* for each root tried, the `now` it was tried with
    depth,      \* how many certificates of the bundle are behind the walk
    current     \* current_cert

chainVars == <<clock, status, doc, times, depth, current>>
vars == <<pemVars, chainVars>>

ChainInit ==
    /\ clock = 0
    /\ status = "idle"
    /\ doc = NoDoc
    /\ times = <<>>
    /\ depth = 0
    /\ current = NoDoc

Init == PemInit /\ ChainInit

-----------------------------------------------------------------------------
(* Mutant: a CA is limited by the certificates below it, not by the CAs.   *)
validate_cert_off_by_one(cert, is_leaf, subordinate_ca_count, now) ==
    /\ now >= cert.notBefore /\ now <= cert.notAfter
    /\ ~cert.critical /\ cert.basic # "bad" /\ cert.usage # "bad"
    /\ IF is_leaf
       THEN /\ cert.basic # "ca"
            /\ cert.usage \in {"absent", "digitalSignature", "both"}
       ELSE /\ cert.basic = "ca"
            /\ cert.usage \in {"absent", "keyCertSign", "both"}
            /\ cert.limit # NoLimit => subordinate_ca_count + 1 <= cert.limit

validate_cert(cert, is_leaf, subordinate_ca_count, now) ==
    /\ now >= cert.notBefore /\ now <= cert.notAfter
    /\ ~cert.critical /\ cert.basic # "bad" /\ cert.usage # "bad"
    /\ IF is_leaf
       THEN /\ cert.basic # "ca"
            /\ cert.usage \in {"absent", "digitalSignature", "both"}
       ELSE /\ cert.basic = "ca"
            /\ cert.usage \in {"absent", "keyCertSign", "both"}
            /\ cert.limit # NoLimit => subordinate_ca_count <= cert.limit

(* The root being tried, and the time taken when its turn came.            *)
expected_root == trusted_roots[Len(times)]
now == times[Len(times)]

Submit(d) ==
    /\ phase = "serving" /\ status = "idle"
    /\ doc' = d
    /\ status' = "root"
    /\ UNCHANGED <<pemVars, clock, times, depth, current>>

(* The next trusted root; the provider reads the clock for each.           *)
TryRoot ==
    /\ status = "root" /\ Len(times) < Len(trusted_roots)
    /\ times' = Append(times, clock)
    /\ status' = "leaf"
    /\ UNCHANGED <<pemVars, clock, doc, depth, current>>

Refuse ==
    /\ status = "root" /\ Len(times) = Len(trusted_roots)
    /\ status' = "refused"
    /\ UNCHANGED <<pemVars, clock, doc, times, depth, current>>

(* This root's attempt returns an error: on to the next.                   *)
GiveUpRoot ==
    /\ status' = "root"
    /\ depth' = 0 /\ current' = NoDoc
    /\ UNCHANGED <<pemVars, clock, doc, times>>

LeafAccepted ==
    /\ doc.headers /\ doc.leaf.parses
    /\ validate_cert(doc.leaf, TRUE, 0, now)
    /\ doc.signer = doc.leaf.key

CheckLeaf ==
    /\ status = "leaf" /\ LeafAccepted
    /\ status' = "walk"
    /\ depth' = 0 /\ current' = doc.leaf
    /\ UNCHANGED <<pemVars, clock, doc, times>>

CheckLeafFails == status = "leaf" /\ ~LeafAccepted /\ GiveUpRoot

(* The bundle is root-first and is walked in reverse.                      *)
parent_cert == doc.cabundle[Len(doc.cabundle) - depth]

(* Mutant: names are not compared.                                         *)
ParentAcceptedAnyName ==
    /\ parent_cert.parses
    /\ validate_cert(parent_cert, FALSE, depth, now)
    /\ current.signer = parent_cert.key

ParentAccepted ==
    /\ parent_cert.parses
    /\ validate_cert(parent_cert, FALSE, depth, now)
    /\ current.issuer = parent_cert.subject
    /\ current.signer = parent_cert.key

(* One turn of the loop: to the parent, or to the end when it is the root. *)
WalkParent ==
    /\ status = "walk" /\ depth < Len(doc.cabundle) /\ ParentAccepted
    /\ status' = IF parent_cert = expected_root THEN "accepted" ELSE "walk"
    /\ depth' = depth + 1 /\ current' = parent_cert
    /\ UNCHANGED <<pemVars, clock, doc, times>>

WalkParentFails ==
    /\ status = "walk" /\ depth < Len(doc.cabundle) /\ ~ParentAccepted
    /\ GiveUpRoot

(* After the loop the last certificate is compared once more.              *)
EndOfBundle ==
    /\ status = "walk" /\ depth = Len(doc.cabundle)
    /\ current = expected_root
    /\ status' = "accepted"
    /\ UNCHANGED <<pemVars, clock, doc, times, depth, current>>

EndOfBundleFails ==
    /\ status = "walk" /\ depth = Len(doc.cabundle)
    /\ current # expected_root
    /\ GiveUpRoot

Tick ==
    /\ phase = "serving" /\ clock < MaxClock
    /\ clock' = clock + 1
    /\ UNCHANGED <<pemVars, status, doc, times, depth, current>>

Next ==
    \/ PemNext /\ UNCHANGED chainVars
    \/ \E d \in Doc : Submit(d)
    \/ TryRoot
    \/ Refuse
    \/ CheckLeaf
    \/ CheckLeafFails
    \/ WalkParent
    \/ WalkParentFails
    \/ EndOfBundle
    \/ EndOfBundleFails
    \/ Tick

Spec == Init /\ [][Next]_vars

-----------------------------------------------------------------------------
(* What makes a document trustworthy, said without the walk.               *)

(* The k-th certificate above the leaf.                                    *)
Chain(d, k) ==
    IF k = 0 THEN d.leaf ELSE d.cabundle[Len(d.cabundle) - (k - 1)]

(* It may sign for what is below it at time t: k - 1 authorities and the   *)
(* leaf.                                                                   *)
MayIssue(d, k, t) ==
    LET c == Chain(d, k)
    IN  /\ c.parses /\ t \in c.notBefore..c.notAfter
        /\ ~c.critical /\ c.basic = "ca"
        /\ c.usage \in {"absent", "keyCertSign", "both"}
        /\ c.limit = NoLimit \/ k - 1 <= c.limit

IssuedBy(child, c) == child.issuer = c.subject /\ child.signer = c.key

(* The document is signed by a leaf from which an unbroken line of         *)
(* authorities, all valid at time t, leads to root.                        *)
TrustedPath(d, root, t) ==
    /\ d.headers /\ d.leaf.parses /\ d.signer = d.leaf.key
    /\ t \in d.leaf.notBefore..d.leaf.notAfter
    /\ ~d.leaf.critical /\ d.leaf.basic \in {"absent", "end"}
    /\ d.leaf.usage \in {"absent", "digitalSignature", "both"}
    /\ \E n \in 0..Len(d.cabundle) :
           /\ Chain(d, n) = root
           /\ n = 0 => d.cabundle = <<>>
           /\ \A k \in 1..n : /\ MayIssue(d, k, t)
                              /\ IssuedBy(Chain(d, k - 1), Chain(d, k))

(* An accepted document has a trusted path, at one instant, to a root that *)
(* was approved when the service started.                                  *)
AcceptedIsAnchored ==
    status = "accepted" =>
        /\ TrustedPath(doc, expected_root, now)
        /\ pinned => expected_root \in Allowlist

(* A document is refused only when it has no trusted path to any of the    *)
(* roots: no failure on the way to one root hides a path to another.       *)
RefusedHasNoPath ==
    status = "refused" =>
        \A n \in 1..Len(trusted_roots) :
            ~TrustedPath(doc, trusted_roots[n], times[n])

=============================================================================
