--------------------------- MODULE CertChainProofs ----------------------------
(***************************************************************************)
(* Proofs about RootPem and CertChain, for every PEM text, every set of    *)
(* certificates and documents and every allowlist: the verifier only ever  *)
(* trusts approved roots, and it accepts a document exactly when there is  *)
(* a trusted path from it to one of them.                                  *)
(***************************************************************************)
EXTENDS CertChain, SequenceTheorems, TLAPS

Text == Seq(Line)
RootCert == {CertOf[t] : t \in DOMAIN CertOf}

PemType ==
    /\ phase \in {"reading", "serving", "panicked"}
    /\ lines \in Nat
    /\ validator \in [in_cert : BOOLEAN, encoded : Text, count : Nat,
                      ok : BOOLEAN]
    /\ loader \in [in_cert : BOOLEAN, base64_str : Text, ok : BOOLEAN]
    /\ trusted_roots \in Seq(RootCert)

PemInv == PemType /\ ParsersInStep /\ RootsApproved

-----------------------------------------------------------------------------
(* The two loops of the PEM parsers.                                       *)

(* A turn of either loop leaves its locals well typed.                     *)
LEMMA TurnType ==
    ASSUME PemType, NEW line \in Line
    PROVE  /\ ValidateLine(validator, line) \in
                  [in_cert : BOOLEAN, encoded : Text, count : Nat, ok : BOOLEAN]
           /\ LoadLine(loader, line) \in
                  [in_cert : BOOLEAN, base64_str : Text, ok : BOOLEAN]
<1> DEFINE VT == [in_cert : BOOLEAN, encoded : Text, count : Nat, ok : BOOLEAN]
           LT == [in_cert : BOOLEAN, base64_str : Text, ok : BOOLEAN]
<1>0. <<>> \in Text
  BY DEF Text
<1>1. ValidateLine(validator, line) \in VT
  <2>0. Append(validator.encoded, line) \in Text
    BY DEF PemType, Text
  <2>1. /\ validator \in VT
        /\ [validator EXCEPT !.in_cert = TRUE, !.encoded = <<>>] \in VT
        /\ [validator EXCEPT !.in_cert = FALSE, !.count = @ + 1] \in VT
        /\ [validator EXCEPT !.encoded = Append(@, line)] \in VT
        /\ [validator EXCEPT !.ok = FALSE] \in VT
    <3>1. /\ validator \in VT
          /\ validator.count + 1 \in Nat
          /\ \A b \in BOOLEAN : [validator EXCEPT !.in_cert = b] \in VT
      BY DEF PemType
    <3>2. \A v \in VT, e \in Text, n \in Nat :
              /\ [v EXCEPT !.encoded = e] \in VT
              /\ [v EXCEPT !.count = n] \in VT
              /\ [v EXCEPT !.ok = FALSE] \in VT
      OBVIOUS
    <3> HIDE DEF VT
    <3> QED BY <1>0, <2>0, <3>1, <3>2
  <2> HIDE DEF VT
  <2> USE BodyAssumption DEF Marker, Line
  <2>2. ValidateLine(validator, line) \in
            {validator,
             [validator EXCEPT !.in_cert = TRUE, !.encoded = <<>>],
             [validator EXCEPT !.in_cert = FALSE, !.count = @ + 1],
             [validator EXCEPT !.encoded = Append(@, line)],
             [validator EXCEPT !.ok = FALSE]}
    <3>1. CASE line = "blank" BY <3>1 DEF ValidateLine
    <3>2. CASE line = "BEGIN" BY <3>2 DEF ValidateLine
    <3>3. CASE line = "END" BY <3>3 DEF ValidateLine
    <3>4. CASE line = "dashes" BY <3>4 DEF ValidateLine
    <3>5. CASE line \in Body BY <3>5 DEF ValidateLine
    <3> QED BY <3>1, <3>2, <3>3, <3>4, <3>5
  <2> QED BY <2>1, <2>2
<1>2. LoadLine(loader, line) \in LT
  <2>0. Append(loader.base64_str, line) \in Text
    BY DEF PemType, Text
  <2>1. Decodes(loader.base64_str) \in BOOLEAN
    BY DEF Decodes
  <2>2. /\ loader \in LT
        /\ [loader EXCEPT !.in_cert = TRUE, !.base64_str = <<>>] \in LT
        /\ [loader EXCEPT !.in_cert = FALSE,
                          !.ok = Decodes(loader.base64_str)] \in LT
        /\ [loader EXCEPT !.base64_str = Append(@, line)] \in LT
    BY <1>0, <2>0, <2>1 DEF PemType
  <2> HIDE DEF LT
  <2> USE BodyAssumption DEF Marker, Line
  <2>3. LoadLine(loader, line) \in
            {loader,
             [loader EXCEPT !.in_cert = TRUE, !.base64_str = <<>>],
             [loader EXCEPT !.in_cert = FALSE,
                            !.ok = Decodes(loader.base64_str)],
             [loader EXCEPT !.base64_str = Append(@, line)]}
    <3>1. CASE line = "blank" BY <3>1 DEF LoadLine
    <3>2. CASE line = "BEGIN" BY <3>2 DEF LoadLine
    <3>3. CASE line = "END" BY <3>3 DEF LoadLine
    <3>4. CASE line = "dashes" BY <3>4 DEF LoadLine
    <3>5. CASE line \in Body BY <3>5 DEF LoadLine
    <3> QED BY <3>1, <3>2, <3>3, <3>4, <3>5
  <2> QED BY <2>2, <2>3
<1> QED BY <1>1, <1>2

(* Reading one more line keeps the parsers in step: a line on which they   *)
(* would part is one the validator objects to.                             *)
LEMMA ReadLineInv ==
    ASSUME PemInv, NEW line \in Line, ReadLine(line)
    PROVE  PemInv'
<1>1. PemType'
  <2>1. validator' \in [in_cert : BOOLEAN, encoded : Text, count : Nat,
                        ok : BOOLEAN]
    BY TurnType DEF PemInv, PemType, ReadLine
  <2>2. loader' \in [in_cert : BOOLEAN, base64_str : Text, ok : BOOLEAN]
    BY TurnType DEF PemInv, PemType, ReadLine
  <2>3. trusted_roots' \in Seq(RootCert)
    BY DEF PemInv, PemType, ReadLine, LoadsRoot, Decodes, RootCert
  <2> QED BY <2>1, <2>2, <2>3 DEF PemInv, PemType, ReadLine
<1>2. ParsersInStep'
  <2> SUFFICES ASSUME validator'.ok
               PROVE  /\ loader'.ok
                      /\ loader'.in_cert = validator'.in_cert
                      /\ validator'.in_cert =>
                             loader'.base64_str = validator'.encoded
                      /\ Len(trusted_roots') = validator'.count
                      /\ \A n \in 1..Len(trusted_roots') :
                             trusted_roots'[n] \in Allowlist
    BY DEF ParsersInStep
  <2>1. validator.ok /\ validator' = ValidateLine(validator, line)
    BY DEF ReadLine
  <2>2. /\ loader.ok
        /\ loader.in_cert = validator.in_cert
        /\ validator.in_cert => loader.base64_str = validator.encoded
        /\ Len(trusted_roots) = validator.count
        /\ \A n \in 1..Len(trusted_roots) : trusted_roots[n] \in Allowlist
    BY <2>1 DEF PemInv, ParsersInStep, ReadLine
  <2>3. loader' = LoadLine(loader, line)
    BY <2>2 DEF ReadLine
  <2>4. CASE line = "blank"
    <3>1. validator' = validator
      BY <2>1, <2>4, BodyAssumption DEF ValidateLine, Marker
    <3>2. loader' = loader
      BY <2>3, <2>4, BodyAssumption DEF LoadLine, Marker
    <3>3. trusted_roots' = trusted_roots
      BY <2>4 DEF ReadLine, LoadsRoot
    <3> QED BY <2>2, <3>1, <3>2, <3>3
  <2>5. CASE line = "BEGIN"
    <3>1. ~validator.in_cert
      BY <2>1, <2>5, BodyAssumption DEF ValidateLine, Marker, PemInv, PemType
    <3>2. validator' = [validator EXCEPT !.in_cert = TRUE, !.encoded = <<>>]
      BY <2>1, <2>5, <3>1, BodyAssumption DEF ValidateLine, Marker
    <3>3. loader' = [loader EXCEPT !.in_cert = TRUE, !.base64_str = <<>>]
      BY <2>3, <2>5, BodyAssumption DEF LoadLine, Marker
    <3>4. trusted_roots' = trusted_roots
      BY <2>5 DEF ReadLine, LoadsRoot
    <3> QED BY <2>2, <3>2, <3>3, <3>4 DEF PemInv, PemType
  <2>6. CASE line = "END"
    <3>1. validator.in_cert /\ Approved(validator.encoded)
      BY <2>1, <2>6, BodyAssumption DEF ValidateLine, Marker, PemInv, PemType
    <3>2. validator' = [validator EXCEPT !.in_cert = FALSE, !.count = @ + 1]
      BY <2>1, <2>6, <3>1, BodyAssumption DEF ValidateLine, Marker
    <3>3. Decodes(loader.base64_str) /\ CertOf[loader.base64_str] \in Allowlist
      BY <2>2, <3>1 DEF Approved
    <3>4. loader' = [loader EXCEPT !.in_cert = FALSE,
                                   !.ok = Decodes(loader.base64_str)]
      BY <2>2, <2>3, <2>6, <3>1, BodyAssumption DEF LoadLine, Marker
    <3>5. trusted_roots' = Append(trusted_roots, CertOf[loader.base64_str])
      BY <2>2, <2>6, <3>1, <3>3 DEF ReadLine, LoadsRoot
    <3>6. CertOf[loader.base64_str] \in RootCert
      BY <3>3 DEF Decodes, RootCert
    <3>7. /\ Len(trusted_roots') = Len(trusted_roots) + 1
          /\ \A n \in 1..Len(trusted_roots') :
                 trusted_roots'[n] \in Allowlist
      BY <2>2, <3>3, <3>5, <3>6 DEF PemInv, PemType
    <3>8. loader'.in_cert = FALSE /\ loader'.ok
      BY <3>3, <3>4 DEF PemInv, PemType
    <3>9. validator'.in_cert = FALSE /\ validator'.count = validator.count + 1
      BY <3>2 DEF PemInv, PemType
    <3> QED BY <2>2, <3>7, <3>8, <3>9
  <2>7. CASE line \in Body
    <3>1. validator.in_cert
      BY <2>1, <2>7, BodyAssumption DEF ValidateLine, Marker, PemInv, PemType
    <3>2. validator' = [validator EXCEPT !.encoded = Append(@, line)]
      BY <2>1, <2>7, <3>1, BodyAssumption DEF ValidateLine, Marker
    <3>3. loader' = [loader EXCEPT !.base64_str = Append(@, line)]
      BY <2>2, <2>3, <2>7, <3>1, BodyAssumption DEF LoadLine, Marker
    <3>4. trusted_roots' = trusted_roots
      BY <2>7, BodyAssumption DEF ReadLine, LoadsRoot, Marker
    <3>5. /\ validator'.in_cert = validator.in_cert
          /\ validator'.count = validator.count
          /\ validator'.encoded = Append(validator.encoded, line)
      BY <3>2 DEF PemInv, PemType
    <3>6. /\ loader'.in_cert = loader.in_cert
          /\ loader'.ok = loader.ok
          /\ loader'.base64_str = Append(loader.base64_str, line)
      BY <3>3 DEF PemInv, PemType
    <3>7. loader'.ok /\ loader'.in_cert = validator'.in_cert
      BY <2>2, <3>5, <3>6
    <3>8. loader'.base64_str = validator'.encoded
      BY <2>2, <3>1, <3>5, <3>6
    <3> QED BY <2>2, <3>4, <3>5, <3>7, <3>8
  <2>8. CASE line = "dashes"
    BY <2>1, <2>8, BodyAssumption DEF ValidateLine, Marker, PemInv, PemType
  <2> QED BY <2>4, <2>5, <2>6, <2>7, <2>8 DEF Line, Marker
<1>3. RootsApproved'
  BY DEF ReadLine, RootsApproved
<1> QED BY <1>1, <1>2, <1>3 DEF PemInv

(* At the end of the text the validator's consent covers what the loader   *)
(* has: they were in step all the way.                                     *)
LEMMA EndOfTextInv ==
    ASSUME PemInv, EndOfText
    PROVE  PemInv'
<1>1. PemType'
  BY DEF PemInv, PemType, EndOfText, NewValidator, NewLoader, Text
<1>2. ParsersInStep'
  BY DEF EndOfText, ParsersInStep
<1>3. RootsApproved'
  BY DEF PemInv, ParsersInStep, EndOfText, RootsApproved, ValidatorAccepts
<1> QED BY <1>1, <1>2, <1>3 DEF PemInv

(* Nothing has been read: there is nothing to be in step about.            *)
LEMMA PemInvInit == PemInit => PemInv
  BY DEF PemInit, PemInv, PemType, ParsersInStep, RootsApproved, NewValidator,
         NewLoader, Text

(* Steps that leave the PEM state alone leave its invariant alone.         *)
LEMMA PemInvFrame == PemInv /\ UNCHANGED pemVars => PemInv'
  BY DEF pemVars, PemInv, PemType, ParsersInStep, RootsApproved

(* The invariant of the two parsers is inductive.                          *)
LEMMA PemInvNext == PemInv /\ [PemNext]_pemVars => PemInv'
  BY ReadLineInv, EndOfTextInv, PemInvFrame DEF PemNext

-----------------------------------------------------------------------------
(* The walk.                                                               *)

(* Nothing but the reading of the PEM text changes the roots.              *)
LEMMA NextPem == [Next]_vars => [PemNext]_pemVars
  BY DEF Next, vars, Submit, TryRoot, Refuse, GiveUpRoot, CheckLeaf,
         CheckLeafFails, WalkParent, WalkParentFails, EndOfBundle,
         EndOfBundleFails, Tick

(* The roots the service trusts are approved ones, whatever the text: the  *)
(* promise of validate_aws_nitro_root_pem.                                 *)
THEOREM ApprovedRoots == Spec => []RootsApproved
<1>1. Init => PemInv
  BY PemInvInit DEF Init
<1>2. PemInv /\ [Next]_vars => PemInv'
  BY NextPem, PemInvNext
<1>3. PemInv => RootsApproved
  BY DEF PemInv
<1> QED BY <1>1, <1>2, <1>3, PTL DEF Spec

(* The parser that validates and the parser that loads agree on where they *)
(* are in the text for as long as the validator does not object.           *)
THEOREM ParsersAgree == Spec => []ParsersInStep
<1>1. Init => PemInv
  BY PemInvInit DEF Init
<1>2. PemInv /\ [Next]_vars => PemInv'
  BY NextPem, PemInvNext
<1>3. PemInv => ParsersInStep
  BY DEF PemInv
<1> QED BY <1>1, <1>2, <1>3, PTL DEF Spec

(* The leaf's part of a trusted path.                                      *)
GoodLeaf(d, t) ==
    /\ d.headers /\ d.leaf.parses /\ d.signer = d.leaf.key
    /\ t \in d.leaf.notBefore..d.leaf.notAfter
    /\ ~d.leaf.critical /\ d.leaf.basic \in {"absent", "end"}
    /\ d.leaf.usage \in {"absent", "digitalSignature", "both"}

(* The k-th link of the chain holds.                                       *)
Link(d, k, t) ==
    MayIssue(d, k, t) /\ IssuedBy(Chain(d, k - 1), Chain(d, k))

WalkType ==
    /\ clock \in Nat
    /\ status \in {"idle", "root", "leaf", "walk", "accepted", "refused"}
    /\ times \in Seq(Nat)
    /\ depth \in Nat
    /\ status # "idle" => doc \in Doc /\ phase = "serving"
    /\ Len(times) <= Len(trusted_roots)
    /\ status = "idle" => Len(times) = 0
    /\ status \in {"leaf", "walk", "accepted"} => Len(times) > 0

(* What the walk has established about the chain so far: the links behind  *)
(* it hold, and it has not walked past the root it is looking for.         *)
WalkSoFar ==
    status \in {"walk", "accepted"} =>
        /\ GoodLeaf(doc, now)
        /\ depth <= Len(doc.cabundle)
        /\ current = Chain(doc, depth)
        /\ \A k \in 1..depth : Link(doc, k, now)
        /\ status = "walk" =>
               \A k \in 1..depth : Chain(doc, k) # expected_root
        /\ status = "accepted" =>
               /\ current = expected_root
               /\ depth = 0 => doc.cabundle = <<>>

(* The roots already given up have no trusted path.                        *)
GivenUp(n) == n < Len(times) \/ (n = Len(times) /\ status \in {"root", "refused"})

NoPathSoFar ==
    status # "idle" =>
        \A n \in 1..Len(times) :
            GivenUp(n) => ~TrustedPath(doc, trusted_roots[n], times[n])

RefusedIsLast == status = "refused" => Len(times) = Len(trusted_roots)

WalkInv == WalkType /\ WalkSoFar /\ NoPathSoFar /\ RefusedIsLast

-----------------------------------------------------------------------------
(* The code's checks say what the definition of a trusted path says.       *)

(* The fields of a document hold certificates.                             *)
LEMMA DocFields ==
    ASSUME NEW d \in Doc
    PROVE  d.leaf \in CertType /\ d.cabundle \in Seq(CertType)
  BY DocAssumption, CertAssumption DEF DocType

(* While a root is being tried there is a time it is tried with.           *)
LEMMA NowIsNat ==
    ASSUME WalkType, Len(times) > 0
    PROVE  now \in Nat /\ Len(times) \in 1..Len(times)
  BY DEF WalkType, now

(* The leaf passes the code's checks exactly when it is a good leaf.       *)
LEMMA LeafCheck ==
    ASSUME doc \in Doc, now \in Nat
    PROVE  LeafAccepted <=> GoodLeaf(doc, now)
<1>1. doc.leaf \in CertType
  BY DocFields
<1>2. validate_cert(doc.leaf, TRUE, 0, now) <=>
          /\ now \in doc.leaf.notBefore..doc.leaf.notAfter
          /\ ~doc.leaf.critical /\ doc.leaf.basic \in {"absent", "end"}
          /\ doc.leaf.usage \in {"absent", "digitalSignature", "both"}
  BY <1>1 DEF validate_cert, CertType
<1> QED BY <1>2 DEF LeafAccepted, GoodLeaf

(* The code's checks of a parent are those of the next link of the chain.  *)
LEMMA ParentCheck ==
    ASSUME doc \in Doc, now \in Nat, depth \in Nat,
           depth < Len(doc.cabundle), current = Chain(doc, depth)
    PROVE  /\ parent_cert = Chain(doc, depth + 1)
           /\ ParentAccepted <=> Link(doc, depth + 1, now)
<1>1. doc.cabundle \in Seq(CertType)
  BY DocFields
<1>2. parent_cert = Chain(doc, depth + 1)
  BY <1>1 DEF parent_cert, Chain
<1>3. parent_cert \in CertType
  BY <1>1 DEF parent_cert
<1>4. depth + 1 - 1 = depth
  OBVIOUS
<1>5. parent_cert.limit # NoLimit => parent_cert.limit \in Nat
  BY <1>3 DEF CertType
<1>6. MayIssue(doc, depth + 1, now) <=>
          parent_cert.parses /\ validate_cert(parent_cert, FALSE, depth, now)
  <2> DEFINE c == parent_cert
  <2>1. MayIssue(doc, depth + 1, now) <=>
            /\ c.parses /\ now \in c.notBefore..c.notAfter
            /\ ~c.critical /\ c.basic = "ca"
            /\ c.usage \in {"absent", "keyCertSign", "both"}
            /\ c.limit = NoLimit \/ (depth + 1) - 1 <= c.limit
    BY <1>2 DEF MayIssue
  <2>2. validate_cert(c, FALSE, depth, now) <=>
            /\ now \in c.notBefore..c.notAfter
            /\ ~c.critical /\ c.basic = "ca"
            /\ c.usage \in {"absent", "keyCertSign", "both"}
            /\ c.limit # NoLimit => depth <= c.limit
    BY <1>3 DEF validate_cert, CertType
  <2>3. (c.limit = NoLimit \/ (depth + 1) - 1 <= c.limit) <=>
            (c.limit # NoLimit => depth <= c.limit)
    BY <1>5
  <2> QED BY <2>1, <2>2, <2>3
<1>7. IssuedBy(Chain(doc, depth + 1 - 1), Chain(doc, depth + 1)) <=>
          /\ current.issuer = parent_cert.subject
          /\ current.signer = parent_cert.key
  BY <1>2, <1>4, Zenon DEF IssuedBy
<1>8. ParentAccepted <=> Link(doc, depth + 1, now)
  <2>1. Link(doc, depth + 1, now) <=>
            /\ MayIssue(doc, depth + 1, now)
            /\ IssuedBy(Chain(doc, depth + 1 - 1), Chain(doc, depth + 1))
    BY DEF Link
  <2>2. ParentAccepted <=>
            /\ parent_cert.parses
            /\ validate_cert(parent_cert, FALSE, depth, now)
            /\ current.issuer = parent_cert.subject
            /\ current.signer = parent_cert.key
    BY Zenon DEF ParentAccepted
  <2> QED BY <1>6, <1>7, <2>1, <2>2
<1> QED BY <1>2, <1>8

(* A trusted path is a good leaf and links from it to the root.            *)
LEMMA PathParts ==
    ASSUME NEW d, NEW root, NEW t
    PROVE  TrustedPath(d, root, t) <=>
               /\ GoodLeaf(d, t)
               /\ \E n \in 0..Len(d.cabundle) :
                      /\ Chain(d, n) = root
                      /\ n = 0 => d.cabundle = <<>>
                      /\ \A k \in 1..n : Link(d, k, t)
  BY DEF TrustedPath, GoodLeaf, Link

(* A walk that stops has shown that there is no path: the root is neither  *)
(* among the certificates behind it nor beyond the link that failed.       *)
LEMMA BrokenLink ==
    ASSUME NEW d \in Doc, NEW root, NEW t, NEW n \in Nat,
           n < Len(d.cabundle),
           \A k \in 1..n : Chain(d, k) # root,
           ~Link(d, n + 1, t)
    PROVE  ~TrustedPath(d, root, t)
<1> SUFFICES ASSUME NEW m \in 0..Len(d.cabundle),
                    Chain(d, m) = root,
                    m = 0 => d.cabundle = <<>>,
                    \A k \in 1..m : Link(d, k, t)
             PROVE  FALSE
  BY PathParts
<1>1. d.cabundle # <<>> /\ Len(d.cabundle) \in Nat
  BY DocFields
<1>2. m > n
  BY <1>1
<1> QED BY <1>1, <1>2

(* A walk that reaches the end without the root has shown the same.        *)
LEMMA NoRoot ==
    ASSUME NEW d \in Doc, NEW root, NEW t,
           \A k \in 1..Len(d.cabundle) : Chain(d, k) # root,
           d.cabundle = <<>> => d.leaf # root
    PROVE  ~TrustedPath(d, root, t)
<1> SUFFICES ASSUME NEW m \in 0..Len(d.cabundle),
                    Chain(d, m) = root,
                    m = 0 => d.cabundle = <<>>
             PROVE  FALSE
  BY PathParts
<1>1. Len(d.cabundle) \in Nat
  BY DocFields
<1>2. m = 0
  BY <1>1
<1> QED BY <1>2 DEF Chain

-----------------------------------------------------------------------------
(* Each step of the verification keeps the walk's invariant.               *)

(* Giving a root up, once it is known to have no path.                     *)
LEMMA GiveUpInv ==
    ASSUME WalkInv, status \in {"leaf", "walk"}, GiveUpRoot,
           ~TrustedPath(doc, expected_root, now)
    PROVE  WalkInv'
<1>1. WalkType'
  BY DEF WalkInv, WalkType, GiveUpRoot, pemVars
<1>2. NoPathSoFar'
  <2> SUFFICES ASSUME NEW n \in 1..Len(times)
               PROVE  ~TrustedPath(doc, trusted_roots[n], times[n])
    BY DEF NoPathSoFar, GiveUpRoot, pemVars
  <2>1. CASE n = Len(times)
    BY <2>1 DEF expected_root, now
  <2>2. CASE n < Len(times)
    BY <2>2 DEF WalkInv, NoPathSoFar, GivenUp
  <2> QED BY <2>1, <2>2 DEF WalkInv, WalkType
<1> QED BY <1>1, <1>2 DEF WalkInv, WalkSoFar, RefusedIsLast, GiveUpRoot

(* A document comes in: no root has been tried.                            *)
LEMMA SubmitInv ==
    ASSUME WalkInv, NEW d \in Doc, Submit(d)
    PROVE  WalkInv'
<1>1. WalkType' /\ Len(times') = 0
  BY DEF WalkInv, WalkType, Submit, pemVars
<1> QED BY <1>1 DEF WalkInv, WalkSoFar, NoPathSoFar, RefusedIsLast, Submit

(* The next root is tried: the earlier ones stay given up.                 *)
LEMMA TryRootInv ==
    ASSUME WalkInv, PemType, TryRoot
    PROVE  WalkInv'
<1>1. WalkType' /\ Len(times') = Len(times) + 1
  BY DEF WalkInv, WalkType, TryRoot, pemVars, PemType
<1>2. NoPathSoFar'
  <2> SUFFICES ASSUME NEW n \in 1..Len(times'), n < Len(times')
               PROVE  ~TrustedPath(doc, trusted_roots[n], times'[n])
    BY DEF NoPathSoFar, GivenUp, TryRoot, pemVars
  <2>1. n \in 1..Len(times) /\ times'[n] = times[n]
    BY <1>1 DEF WalkInv, WalkType, TryRoot
  <2>2. GivenUp(n)
    BY <2>1 DEF GivenUp, TryRoot, WalkInv, WalkType
  <2> QED BY <2>1, <2>2 DEF WalkInv, NoPathSoFar, TryRoot
<1> QED BY <1>1, <1>2 DEF WalkInv, WalkSoFar, RefusedIsLast, TryRoot

(* All roots were given up.                                                *)
LEMMA RefuseInv ==
    ASSUME WalkInv, Refuse
    PROVE  WalkInv'
<1>1. WalkType'
  BY DEF WalkInv, WalkType, Refuse, pemVars
<1>2. NoPathSoFar'
  BY DEF WalkInv, NoPathSoFar, GivenUp, Refuse, pemVars
<1> QED BY <1>1, <1>2 DEF WalkInv, WalkSoFar, RefusedIsLast, Refuse, pemVars

(* The leaf starts the walk, or ends this root's attempt.                  *)
LEMMA CheckLeafInv ==
    ASSUME WalkInv, CheckLeaf \/ CheckLeafFails
    PROVE  WalkInv'
<1>1. doc \in Doc /\ now \in Nat /\ Len(doc.cabundle) \in Nat
  BY NowIsNat, DocFields DEF WalkInv, WalkType, CheckLeaf, CheckLeafFails
<1>2. CASE CheckLeaf
  <2>1. WalkType'
    BY <1>2 DEF WalkInv, WalkType, CheckLeaf, pemVars
  <2>2. GoodLeaf(doc, now)
    BY <1>1, <1>2, LeafCheck DEF CheckLeaf
  <2>3. WalkSoFar'
    BY <1>1, <1>2, <2>2 DEF CheckLeaf, WalkSoFar, Chain, now
  <2>4. NoPathSoFar'
    BY <1>2 DEF WalkInv, NoPathSoFar, GivenUp, CheckLeaf, pemVars
  <2> QED BY <1>2, <2>1, <2>3, <2>4 DEF WalkInv, RefusedIsLast, CheckLeaf
<1>3. CASE CheckLeafFails
  BY <1>1, <1>3, LeafCheck, PathParts, GiveUpInv DEF CheckLeafFails
<1> QED BY <1>2, <1>3

(* One more link holds.                                                    *)
LEMMA WalkParentInv ==
    ASSUME WalkInv, WalkParent
    PROVE  WalkInv'
<1>1. /\ doc \in Doc /\ now \in Nat /\ depth \in Nat
      /\ Len(doc.cabundle) \in Nat
  BY NowIsNat, DocFields DEF WalkInv, WalkType, WalkParent
<1>2. /\ GoodLeaf(doc, now)
      /\ current = Chain(doc, depth)
      /\ \A k \in 1..depth : Link(doc, k, now)
      /\ \A k \in 1..depth : Chain(doc, k) # expected_root
  BY DEF WalkInv, WalkSoFar, WalkParent
<1>3. /\ parent_cert = Chain(doc, depth + 1)
      /\ Link(doc, depth + 1, now)
  BY <1>1, <1>2, ParentCheck DEF WalkParent
<1>4. WalkType'
  BY DEF WalkInv, WalkType, WalkParent, pemVars
<1>5. /\ doc' = doc /\ now' = now /\ expected_root' = expected_root
      /\ depth' = depth + 1
      /\ current' = Chain(doc, depth + 1)
  BY <1>3 DEF WalkParent, now, expected_root, pemVars
<1>6. \A k \in 1..depth' : Link(doc, k, now)
  BY <1>1, <1>2, <1>3, <1>5
<1>7. status' = "walk" => \A k \in 1..depth' : Chain(doc, k) # expected_root
  BY <1>1, <1>2, <1>3, <1>5 DEF WalkParent
<1>8. status' = "accepted" => current' = expected_root
  BY <1>3, <1>5 DEF WalkParent
<1>9. depth' <= Len(doc.cabundle) /\ depth' # 0
  BY <1>1, <1>5 DEF WalkParent
<1>10. WalkSoFar'
  BY <1>2, <1>5, <1>6, <1>7, <1>8, <1>9 DEF WalkSoFar
<1>11. NoPathSoFar'
  BY DEF WalkInv, NoPathSoFar, GivenUp, WalkParent, pemVars
<1> QED BY <1>4, <1>10, <1>11 DEF WalkInv, RefusedIsLast, WalkParent

(* A link does not hold: nothing beyond it can be on a path.               *)
LEMMA WalkParentFailsInv ==
    ASSUME WalkInv, WalkParentFails
    PROVE  WalkInv'
<1>1. doc \in Doc /\ now \in Nat /\ depth \in Nat
  BY NowIsNat DEF WalkInv, WalkType, WalkParentFails
<1>2. /\ current = Chain(doc, depth)
      /\ \A k \in 1..depth : Chain(doc, k) # expected_root
  BY DEF WalkInv, WalkSoFar, WalkParentFails
<1>3. ~Link(doc, depth + 1, now)
  BY <1>1, <1>2, ParentCheck DEF WalkParentFails
<1>4. ~TrustedPath(doc, expected_root, now)
  BY <1>1, <1>2, <1>3, BrokenLink DEF WalkParentFails
<1> QED BY <1>4, GiveUpInv DEF WalkParentFails

(* The bundle is exhausted.                                                *)
LEMMA EndOfBundleInv ==
    ASSUME WalkInv, EndOfBundle \/ EndOfBundleFails
    PROVE  WalkInv'
<1>1. doc \in Doc /\ depth \in Nat /\ doc.cabundle \in Seq(CertType)
  BY DocFields DEF WalkInv, WalkType, EndOfBundle, EndOfBundleFails
<1>2. /\ GoodLeaf(doc, now)
      /\ depth = Len(doc.cabundle)
      /\ current = Chain(doc, depth)
      /\ \A k \in 1..depth : Link(doc, k, now)
      /\ \A k \in 1..depth : Chain(doc, k) # expected_root
  BY DEF WalkInv, WalkSoFar, EndOfBundle, EndOfBundleFails
<1>3. CASE EndOfBundle
  <2>1. WalkType'
    BY <1>3 DEF WalkInv, WalkType, EndOfBundle, pemVars
  <2>2. /\ doc' = doc /\ now' = now /\ expected_root' = expected_root
        /\ depth' = depth /\ current' = current /\ status' = "accepted"
    BY <1>3 DEF EndOfBundle, now, expected_root, pemVars
  <2>3. depth = 0 => doc.cabundle = <<>>
    BY <1>1, <1>2, EmptySeq
  <2>4. depth <= Len(doc.cabundle) /\ current = expected_root
    BY <1>1, <1>2, <1>3 DEF EndOfBundle
  <2>5. WalkSoFar'
    BY <1>2, <2>2, <2>3, <2>4 DEF WalkSoFar
  <2>6. NoPathSoFar'
    BY <1>3 DEF WalkInv, NoPathSoFar, GivenUp, EndOfBundle, pemVars
  <2> QED BY <2>1, <2>2, <2>5, <2>6 DEF WalkInv, RefusedIsLast
<1>4. CASE EndOfBundleFails
  <2>1. doc.cabundle = <<>> => doc.leaf # expected_root
    BY <1>2, <1>4 DEF EndOfBundleFails, Chain
  <2>2. ~TrustedPath(doc, expected_root, now)
    BY <1>1, <1>2, <2>1, NoRoot
  <2> QED BY <1>4, <2>2, GiveUpInv DEF EndOfBundleFails
<1> QED BY <1>3, <1>4

(* The clock, and the reading of the PEM text, which is over before the    *)
(* first document comes in.                                                *)
LEMMA OtherStepsInv ==
    ASSUME WalkInv, PemInv', Tick \/ (PemNext /\ UNCHANGED chainVars)
                             \/ UNCHANGED vars
    PROVE  WalkInv'
<1>1. CASE PemNext /\ UNCHANGED chainVars
  <2>1. status = "idle" /\ Len(trusted_roots') \in Nat
    BY <1>1 DEF WalkInv, WalkType, PemNext, ReadLine, EndOfText, PemInv, PemType
  <2>2. WalkType'
    BY <1>1, <2>1 DEF WalkInv, WalkType, chainVars
  <2> QED BY <1>1, <2>1, <2>2 DEF WalkInv, WalkSoFar, NoPathSoFar,
                                  RefusedIsLast, chainVars
<1>2. CASE Tick \/ UNCHANGED vars
  <2>1. /\ UNCHANGED <<phase, trusted_roots, status, doc, times, depth, current>>
        /\ clock' = clock + 1 \/ clock' = clock
    BY <1>2 DEF Tick, vars, pemVars, chainVars
  <2>2. WalkType'
    BY <2>1 DEF WalkInv, WalkType
  <2>3. WalkSoFar'
    BY <2>1 DEF WalkInv, WalkSoFar, now, expected_root
  <2>4. NoPathSoFar'
    BY <2>1 DEF WalkInv, NoPathSoFar, GivenUp
  <2> QED BY <2>1, <2>2, <2>3, <2>4 DEF WalkInv, RefusedIsLast
<1> QED BY <1>1, <1>2

(* The invariant of the walk is inductive, given the one of the parsers.   *)
LEMMA WalkInvNext == WalkInv /\ PemInv /\ PemInv' /\ [Next]_vars => WalkInv'
<1> SUFFICES ASSUME WalkInv, PemInv, PemInv', [Next]_vars
             PROVE  WalkInv'
  OBVIOUS
<1>1. CASE \E d \in Doc : Submit(d)
  BY <1>1, SubmitInv
<1>2. CASE TryRoot
  BY <1>2, TryRootInv DEF PemInv
<1>3. CASE Refuse
  BY <1>3, RefuseInv
<1>4. CASE CheckLeaf \/ CheckLeafFails
  BY <1>4, CheckLeafInv
<1>5. CASE WalkParent
  BY <1>5, WalkParentInv
<1>6. CASE WalkParentFails
  BY <1>6, WalkParentFailsInv
<1>7. CASE EndOfBundle \/ EndOfBundleFails
  BY <1>7, EndOfBundleInv
<1>8. CASE Tick \/ (PemNext /\ UNCHANGED chainVars) \/ UNCHANGED vars
  BY <1>8, OtherStepsInv
<1> QED BY <1>1, <1>2, <1>3, <1>4, <1>5, <1>6, <1>7, <1>8 DEF Next

(* What the walk knows holds throughout.                                   *)
LEMMA WalkInvariant == Spec => [](PemInv /\ WalkInv)
<1>1. Init => PemInv /\ WalkInv
  <2>1. Init => WalkInv
    <3>1. Init => WalkType
      BY DEF Init, PemInit, ChainInit, WalkType
    <3>2. Init => WalkSoFar /\ NoPathSoFar /\ RefusedIsLast
      BY DEF Init, ChainInit, WalkSoFar, NoPathSoFar, RefusedIsLast
    <3> QED BY <3>1, <3>2 DEF WalkInv
  <2> QED BY <2>1, PemInvInit DEF Init
<1>2. PemInv /\ WalkInv /\ [Next]_vars => (PemInv /\ WalkInv)'
  BY NextPem, PemInvNext, WalkInvNext
<1> QED BY <1>1, <1>2, PTL DEF Spec

(* verify_attestation_doc and the loop over the roots accept a document    *)
(* only with a trusted path, at one instant, to an approved root.          *)
THEOREM AcceptedAnchored == Spec => []AcceptedIsAnchored
<1>1. PemInv /\ WalkInv => AcceptedIsAnchored
  <2> SUFFICES ASSUME PemInv, WalkInv, status = "accepted"
               PROVE  /\ TrustedPath(doc, expected_root, now)
                      /\ pinned => expected_root \in Allowlist
    BY DEF AcceptedIsAnchored
  <2>1. /\ GoodLeaf(doc, now)
        /\ depth \in 0..Len(doc.cabundle)
        /\ Chain(doc, depth) = expected_root
        /\ depth = 0 => doc.cabundle = <<>>
        /\ \A k \in 1..depth : Link(doc, k, now)
    <3>1. Len(doc.cabundle) \in Nat
      BY DocFields DEF WalkInv, WalkType
    <3> QED BY <3>1 DEF WalkInv, WalkType, WalkSoFar
  <2>2. TrustedPath(doc, expected_root, now)
    BY <2>1, PathParts
  <2>3. pinned => expected_root \in Allowlist
    BY DEF WalkInv, WalkType, PemInv, PemType, RootsApproved, expected_root
  <2> QED BY <2>2, <2>3
<1> QED BY <1>1, WalkInvariant, PTL

(* ... and refuse one only when it has no path to any root at the time     *)
(* that root was tried.                                                    *)
THEOREM RefusedRightly == Spec => []RefusedHasNoPath
<1>1. WalkInv => RefusedHasNoPath
  BY DEF WalkInv, WalkType, NoPathSoFar, GivenUp, RefusedIsLast,
         RefusedHasNoPath
<1> QED BY <1>1, WalkInvariant, PTL

=============================================================================
