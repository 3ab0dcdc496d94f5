----------------------------- MODULE MCCertChain ------------------------------
(***************************************************************************)
(* An instance of CertChain: a PEM text of two kinds of lines, a handful   *)
(* of certificates around one root, and every document made of one of the  *)
(* leaves and a bundle of at most three certificates.                      *)
(***************************************************************************)
EXTENDS CertChain, FiniteSets

CONSTANTS b1, b2

CA(subject, key, issuer, signer) ==
    [parses |-> TRUE, notBefore |-> 0, notAfter |-> 2,
     basic |-> "ca", limit |-> NoLimit, usage |-> "keyCertSign",
     critical |-> FALSE,
     subject |-> subject, issuer |-> issuer, key |-> key, signer |-> signer]

LeafCert(key, issuer, signer) ==
    [CA("leaf", key, issuer, signer) EXCEPT
        !.basic = "end", !.usage = "digitalSignature"]

(* The root; one of the same name and another key; bytes that are no       *)
(* certificate.                                                            *)
Root == CA("root", "kR", "root", "kR")
OtherRoot == CA("root", "kX", "root", "kX")
Garbage == [Root EXCEPT !.parses = FALSE]

(* Below the root, an authority that may have none below it, one that is   *)
(* below it all the same, and one that expires before the others.          *)
Inter == [CA("inter", "kI", "root", "kR") EXCEPT !.limit = 0]
SubInter == CA("sub", "kS", "inter", "kI")
ShortLived == [CA("inter", "kI", "root", "kR") EXCEPT !.notAfter = 0]

(* One that has the right key and another name.                            *)
Renamed == CA("other", "kI", "root", "kR")

(* Leaves: under each of them, under the wrong key, with the wrong rights, *)
(* and one that is itself an approved root.                                *)
LeafI == LeafCert("kL", "inter", "kI")
LeafS == LeafCert("kL", "sub", "kS")
LeafR == [LeafCert("kL", "root", "kR") EXCEPT !.basic = "absent",
                                              !.usage = "absent"]
LeafX == LeafCert("kL", "root", "kX")
LeafCA == CA("leaf", "kL", "root", "kR")
SelfLeaf == [LeafCert("kL", "leaf", "kL") EXCEPT !.notBefore = 1]

Authorities == {Root, OtherRoot, Garbage, Inter, SubInter, ShortLived, Renamed}
Leaves == {LeafI, LeafS, LeafR, LeafX, LeafCA, SelfLeaf}
MCCert == Authorities \cup Leaves \cup
          {[Inter EXCEPT !.basic = "end"], [Inter EXCEPT !.critical = TRUE],
           [Inter EXCEPT !.usage = "digitalSignature"],
           [Inter EXCEPT !.basic = "bad"], [LeafR EXCEPT !.usage = "bad"]}

D(leaf, bundle) ==
    [headers |-> TRUE, leaf |-> leaf, cabundle |-> bundle, signer |-> "kL"]

Bundles == UNION {[1..n -> Authorities] : n \in 0..2}
           \cup {<<Root, Inter, SubInter>>, <<OtherRoot, Root, Inter>>,
                 <<Root, Root, Inter>>, <<Root, ShortLived, SubInter>>}

MCDoc ==
    {D(leaf, bundle) : leaf \in Leaves, bundle \in Bundles}
    \cup {D(LeafI, <<Root, c>>) : c \in MCCert \ Authorities}
    \cup {D([LeafR EXCEPT !.usage = "bad"], <<Root>>),
          [D(LeafR, <<Root>>) EXCEPT !.headers = FALSE],
          [D(LeafR, <<Root>>) EXCEPT !.signer = "kX"]}

MCCertOf ==
    [text \in {<<>>, <<b1>>, <<b2>>, <<b1, b2>>} |->
        CASE text = <<>> -> Garbage
          [] text = <<b1>> -> OtherRoot
          [] text = <<b2>> -> SelfLeaf
          [] text = <<b1, b2>> -> Root]

MCAllowlist == {Root, SelfLeaf}

=============================================================================
