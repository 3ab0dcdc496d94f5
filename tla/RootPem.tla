------------------------------- MODULE RootPem --------------------------------
(***************************************************************************)
(* How trust anchors come in.  At startup a PEM text is read twice: by     *)
(* validate_root_pem_with_allowlist (crates/veriai-attestation/src/lib.rs),*)
(* which must approve of every certificate in it, and by                   *)
(* Verifier::from_pem_with_config (crates/veriai-core/src/verify.rs),      *)
(* which loads them.  The two parsers are written apart and disagree on    *)
(* what they tolerate.  Neither sees the other, so the model runs them     *)
(* side by side over the same lines.                                       *)
(***************************************************************************)
EXTENDS Integers, Sequences

CONSTANTS
    Body,        \* lines of base64 text, trimmed
    CertOf,      \* the texts that decode, each with the certificate it holds
    Allowlist,   \* the certificates whose fingerprints are approved
    pinned,      \* the build asks for approval: feature "real-hardware"
    MaxLines     \* bound on the length of the PEM text

(* A trimmed line: a marker, nothing, some other line that starts with     *)
(* five dashes, or text.                                                   *)
Marker == {"BEGIN", "END", "blank", "dashes"}
Line == Marker \cup Body

ASSUME BodyAssumption == Body \cap Marker = {}
ASSUME PinnedAssumption == pinned \in BOOLEAN

VARIABLES
    phase,           \* "reading", then "serving" or "panicked"
    lines,           \* how many lines have been read
    validator,       \* locals of validate_root_pem_with_allowlist
    loader,          \* locals of from_pem_with_config
    trusted_roots    \* the certificates loaded, in order

pemVars == <<phase, lines, validator, loader, trusted_roots>>

NewValidator == [in_cert |-> FALSE, encoded |-> <<>>, count |-> 0, ok |-> TRUE]
NewLoader == [in_cert |-> FALSE, base64_str |-> <<>>, ok |-> TRUE]

PemInit ==
    /\ phase = "reading"
    /\ lines = 0
    /\ validator = NewValidator
    /\ loader = NewLoader
    /\ trusted_roots = <<>>

Decodes(text) == text \in DOMAIN CertOf
Approved(text) == Decodes(text) /\ CertOf[text] \in Allowlist

(* Mutant: only the first certificate is looked up.                        *)
ValidateLineFirstOnly(v, line) ==
    CASE line = "blank" -> v
      [] line = "BEGIN" /\ ~v.in_cert ->
             [v EXCEPT !.in_cert = TRUE, !.encoded = <<>>]
      [] line = "END" /\ v.in_cert /\ (v.count > 0 \/ Approved(v.encoded)) ->
             [v EXCEPT !.in_cert = FALSE, !.count = @ + 1]
      [] line \in Body /\ v.in_cert -> [v EXCEPT !.encoded = Append(@, line)]
      [] OTHER -> [v EXCEPT !.ok = FALSE]

(* One turn of the validator's loop: anything it does not expect is an     *)
(* error.                                                                  *)
ValidateLine(v, line) ==
    CASE line = "blank" -> v
      [] line = "BEGIN" /\ ~v.in_cert ->
             [v EXCEPT !.in_cert = TRUE, !.encoded = <<>>]
      [] line = "END" /\ v.in_cert /\ Approved(v.encoded) ->
             [v EXCEPT !.in_cert = FALSE, !.count = @ + 1]
      [] line \in Body /\ v.in_cert -> [v EXCEPT !.encoded = Append(@, line)]
      [] OTHER -> [v EXCEPT !.ok = FALSE]

(* One turn of the loader's loop.  BEGIN always starts over, END without a *)
(* BEGIN and text outside are skipped, any line inside is text.            *)
LoadLine(l, line) ==
    CASE line = "BEGIN" -> [l EXCEPT !.in_cert = TRUE, !.base64_str = <<>>]
      [] line = "END" /\ l.in_cert ->
             [l EXCEPT !.in_cert = FALSE, !.ok = Decodes(l.base64_str)]
      [] line \in Body \cup {"dashes"} /\ l.in_cert ->
             [l EXCEPT !.base64_str = Append(@, line)]
      [] OTHER -> l

(* The certificate that the loader's turn adds, if it adds one.            *)
LoadsRoot(l, line) ==
    l.ok /\ line = "END" /\ l.in_cert /\ Decodes(l.base64_str)

ReadLine(line) ==
    /\ phase = "reading" /\ lines < MaxLines
    /\ lines' = lines + 1
    /\ validator' = IF validator.ok THEN ValidateLine(validator, line)
                                    ELSE validator
    /\ loader' = IF loader.ok THEN LoadLine(loader, line) ELSE loader
    /\ trusted_roots' = IF LoadsRoot(loader, line)
                        THEN Append(trusted_roots, CertOf[loader.base64_str])
                        ELSE trusted_roots
    /\ UNCHANGED phase

ValidatorAccepts == validator.ok /\ ~validator.in_cert /\ validator.count > 0
LoaderAccepts == loader.ok /\ trusted_roots # <<>>

(* main() panics when either refuses; the locals are gone.                 *)
EndOfText ==
    /\ phase = "reading"
    /\ phase' = IF (pinned => ValidatorAccepts) /\ LoaderAccepts
                THEN "serving" ELSE "panicked"
    /\ lines' = 0
    /\ validator' = NewValidator
    /\ loader' = NewLoader
    /\ UNCHANGED trusted_roots

PemNext == (\E line \in Line : ReadLine(line)) \/ EndOfText

-----------------------------------------------------------------------------
(* Properties.                                                             *)

(* "A single approved certificate must not smuggle additional trust        *)
(* anchors into the verifier": whatever text the two parsers agreed to     *)
(* accept, every root the loader took from it is one that was approved.    *)
RootsApproved ==
    phase = "serving" /\ pinned =>
        \A n \in 1..Len(trusted_roots) : trusted_roots[n] \in Allowlist

(* As long as the validator has not objected, the two parsers are in step: *)
(* inside the same certificate, with the same text, after as many of them. *)
ParsersInStep ==
    /\ phase = "reading" /\ validator.ok =>
           /\ loader.ok
           /\ loader.in_cert = validator.in_cert
           /\ validator.in_cert => loader.base64_str = validator.encoded
           /\ Len(trusted_roots) = validator.count
           /\ \A n \in 1..Len(trusted_roots) : trusted_roots[n] \in Allowlist

=============================================================================
